----------------------------- MODULE PublishCall -----------------------------
(***************************************************************************)
(* What the run sees of the call that publishes a finished table, be it    *)
(* _mysql_swap_table_sync (SwapTable) or                                   *)
(* _mysql_replace_final_from_temp_sync (ReplaceInPlace).                   *)
(***************************************************************************)
VARIABLES
  final,  \* what the final table holds
  temp,   \* the temp table: what it holds, or only whether it exists
  pc,     \* next statement of the client
  result  \* what the caller is told
=============================================================================
