--------------------------- MODULE MCAnonymizeTable ---------------------------
(***************************************************************************)
(* A table with a column of mail addresses and one of documents, two rows. *)
(***************************************************************************)
EXTENDS AnonymizeTable

MCPaths == {<<"mail">>, <<"mail", "name">>, <<"long">>}

\* Every document over the three paths: what is not an object has no keys.
Scalar(v) == [p \in Places |-> IF p = Whole THEN v ELSE "ABSENT"]
Object(m, n, l) ==
  [p \in Places |-> CASE p = <<"mail">> -> m [] p = <<"mail", "name">> -> n
                      [] p = <<"long">> -> l [] OTHER -> "OBJECT"]
MCDocuments ==
  {Scalar(v) : v \in {"NULL", "INVALID", "ARRAY", "NUMBER", "STRING"}}
    \cup {Object(m, "ABSENT", l) :
            m \in {"ABSENT", "STRING", "NUMBER", "NULL", "ARRAY"}, l \in {"ABSENT", "STRING"}}
    \cup {Object("OBJECT", n, "ABSENT") : n \in {"ABSENT", "STRING", "OBJECT"}}
MCTexts == {Scalar(v) : v \in {"NULL", "EMPTY", "KEPT", "REAL"}}

MCTable(doctype, mailtype, generated, d1, d2, t1, t2) ==
  [type |-> [c \in Columns |-> IF c = "doc" THEN doctype ELSE mailtype],
   generated |-> generated,
   cells |-> [c \in Columns |->
     [r \in Rows |-> IF c = "doc" THEN (IF r = 1 THEN d1 ELSE d2)
                                  ELSE (IF r = 1 THEN t1 ELSE t2)]]]

\* A column of type json holds JSON only.
Held(type) == IF type = "json" THEN MCDocuments \ {Scalar("INVALID")} ELSE MCDocuments

\* All pairs of documents beside a real address, and all pairs of texts beside a document.
MCTables ==
  UNION {{MCTable(type, "text", {}, d1, d2, Scalar("REAL"), Scalar("KEPT")) :
            d1 \in Held(type), d2 \in Held(type)} : type \in {"json", "text"}}
    \cup {MCTable("json", type, generated, Object("STRING", "ABSENT", "ABSENT"), d2, t1, t2) :
            type \in {"text", "number"}, generated \in SUBSET Columns, t1 \in MCTexts,
            t2 \in MCTexts, d2 \in {Object("NUMBER", "ABSENT", "ABSENT"), Scalar("ARRAY")}}

MCRule(names, kind, enabled, exception) ==
  [names |-> names, kind |-> kind, enabled |-> enabled, exception |-> exception]
MCRuleLists ==
  {<<>>,
   <<MCRule({"mail"}, "one", TRUE, TRUE), MCRule({"doc"}, "json", TRUE, FALSE)>>,
   <<MCRule({"mail"}, "one", FALSE, FALSE), MCRule({"mail", "name"}, "two", TRUE, FALSE)>>,
   <<MCRule({"name", "long"}, "two", TRUE, FALSE), MCRule({"doc"}, "json", TRUE, FALSE)>>,
   <<MCRule({"mail"}, "empty", TRUE, FALSE), MCRule({"mail", "long"}, "one", TRUE, FALSE)>>,
   <<MCRule({"mail"}, "json", TRUE, FALSE), MCRule({"doc"}, "one", TRUE, TRUE)>>}
=============================================================================
