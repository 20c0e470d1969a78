--------------------------- MODULE MCObjectIdGate ---------------------------
(***************************************************************************)
(* An instance of ObjectIdGate for TLC.  A declaration is <<file, id>>; file *)
(* 0 is master's at first, with codeunit 1.  Pull request 1 may take it    *)
(* away, declare codeunit 2 in file 1 and give the app of files 2 and 3 a  *)
(* range, block 2, which leaves id 1 out; pull request 2 works on files 2  *)
(* and 3.  A page has one entry.                                           *)
(***************************************************************************)
EXTENDS ObjectIdGate

MCId == {1, 2}
MCDecl == {0, 1, 2, 3} \X MCId
MCIdOf == [d \in MCDecl |-> d[2]]
MCBlock == {<<9, 2>>}
MCCovers == [r \in MCBlock |-> {r[2]}]
MCAppOf == [x \in MCDecl \cup MCBlock |-> IF x[1] \in {2, 3, 9} THEN "two" ELSE "one"]
MCOwned == <<{<<0, 1>>, <<1, 2>>, <<9, 2>>}, {<<2, 1>>, <<2, 2>>, <<3, 2>>}>>
MCStart == {<<0, 1>>}
=============================================================================
