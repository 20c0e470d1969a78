--------------------------- MODULE MCNightlyReport ---------------------------
(* Two suites, of three codeunits each, and a table of one row.  A suite    *)
(* is complete, has a runner stop, has a test twice, once failing and once  *)
(* not, lacks a codeunit, has an assembly without a test, or none.          *)
EXTENDS NightlyReport, TLC

Asm(c, rows) == [codeunit |-> c, rows |-> rows]
MCExpected == <<{1, 2, 3}, {4, 5, 6}>>
MCFiles ==
  << { << Asm(1, <<<<1, "Fail">>, <<2, "Pass">>>>), Asm(3, <<<<0, "Fail">>>>),
          Asm(2, <<<<1, "Skip">>>>) >>,
       << Asm(1, <<<<2, "">>>>), Asm(2, <<<<1, "Pass">>>>), Asm(3, <<>>),
          Asm(1, <<<<2, "Pass">>>>) >> },
     { << Asm(6, <<>>), Asm(4, <<<<1, "Pass">>>>), Asm(5, <<<<1, "Fail">>>>) >>,
       << Asm(4, <<<<1, "Fail">>>>) >>,
       << Asm(5, <<>>) >>,
       <<>> } >>
MCBaselines == {{}, {<<1, 2>>, <<2, 1>>, <<5, 1>>, <<9, 1>>}}
MCProbeFiles == {"t1" :> "Pass" @@ "t5" :> "Fail", "t1" :> "Pass"}
=============================================================================
