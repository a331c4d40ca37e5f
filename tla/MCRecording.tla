------------------------------ MODULE MCRecording ------------------------------
(* Recording for TLC: a run that records, from the start or from its menu, and *)
(* one that uses what it makes.                                                 *)
EXTENDS Recording, TLC

CONSTANTS r1, r2

Both(a, b) == (r1 :> a) @@ (r2 :> b)

RecordThenUse ==
  {Both(<<"record", FALSE>>, <<"replay", FALSE>>),
   Both(<<"record", FALSE>>, <<"import", FALSE>>),
   Both(<<"record", TRUE>>, <<"replay", FALSE>>),
   Both(<<"browser", TRUE>>, <<"import", FALSE>>)}
================================================================================
