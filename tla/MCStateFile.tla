---------------------------- MODULE MCStateFile -----------------------------
(***************************************************************************)
(* Three registers of four values; files of every way to be well-formed    *)
(* and to be refused.                                                      *)
(***************************************************************************)
EXTENDS StateFile

MCUserFiles ==
  { <<At, 3, 1, 2>>, <<At, 3, 5, 2, 1>>, <<2, 0, 1, 3>>, <<7, 0, 1, 3, 2>>,
    <<>>, <<At>>, <<2, 0, 1>>, <<At, 1, 2>>, <<2, At, 1, 3>>, <<2, 0, Junk, 3>>,
    <<Junk, 0, 1, 3>> }
=============================================================================
