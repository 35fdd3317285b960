-------------------------- MODULE MCNeonExamples --------------------------
(***************************************************************************)
(* Model-checking instance of NeonExamples: main on one thread, one handle *)
(* address, the real callback tables (5 client, 4 host fields), one        *)
(* accepted and one rejected relay address, the client loop long enough to *)
(* reach its first manual ping (i = 5).                                    *)
(***************************************************************************)
EXTENDS NeonExamples

MCRelayInputs    == {<<"a", ":", "7">>, <<"a", "7">>}
MCClientCbFields == 1 .. 5
MCHostCbFields   == 1 .. 4
MCAllOps         == AllOps
MCNoOps          == {}   \* no Java callers
=============================================================================
