--------------------------- MODULE MCSourceAudio ---------------------------
(* SourceAudio with a job that fails three times, with two jobs of either    *)
(* mode on one source file, one after the other or together, and with two    *)
(* conversions of another source.                                            *)
EXTENDS SourceAudio
CONSTANTS j1, j2
Case(m, jobs, o, c, f, l, r) == [mode |-> m, jobs |-> jobs, overlap |-> o,
                                 cancels |-> c, failures |-> f, lost |-> l, rivals |-> r]
MCCases == {Case("batch", {j1}, FALSE, 0, 3, 1, 0),
            Case("batch", {j1}, FALSE, 1, 2, 1, 0),
            Case("batch", {j1, j2}, TRUE, 0, 0, 0, 0),
            Case("batch", {j1, j2}, FALSE, 1, 0, 0, 0),
            Case("batch", {j1, j2}, FALSE, 0, 1, 0, 0),
            Case("ondemand", {j1, j2}, TRUE, 1, 1, 0, 0),
            Case("batch", {j1}, FALSE, 0, 1, 0, 2)}
=============================================================================
