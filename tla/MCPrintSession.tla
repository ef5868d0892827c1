---------------------------- MODULE MCPrintSession ----------------------------
(***************************************************************************)
(* Instances of PrintSession for TLC: the scripts of the host.             *)
(***************************************************************************)
EXTENDS PrintSession

(* Two jobs with a Clear between or before them, a job that is not ended,  *)
(* an empty one, and a session that is refused.                            *)
TwoJobs == {<<"START", "DATA", "DATA", "END", "CLEAR", "DATA", "END">>,
            <<"START", "CLEAR", "DATA", "END", "END", "DATA">>,
            <<"START", "DATA", "CLEAR", "DATA", "END", "DATA">>,
            <<"REFUSED", "DATA">>}

OneJob == {<<"START", "DATA", "END">>}
==============================================================================
