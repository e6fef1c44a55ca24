---------------------------- MODULE MCCmdCodec ----------------------------
(***************************************************************************)
(* An instance of CmdCodec for TLC: requests of the test client with keys  *)
(* that repeat, that are named like fields of CCmd, with blanks, empty     *)
(* values, a second "=" or none, up to lengths that are cut.               *)
(***************************************************************************)
EXTENDS CmdCodec

MCPieces ==
  { <<"i", "=", "x">>,
    <<" ", "i", " ", "=", " ", "x", "y", " ">>,
    <<"pid", "=", "x", " ", "y">>,
    <<"pid", "=">>,
    <<"fd", "=", "7">>,
    <<"cliPort", "=", "x">>,
    <<"serialno", "=", "serial">>,
    <<"ret", "=", "7">>,
    <<"ret", "=", UNFINISH_TASK_RET_FLAG>>,
    <<"z", "=", "x", "=", "y">>,
    <<"q", "=", "x", "y">>,
    <<"z">>,
    <<>> }

MCNumbers ==
  {"0", "1", "2", "7", "8", "80", "serial", UNFINISH_TASK_RET_FLAG}

MCOrder ==
  << "", " ", "0", "1", "2", UNFINISH_TASK_RET_FLAG, "7", "8", "80",
     "Err happend!", "by pid", "cliIp", "cliPort", "cmd", "errCode", "family",
     "fd", "i", "index", "ip", "pid", "q", "r1", "r2", "resp", "resp1",
     "resp2", "ret", "serial", "serialno", "type", "x", "y", "z" >>

MCSocket == [fd |-> "8", family |-> "2", cliIp |-> "ip", cliPort |-> "80"]

=============================================================================
