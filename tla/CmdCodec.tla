----------------------------- MODULE CmdCodec -----------------------------
(***************************************************************************)
(* The text in which a request travels: CCmd::ToString, CCmd::InitCCmd and *)
(* the string helpers, over the hops of one request from the client to     *)
(* netio, to a service, for the second service to the first and back, and  *)
(* to netio again.                                                         *)
(*                                                                         *)
(* A text is a sequence of tokens: names, pieces of values, "=", "&" and   *)
(* blanks.  Sizes are counted in tokens.  Numbers are tokens of their own; *)
(* a field of CCmd holds one token.                                        *)
(***************************************************************************)
EXTENDS Integers, FiniteSets, SequencesExt

CONSTANTS Pieces,    \* what a client may write between two "&", besides cmd
          MaxPieces, \* bound: how many of them
          Numbers,   \* the tokens atoll makes a number of; all others are "0"
          Order,     \* all tokens but "=" and "&", as their characters order them
          Socket,    \* fd, family, cliIp and cliPort of the client's socket
          MsgSize    \* bound: the tokens that fit into MsgBuf_T::sBuf

\* The fields of CCmd in the order ToString writes them.
Header == <<"ret", "type", "index", "serialno", "cmd",
            "fd", "family", "cliIp", "cliPort">>

\* What a text may be made of.
Tokens ==
  (UNION {Range(p) : p \in Pieces}) \cup Numbers \cup Range(Header)
    \cup {"=", "&", " ", "", Socket["cliIp"]}
    \cup {"resp1", "r1", "resp2", "r2", "by pid"}
    \cup {"errCode", "resp", "Err happend!"}

\* The ret by which a service says that it is not done.
UNFINISH_TASK_RET_FLAG == "2000000000"

ASSUME CmdCodecAssumption ==
  /\ Pieces \subseteq Seq(STRING)
  /\ \A p \in Pieces : "&" \notin Range(p)
  /\ DOMAIN Socket = {"fd", "family", "cliIp", "cliPort"}
  /\ \A f \in DOMAIN Socket \ {"cliIp"} : Socket[f] \in Numbers
  /\ {"0", "1", "2", "serial", UNFINISH_TASK_RET_FLAG} \subseteq Numbers
  /\ {"=", "&", " "} \cap (Numbers \cup {Socket["cliIp"]}) = {}
  /\ Order \in Seq(Tokens) /\ IsInjective(Order)
  /\ Tokens \ {"=", "&"} \subseteq Range(Order)
  /\ MaxPieces \in Nat
  /\ MsgSize \in Nat /\ MsgSize >= 4 * Len(Header) + 9 \* room for the answers

VARIABLES
  pieces, \* what the client wrote, piece by piece
  where,  \* where the request is: "client", "q1", "q2", "app", "back", "done",
          \* or "unfinished", in a service that is taken to be suspended
  text,   \* the text under way
  seen,   \* the CCmd the service of the client's command was given
  own,    \* obj3, the second service's copy of its request
  sent    \* the CCmd and the text DoSend is left with

vars == <<pieces, where, text, seen, own, sent>>

-----------------------------------------------------------------------------
(* string_helper.h.                                                        *)

\* SplitString: nothing for an empty text.
SplitString(s, sep) ==
  IF s = <<>> THEN <<>>
  ELSE FoldLeft(LAMBDA vec, t :
                  IF t = sep THEN Append(vec, <<>>)
                  ELSE [vec EXCEPT ![Len(vec)] = Append(@, t)],
                <<<<>>>>, s)

Trim(s) ==
  LET kept == {i \in DOMAIN s : s[i] # " "}
  IN  IF kept = {} THEN <<>> ELSE SubSeq(s, Min(kept), Max(kept))

\* The pairs of a text, by the positions of their pieces: the pieces that
\* split in two at "=".
PairsOf(s) ==
  LET vStr == SplitString(s, "&")
      halves == [i \in DOMAIN vStr |-> SplitString(vStr[i], "=")]
  IN  [i \in {j \in DOMAIN halves : Len(halves[j]) = 2} |->
         <<Trim(halves[i][1]), Trim(halves[i][2])>>]

PositionsOf(k, pairs) == {i \in DOMAIN pairs : pairs[i][1] = k}

\* Mutant: later values of a key replace the first.
StrPairAppendToMapLast(s) ==
  LET pairs == PairsOf(s)
  IN  [k \in {pairs[i][1] : i \in DOMAIN pairs} |->
         pairs[Max(PositionsOf(k, pairs))][2]]

\* strPairAppendToMap: map::insert keeps the value a key already has.
StrPairAppendToMap(s) ==
  LET pairs == PairsOf(s)
  IN  [k \in {pairs[i][1] : i \in DOMAIN pairs} |->
         pairs[Min(PositionsOf(k, pairs))][2]]

-----------------------------------------------------------------------------
(* CCmd.                                                                   *)

FreshCmd == [head |-> [f \in Range(Header) |-> IF f = "cliIp" THEN "" ELSE "0"],
             data |-> <<>>]

\* What snprintf leaves of a text in sBuf.
Cut(s) == SubSeq(s, 1, Min({Len(s), MsgSize}))

\* CCmd::ToString into sBuf.
CmdToString(c) ==
  Cut(FlattenSeq([i \in DOMAIN Header |->
                    <<Header[i], "=", c.head[Header[i]], "&">>]) \o c.data)

\* A field's value out of the text: the string for cliIp, atoll for others.
FieldOf(f, v) ==
  IF v = <<>> THEN FreshCmd.head[f]
  ELSE IF f = "cliIp" \/ v[1] \in Numbers THEN v[1] ELSE "0"

Rank(t) == CHOOSE i \in DOMAIN Order : Order[i] = t

\* The order of std::map over strings.
Before(s, t) ==
  \/ IsStrictPrefix(s, t)
  \/ \E i \in DOMAIN s \cap DOMAIN t :
       /\ SubSeq(s, 1, i - 1) = SubSeq(t, 1, i - 1)
       /\ Rank(s[i]) < Rank(t[i])

\* The keys of a std::map as its iterator meets them.
InOrder(keys) ==
  [i \in 1..Cardinality(keys) |->
     CHOOSE k \in keys : Cardinality({o \in keys : Before(o, k)}) = i - 1]

\* InitCCmd: the fields found in the text are taken out of the map, what is
\* left of it becomes the data.
InitCCmd(s) ==
  LET mapPara == StrPairAppendToMap(s)
      found == {f \in Range(Header) : <<f>> \in DOMAIN mapPara}
      rest == InOrder(DOMAIN mapPara \ {<<f>> : f \in found})
  IN  [head |-> [f \in Range(Header) |->
                   IF f \in found THEN FieldOf(f, mapPara[<<f>>])
                   ELSE FreshCmd.head[f]],
       data |-> FlattenSeq([i \in DOMAIN rest |->
                  (IF i = 1 THEN <<>> ELSE <<"&">>)
                    \o rest[i] \o <<"=">> \o mapPara[rest[i]]])]

-----------------------------------------------------------------------------
(* The hops of a request.                                                  *)

\* tcpCmd: the command first, as the test client writes it.
Written(cmd, ps) ==
  <<"cmd", "=", cmd>> \o FlattenSeq([i \in DOMAIN ps |-> <<"&">> \o ps[i]])

Init ==
  /\ pieces \in BoundedSeq(Pieces, MaxPieces)
  /\ where = "client"
  /\ \E cmd \in {"1", "2"} : text = Written(cmd, pieces)
  /\ seen = FreshCmd
  /\ own = FreshCmd
  /\ sent = [cmd |-> FreshCmd, msg |-> <<>>]

\* Mutant: an fd that came with the request is kept.
WithSocketUnlessGiven(c) ==
  [c EXCEPT !.head = [f \in Range(Header) |->
                        IF f \in DOMAIN Socket /\ c.head[f] \in {"0", ""}
                          THEN Socket[f]
                        ELSE IF f = "type" THEN "1" ELSE c.head[f]]]

\* DoRecv's own values for the fields that lead back to the client.
WithSocket(c) ==
  [c EXCEPT !.head = [f \in Range(Header) |->
                        IF f \in DOMAIN Socket THEN Socket[f]
                        ELSE IF f = "type" THEN "1" ELSE c.head[f]]]

\* CTcpNetHandler::DoRecv.
DoRecv ==
  /\ where = "client"
  /\ LET oCmd == InitCCmd(text)
     IN  /\ where' = IF oCmd.head["cmd"] = "1" THEN "q1" ELSE "q2"
         /\ text' = CmdToString(WithSocket(oCmd))
  /\ UNCHANGED <<pieces, seen, own, sent>>

\* ProcessMsg's test of Dispatch's result, the ret the service left: other
\* than 0, it replaces the data by an error.
ErrorOf(ret) ==
  <<"errCode", "=", ret>> \o <<"&", "resp", "=", "Err happend!">>
Checked(c) ==
  IF c.head["ret"] = "0" THEN c
  ELSE [c EXCEPT !.data = ErrorOf(c.head["ret"])]

\* The reply of ProcessMsg to netio, with the process that made it.
Reply(c) ==
  /\ text' = CmdToString([c EXCEPT !.head["type"] = "2",
                                !.data = @ \o <<" ", "by pid">>])
  /\ where' = "back"

\* The first service: CSvcTest::Execute and ProcessMsg, for a client's
\* request or for one of the second service.  Execute leaves the ret that came
\* with the request; by UNFINISH_TASK_RET_FLAG it is taken to be suspended.
SvcTest ==
  /\ where = "q1"
  /\ LET oCmd == Checked([InitCCmd(text) EXCEPT
                            !.data = <<"resp1", "=", "r1">>,
                            !.head["type"] = "2"])
     IN  \/ /\ oCmd.head["ret"] = UNFINISH_TASK_RET_FLAG
            /\ where' = "unfinished"
            /\ UNCHANGED text
         \/ /\ oCmd.head["ret"] # UNFINISH_TASK_RET_FLAG
            /\ oCmd.head["serialno"] = "0"
            /\ Reply(oCmd)
         \/ /\ oCmd.head["ret"] # UNFINISH_TASK_RET_FLAG
            /\ oCmd.head["serialno"] # "0"
            /\ text' = CmdToString(oCmd)
            /\ where' = "app"
  /\ seen' = IF own = FreshCmd THEN InitCCmd(text) ELSE seen
  /\ UNCHANGED <<pieces, own, sent>>

\* CSvcTest2::Execute up to Schedule, with SendRequest.
SvcTest2 ==
  /\ where = "q2"
  /\ seen' = InitCCmd(text)
  /\ own' = InitCCmd(text)
  /\ text' = CmdToString([FreshCmd EXCEPT !.head["serialno"] = "serial",
                                       !.head["cmd"] = "2"])
  /\ where' = "q1"
  /\ UNCHANGED <<pieces, sent>>

\* Mutant: the second answer is appended without a separator.
AnswerOfBothJoined(c) == c.data \o <<"resp2", "=", "r2">>

\* The data of the second service's answer.
AnswerOfBoth(c) == c.data \o <<"&", "resp2", "=", "r2">>

\* Dispatch: a service waits for the answer of this number.
Waits(c) == own # FreshCmd /\ c.head["serialno"] = "serial"

\* CSvcTest2::Execute from Schedule on, with GetResponse.
SvcTest2Resumed ==
  /\ where = "app"
  /\ Waits(InitCCmd(text))
  /\ Reply([own EXCEPT !.head["ret"] = "0", !.head["serialno"] = "0",
                       !.data = AnswerOfBoth(InitCCmd(text))])
  /\ UNCHANGED <<pieces, seen, own, sent>>

\* CNetIOUserEventHandler::OnEventFire.
OnEventFire ==
  /\ where = "back"
  /\ sent' = [cmd |-> InitCCmd(text), msg |-> Cut(InitCCmd(text).data)]
  /\ where' = "done"
  /\ UNCHANGED <<pieces, text, seen, own>>

Next == DoRecv \/ SvcTest \/ SvcTest2 \/ SvcTest2Resumed \/ OnEventFire

Spec == Init /\ [][Next]_vars

-----------------------------------------------------------------------------
(* Properties.                                                             *)

CmdOK(c) ==
  /\ c \in [head : [Range(Header) -> Tokens], data : Seq(Tokens)]
  /\ \A f \in Range(Header) \ {"cliIp"} : c.head[f] \in Numbers

\* Every variable has its type, and a text in a queue fits its buffer.
TypeOK ==
  /\ where \in {"client", "q1", "q2", "app", "back", "done", "unfinished"}
  /\ text \in Seq(Tokens)
  /\ where # "client" => Len(text) <= MsgSize
  /\ CmdOK(seen) /\ CmdOK(own) /\ CmdOK(sent.cmd)

\* Whatever keys a client's text has, repeated, named like the fields that
\* netio adds, or so long that the text is cut: the answer names the socket
\* the request came from.
RoutedBack ==
  where = "done" =>
    \A f \in DOMAIN Socket : sent.cmd.head[f] = Socket[f]

\* The pieces with one "=", by their trimmed keys: what a reader of the
\* text takes its pairs to be.
EqualSigns(p) == {i \in DOMAIN p : p[i] = "="}
KeyOf(p) == Trim(SubSeq(p, 1, Min(EqualSigns(p)) - 1))
ValueOf(p) == Trim(SubSeq(p, Min(EqualSigns(p)) + 1, Len(p)))
Sound(i) == Cardinality(EqualSigns(pieces[i])) = 1
ClientKeys == {KeyOf(pieces[i]) : i \in {j \in DOMAIN pieces : Sound(j)}}
FirstValue(k) ==
  LET at == {i \in DOMAIN pieces : Sound(i) /\ KeyOf(pieces[i]) = k}
  IN  ValueOf(pieces[Min(at)])
DataKeys == {k \in ClientKeys : \A f \in Range(Header) : k # <<f>>}

\* The client's request: on its way to a service, then in its hands.
OnItsWay == where \in {"q1", "q2"} /\ own = FreshCmd
Request == IF OnItsWay THEN InitCCmd(text) ELSE seen

\* "For a repeated key the value added first counts" (string_helper.h): a
\* service is given the client's pairs, each key with its first value, and
\* no other, of a request that fits the message; of a longer one the pairs
\* that come first in order, the last value possibly shortened.
FirstValueCounts ==
  where # "client" =>
    \A given \in {StrPairAppendToMap(Request.data)} :
        /\ DOMAIN given \subseteq DataKeys
        /\ \A k \in DOMAIN given :
             /\ IsPrefix(given[k], FirstValue(k))
             /\ given[k] # FirstValue(k) =>
                  \A o \in DOMAIN given : o = k \/ Before(o, k)
        /\ \A k \in DataKeys \ DOMAIN given :
             \A o \in DOMAIN given : Before(o, k)
        /\ OnItsWay /\ Len(text) < MsgSize => DOMAIN given = DataKeys

\* The ret the client wrote, if any.
ClientRet == IF <<"ret">> \in ClientKeys
             THEN FieldOf("ret", FirstValue(<<"ret">>)) ELSE "0"

\* What the client is to be told: the answers of all services its request went
\* through; but the first service, asked directly, passes a ret of the client's
\* off as its own, which makes the answer an error.
Told ==
  LET by == <<" ", "by pid">>
  IN  IF own # FreshCmd
        THEN [k \in {<<"resp1">>, <<"resp2">>} |->
                IF k = <<"resp1">> THEN <<"r1">> ELSE <<"r2">> \o by]
      ELSE IF ClientRet = "0" THEN [k \in {<<"resp1">>} |-> <<"r1">> \o by]
      ELSE [k \in {<<"errCode">>, <<"resp">>} |->
              IF k = <<"errCode">> THEN <<ClientRet>>
              ELSE <<"Err happend!">> \o by]

\* This reaches the client as pairs, in spite of being taken apart and put
\* together at every hop.
AnswersSurvive == where = "done" => StrPairAppendToMap(sent.msg) = Told

=============================================================================
