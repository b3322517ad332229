----------------------------- MODULE CbmProofs ------------------------------
(***************************************************************************)
(* Proofs about the CBM client and the CBM bridge, for every number of     *)
(* calls, lines, failures and edits. Both invariants say where an answer   *)
(* can be: the client's, what is left in the pipe of the requests before;  *)
(* the bridge's, how old a graph and its caches can be while the project   *)
(* is not dirty.                                                           *)
(***************************************************************************)
EXTENDS CbmClient, GraphBridge, SequenceTheorems, TLAPS

-----------------------------------------------------------------------------
(***************************************************************************)
(* CbmClient                                                               *)
(***************************************************************************)

\* The types of the pipes and of the call; an end of file comes last.
PipesTyped ==
    /\ child \in {"alive", "killed", "gone"} /\ late \in BOOLEAN
    /\ stdin \in Seq(Nat) /\ writing \in Messages \union {NoCall}
    /\ channel \in Seq(Lines \union {Eof})
    /\ call \in CallStates \union {NoCall} /\ calls \in Nat
    /\ call # NoCall /\ call.pc = "send" => call.buf = <<>>
    /\ child = "alive" => \A i \in 1..Len(channel) : channel[i] # Eof

\* The stream: after a line that is not its answer's last comes one that is
\* not its answer's first.
StreamOrdered ==
    child = "alive" =>
        /\ \A i \in 1..(Len(channel) - 1) : ~channel[i].last => ~channel[i + 1].first
        /\ channel # <<>> /\ ~channel[Len(channel)].last => writing # NoCall /\ writing.done > 0

\* The next line is one from the middle of an answer.
Headless ==
    \/ channel # <<>> /\ ~channel[1].first
    \/ channel = <<>> /\ writing # NoCall /\ writing.done > 0

\* One answer is due, to request n.
OneDue(n) ==
    /\ \A i \in 1..Len(channel) : channel[i] # Eof => channel[i].of = n
    /\ child = "alive" =>
        /\ \A i \in 1..Len(channel) :
              channel[i].last => i = Len(channel) /\ writing = NoCall /\ stdin = <<>>
        /\ writing # NoCall => writing.of = n /\ stdin = <<>>
        /\ stdin # <<>> => stdin = <<n>>

\* No line will ever come.
Silent == child # "alive" /\ channel \in {<<>>, <<Eof>>}

\* A kill in time leaves nothing to collect.
KilledSilent == child = "killed" => channel = <<>>

\* The request of the attempt is written and its answer is awaited.
Receiving == call # NoCall /\ call.pc # "send"

\* Before a request is written nothing is due that could be read as an answer:
\* there is no child, it is silent, it owes nothing, or what it still owes
\* begins with the middle of an answer, which no parser accepts.
BetweenAttempts ==
    ~Receiving => child = "gone" \/ Silent \/ ~Outstanding \/ (child = "alive" /\ Headless)

\* While an answer is awaited, the one that can be read is the attempt's own,
\* or what is read first is the middle of an abandoned one.
DuringAttempt ==
    Receiving => \/ Silent
                 \/ OneDue(call.n)
                 \/ call.buf # <<>> /\ ~call.buf[1].first
                 \/ call.buf = <<>> /\ Headless

\* Ids are never compared, so AnswersMatch alone is not inductive: it rests on
\* what the pipe can still hold when an attempt begins.
ClientInv ==
    /\ PipesTyped /\ StreamOrdered /\ AnswersMatch
    /\ ~late => KilledSilent /\ BetweenAttempts /\ DuringAttempt

-----------------------------------------------------------------------------
(* Sequences *)

LEMMA AppendFacts ==
  ASSUME NEW S, NEW s \in Seq(S), NEW e \in S
  PROVE  /\ Append(s, e) \in Seq(S) /\ Len(Append(s, e)) = Len(s) + 1
         /\ Append(s, e) # <<>> /\ Append(s, e)[Len(s) + 1] = e
         /\ \A i \in 1..Len(s) : Append(s, e)[i] = s[i]
  OBVIOUS

LEMMA TailFacts ==
  ASSUME NEW S, NEW s \in Seq(S), s # <<>>
  PROVE  /\ Len(s) \in Nat \ {0} /\ Head(s) = s[1] /\ s[1] \in S
         /\ Tail(s) \in Seq(S) /\ Len(Tail(s)) = Len(s) - 1
         /\ \A i \in 1..(Len(s) - 1) : Tail(s)[i] = s[i + 1]
         /\ Len(s) = 1 => Tail(s) = <<>>
<1>1. Len(s) \in Nat \ {0} /\ Head(s) = s[1] /\ s[1] \in S
  OBVIOUS
<1>2. /\ Tail(s) \in Seq(S) /\ Len(Tail(s)) = Len(s) - 1
      /\ \A i \in 1..(Len(s) - 1) : Tail(s)[i] = s[i + 1]
  OBVIOUS
<1>3. Len(s) = 1 => Tail(s) = <<>>
  <2>1. Tail(s) # <<>> => Len(Tail(s)) \in Nat \ {0}
    BY <1>2, EmptySeq
  <2>2. Len(s) = 1 => Len(Tail(s)) = 0
    BY <1>2
  <2>. QED  BY <2>1, <2>2
<1>. QED  BY <1>1, <1>2, <1>3

LEMMA LastIn ==
  ASSUME NEW S, NEW s \in Seq(S), s # <<>>
  PROVE  Len(s) \in 1..Len(s) /\ s[Len(s)] \in S
  OBVIOUS

-----------------------------------------------------------------------------
(* The child and the reader thread *)

LEMMA ReceiveKeeps ==
  ASSUME ClientInv, Receive
  PROVE  ClientInv'
<1>. USE DEF ClientInv, PipesTyped
<1>1. /\ child = "alive" /\ writing = NoCall /\ stdin # <<>> /\ stdin' = Tail(stdin)
      /\ UNCHANGED <<child, channel, late, call, failures, unhealthy, opened, calls, outcome>>
  BY DEF Receive, callerVars
<1>2. PICK body \in Bodies, lines \in 1..MaxLines : \E heavy \in SUBSET (1..lines) :
          writing' = [of |-> Head(stdin), body |-> body, lines |-> lines,
                      heavy |-> heavy, done |-> 0]
  BY DEF Receive
<1>3. writing' \in Messages /\ writing'.of = stdin[1] /\ writing'.done = 0 /\ writing' # NoCall
  <2>1. stdin[1] \in Nat /\ Head(stdin) = stdin[1]
    BY <1>1, TailFacts
  <2>2. PICK heavy \in SUBSET (1..lines) :
          writing' = [of |-> Head(stdin), body |-> body, lines |-> lines,
                      heavy |-> heavy, done |-> 0]
    BY <1>2
  <2>3. lines \in Nat /\ heavy \in SUBSET Nat
    OBVIOUS
  <2>4. writing' \in Messages
    BY <2>1, <2>2, <2>3 DEF Messages
  <2>. QED  BY <2>1, <2>2, <2>4, SentinelAssumption
<1>4. Tail(stdin) \in Seq(Nat) /\ (Len(stdin) = 1 => Tail(stdin) = <<>>)
  BY <1>1, TailFacts
<1>5. PipesTyped'
  BY <1>1, <1>3, <1>4
<1>6. StreamOrdered'
  BY <1>1 DEF StreamOrdered
<1>7. AnswersMatch'
  BY <1>1 DEF AnswersMatch
<1>8. ASSUME ~late PROVE BetweenAttempts'
  BY <1>1, <1>8 DEF BetweenAttempts, Receiving, Silent, Outstanding, Headless
<1>9. ASSUME ~late PROVE DuringAttempt'
  BY <1>1, <1>3, <1>4, <1>9 DEF DuringAttempt, Receiving, Silent, OneDue, Headless
<1>. QED  BY <1>1, <1>5, <1>6, <1>7, <1>8, <1>9 DEF KilledSilent

LEMMA LineKeeps ==
  ASSUME ClientInv, Line
  PROVE  ClientInv'
<1>. USE DEF ClientInv, PipesTyped
<1>. DEFINE i == writing.done + 1
            line == [of |-> writing.of, first |-> i = 1, last |-> i = writing.lines,
                     huge |-> i \in writing.heavy, body |-> writing.body]
<1>1. /\ child = "alive" /\ writing \in Messages /\ channel' = Append(channel, line)
      /\ writing' = (IF i = writing.lines THEN NoCall ELSE [writing EXCEPT !.done = i])
      /\ UNCHANGED <<child, stdin, late, call, failures, unhealthy, opened, calls, outcome>>
  BY DEF Line, callerVars
<1>2. line \in Lines /\ line # Eof
  <2>1. writing.of \in Nat /\ writing.body \in Bodies
    BY <1>1 DEF Messages
  <2>2. (i = 1) \in BOOLEAN /\ (i = writing.lines) \in BOOLEAN /\ (i \in writing.heavy) \in BOOLEAN
    OBVIOUS
  <2>. HIDE DEF i
  <2>3. line \in Lines
    BY <2>1, <2>2, Zenon DEF Lines
  <2>. QED  BY <2>3, SentinelAssumption
<1>3. ~line.last => writing' \in Messages /\ writing' # NoCall /\ writing'.done > 0
                    /\ writing'.of = writing.of
  <2>1. ~line.last => i # writing.lines
    OBVIOUS
  <2>2. [writing EXCEPT !.done = i] \in Messages /\ i > 0
    <3>1. i \in Nat /\ i > 0
      BY <1>1 DEF Messages
    <3>. HIDE DEF i
    <3>. QED  BY <1>1, <3>1 DEF Messages
  <2>. QED  BY <1>1, <2>1, <2>2, SentinelAssumption DEF Messages
<1>4. line.last => writing' = NoCall
  BY <1>1
<1>5. (line.first => ~(writing.done > 0)) /\ line.of = writing.of
  <2>1. line.first => i = 1
    OBVIOUS
  <2>. QED  BY <1>1, <2>1 DEF Messages
<1>6. /\ channel' \in Seq(Lines \union {Eof}) /\ Len(channel') = Len(channel) + 1
      /\ channel' # <<>> /\ channel'[Len(channel) + 1] = line /\ Len(channel) \in Nat
      /\ \A k \in 1..Len(channel) : channel'[k] = channel[k]
  BY <1>1, <1>2, AppendFacts
<1>. HIDE DEF line, i
<1>7. PipesTyped'
  BY <1>1, <1>2, <1>3, <1>4, <1>5, <1>6
<1>8. StreamOrdered'
  <2>1. \A k \in 1..(Len(channel') - 1) : ~channel'[k].last => ~channel'[k + 1].first
    <3>. SUFFICES ASSUME NEW k \in 1..Len(channel), ~channel[k].last
                  PROVE  ~channel'[k + 1].first
      BY <1>6, SMTT(60)
    <3>1. CASE k = Len(channel)
      BY <3>1, <1>1, <1>5, <1>6 DEF StreamOrdered, Messages
    <3>2. CASE k < Len(channel)
      BY <3>2, <1>1, <1>6, SMTT(60) DEF StreamOrdered
    <3>. QED  BY <3>1, <3>2, <1>6
  <2>. QED  BY <2>1, <1>3, <1>6 DEF StreamOrdered
<1>9. AnswersMatch'
  BY <1>1 DEF AnswersMatch
<1>10. ASSUME Headless PROVE Headless'
  <2>1. CASE channel # <<>>
    BY <2>1, <1>6, <1>10, LastIn DEF Headless
  <2>2. CASE channel = <<>>
    BY <2>2, <1>5, <1>6, <1>10, <1>1 DEF Headless, Messages
  <2>. QED  BY <2>1, <2>2
<1>11. ASSUME ~late PROVE BetweenAttempts'
  BY <1>1, <1>10, <1>11, SentinelAssumption DEF BetweenAttempts, Receiving, Silent, Outstanding
<1>12. ASSUME ~late PROVE DuringAttempt'
  <2>1. ASSUME NEW n, OneDue(n) PROVE OneDue(n)'
    BY <2>1, <1>1, <1>3, <1>4, <1>5, <1>6, SentinelAssumption DEF OneDue
  <2>. QED  BY <1>1, <1>10, <1>12, <2>1 DEF DuringAttempt, Receiving, Silent
<1>. QED  BY <1>1, <1>7, <1>8, <1>9, <1>11, <1>12 DEF KilledSilent

LEMMA ExitKeeps ==
  ASSUME ClientInv, Exit
  PROVE  ClientInv'
<1>. USE DEF ClientInv, PipesTyped
<1>1. /\ child # "gone" /\ child' = "gone" /\ stdin' = <<>> /\ writing' = NoCall
      /\ channel' = Append(channel, Eof)
      /\ UNCHANGED <<late, call, failures, unhealthy, opened, calls, outcome>>
  BY DEF Exit, callerVars
<1>2. /\ channel' \in Seq(Lines \union {Eof}) /\ Len(channel') = Len(channel) + 1
      /\ channel' # <<>> /\ channel'[Len(channel) + 1] = Eof /\ Len(channel) \in Nat
      /\ \A k \in 1..Len(channel) : channel'[k] = channel[k]
  BY <1>1, AppendFacts
<1>3. PipesTyped'
  BY <1>1, <1>2
<1>4. StreamOrdered'
  BY <1>1 DEF StreamOrdered
<1>5. AnswersMatch'
  BY <1>1 DEF AnswersMatch
<1>6. BetweenAttempts'
  BY <1>1 DEF BetweenAttempts
<1>7. channel = <<>> => channel' = <<Eof>>
  BY <1>1
<1>8. ASSUME ~late PROVE DuringAttempt'
  <2>0. CASE channel = <<>>
    BY <2>0, <1>1, <1>7 DEF DuringAttempt, Silent
  <2>1. CASE channel # <<>>
    <3>1. ~Silent \/ channel = <<Eof>>
      BY <2>1 DEF Silent
    <3>2. ASSUME NEW n, OneDue(n) PROVE OneDue(n)'
      BY <3>2, <1>1, <1>2 DEF OneDue
    <3>3. Headless => Headless'
      BY <2>1, <1>2, LastIn DEF Headless
    <3>4. CASE child = "alive"
      BY <3>2, <3>3, <3>4, <1>1, <1>8 DEF DuringAttempt, Receiving, Silent
    <3>5. CASE child = "killed"
      BY <2>1, <3>5, <1>8 DEF KilledSilent
    <3>. QED  BY <3>4, <3>5, <1>1
  <2>. QED  BY <2>0, <2>1
<1>. QED  BY <1>1, <1>3, <1>4, <1>5, <1>6, <1>8 DEF KilledSilent

-----------------------------------------------------------------------------
(* The caller *)

LEMMA BeginKeeps ==
  ASSUME ClientInv, Refuse \/ \E raw \in BOOLEAN : Call(raw)
  PROVE  ClientInv'
<1>. USE DEF ClientInv, PipesTyped
<1>1. /\ UNCHANGED <<child, stdin, writing, channel, late>> /\ calls' \in Nat
      /\ call = NoCall
  BY DEF Refuse, Call, pipeVars
<1>2. /\ ~Receiving /\ ~Receiving' /\ call' \in CallStates \union {NoCall}
      /\ call' # NoCall => call'.buf = <<>>
  <2>1. CASE Refuse
    BY <2>1, <1>1 DEF Refuse, Receiving
  <2>2. ASSUME NEW raw \in BOOLEAN, Call(raw)
        PROVE  call' \in CallStates /\ call'.pc = "send" /\ call'.buf = <<>>
    <3>1. <<>> \in Seq(Lines)
      OBVIOUS
    <3>. QED  BY <2>2, <3>1 DEF Call, CallStates
  <2>. QED  BY <2>1, <2>2, <1>1 DEF Receiving
<1>3. AnswersMatch'
  BY <1>1 DEF AnswersMatch, Refuse, Call, Bodies
<1>. QED
  BY <1>1, <1>2, <1>3 DEF StreamOrdered, KilledSilent, BetweenAttempts, DuringAttempt, Silent,
     Outstanding, Headless

\* An attempt ends, with an answer to the call's own request or with none.
LEMMA AttemptEnds ==
  ASSUME ClientInv, Receiving \/ call.pc = "send", call # NoCall, NEW of, NEW body, NEW s,
         Attempted(of, body, s), late => late', ~late' /\ body \in Bodies => of = call.n
  PROVE  /\ call' \in CallStates \union {NoCall} /\ ~Receiving' /\ calls' = calls
         /\ call' # NoCall => call'.buf = <<>>
         /\ AnswersMatch'
<1>. USE DEF ClientInv, PipesTyped
<1>1. call' = NoCall \/ call' = [call EXCEPT !.pc = "send", !.retried = TRUE, !.buf = <<>>]
  BY DEF Attempted
<1>2. outcome' = outcome \/ outcome' = [call |-> call.n, of |-> of, body |-> body]
  BY DEF Attempted
<1>3. <<>> \in Seq(Lines)
  OBVIOUS
<1>4. /\ call' \in CallStates \union {NoCall} /\ ~Receiving'
      /\ call' # NoCall => call'.buf = <<>>
  BY <1>1, <1>3 DEF CallStates, Receiving
<1>5. AnswersMatch'
  BY <1>2 DEF AnswersMatch
<1>. QED  BY <1>4, <1>5 DEF Attempted

LEMMA SendKeeps ==
  ASSUME ClientInv, Send
  PROVE  ClientInv'
<1>. USE DEF ClientInv, PipesTyped
<1>1. /\ call \in CallStates /\ call # NoCall /\ call.pc = "send" /\ child # "gone"
      /\ stdin' = Append(stdin, call.n) /\ call' = [call EXCEPT !.pc = "receive"]
      /\ UNCHANGED <<child, writing, channel, late, failures, unhealthy, opened, calls, outcome>>
  BY DEF Send
<1>2. call' \in CallStates /\ call'.n = call.n /\ call.n \in Nat /\ call'.buf = call.buf
  BY <1>1 DEF CallStates
<1>3. stdin' \in Seq(Nat) /\ (stdin = <<>> => stdin' = <<call.n>>)
  <2>1. stdin' \in Seq(Nat)
    BY <1>1, <1>2, AppendFacts
  <2>2. Append(<<>>, call.n) = <<call.n>>
    OBVIOUS
  <2>. QED  BY <1>1, <2>1, <2>2
<1>4. call' # NoCall /\ call'.pc = "receive" /\ call.buf = <<>>
  BY <1>1, <1>2, SentinelAssumption DEF CallStates
<1>5. PipesTyped'
  BY <1>1, <1>2, <1>3
<1>6. StreamOrdered' /\ AnswersMatch' /\ (~late' => KilledSilent' /\ BetweenAttempts')
  BY <1>1, <1>4 DEF StreamOrdered, AnswersMatch, KilledSilent, BetweenAttempts, Receiving
<1>7. ASSUME ~late PROVE DuringAttempt'
  <2>1. Silent \/ ~Outstanding \/ Headless
    BY <1>1, <1>7 DEF BetweenAttempts, Receiving
  <2>2. CASE ~Outstanding
    BY <2>2, <1>1, <1>2, <1>3 DEF Outstanding, DuringAttempt, OneDue
  <2>. QED  BY <2>1, <2>2, <1>1, <1>2, <1>4 DEF DuringAttempt, Silent, Headless
<1>. QED  BY <1>1, <1>5, <1>6, <1>7

LEMMA LostKeeps ==
  ASSUME ClientInv, SendFails \/ Disconnected
  PROVE  ClientInv'
<1>. USE DEF ClientInv, PipesTyped
<1>1. /\ call # NoCall /\ Attempted(0, "lost", TRUE)
      /\ UNCHANGED <<child, stdin, writing, channel, late>>
  BY DEF SendFails, Disconnected, pipeVars
<1>2. Receiving \/ call.pc = "send"
  BY DEF SendFails, Disconnected, Receiving
<1>3. "lost" \notin Bodies
  BY DEF Bodies
<1>4. /\ call' \in CallStates \union {NoCall} /\ ~Receiving' /\ calls' = calls
      /\ AnswersMatch' /\ (call' # NoCall => call'.buf = <<>>)
  BY <1>1, <1>2, <1>3, AttemptEnds
<1>5. ~late => child = "gone"
  <2>1. CASE Disconnected
    <3>1. channel # <<>> /\ Head(channel) = Eof
      BY <2>1 DEF Disconnected
    <3>2. 1 \in 1..Len(channel) /\ channel[1] = Eof
      BY <3>1, TailFacts
    <3>. QED  BY <3>1, <3>2 DEF KilledSilent
  <2>. QED  BY <2>1 DEF SendFails
<1>. QED
  BY <1>1, <1>4, <1>5 DEF StreamOrdered, KilledSilent, BetweenAttempts, DuringAttempt

LEMMA DeadlineKeeps ==
  ASSUME ClientInv, Deadline
  PROVE  ClientInv'
<1>. USE DEF ClientInv, PipesTyped
<1>1. /\ call \in CallStates /\ call # NoCall /\ call.pc = "receive"
      /\ call' = [call EXCEPT !.pc = "kill"]
      /\ UNCHANGED <<child, stdin, writing, channel, late, failures, unhealthy, opened, calls, outcome>>
  BY DEF Deadline, pipeVars
<1>2. /\ call' \in CallStates /\ call'.n = call.n /\ call'.buf = call.buf
      /\ call' # NoCall /\ call'.pc = "kill"
  BY <1>1, SentinelAssumption DEF CallStates
<1>. QED
  BY <1>1, <1>2 DEF StreamOrdered, AnswersMatch, KilledSilent, BetweenAttempts, DuringAttempt,
     Receiving, Silent, OneDue, Headless, Outstanding

LEMMA KillKeeps ==
  ASSUME ClientInv, Kill
  PROVE  ClientInv'
<1>. USE DEF ClientInv, PipesTyped
<1>1. /\ call # NoCall /\ Receiving /\ Attempted(0, "timeout", TRUE)
      /\ child' = (IF child = "gone" THEN child ELSE "killed")
      /\ late' = (late \/ channel # <<>>)
      /\ UNCHANGED <<stdin, writing, channel>>
  BY DEF Kill, Receiving, KilledChild
<1>2. "timeout" \notin Bodies
  BY DEF Bodies
<1>3. /\ call' \in CallStates \union {NoCall} /\ ~Receiving' /\ calls' = calls
      /\ AnswersMatch' /\ (call' # NoCall => call'.buf = <<>>)
  BY <1>1, <1>2, AttemptEnds
<1>4. PipesTyped'
  BY <1>1, <1>3
<1>. QED
  BY <1>1, <1>3, <1>4 DEF StreamOrdered, KilledSilent, BetweenAttempts, DuringAttempt, Silent

LEMMA CollectKeeps ==
  ASSUME ClientInv, Collect
  PROVE  ClientInv'
<1>. USE DEF ClientInv, PipesTyped
<1>. DEFINE line == Head(channel)
            buf == Append(call.buf, line)
<1>1. /\ call \in CallStates /\ call # NoCall /\ call.pc = "receive" /\ Receiving
      /\ channel # <<>> /\ line # Eof /\ channel' = Tail(channel)
      /\ UNCHANGED <<child, stdin, writing>>
      /\ late' = (late \/ (line.huge /\ line.last /\ Outstanding'))
  BY DEF Collect, Receiving
<1>2. /\ Len(channel) \in Nat \ {0} /\ line = channel[1] /\ line \in Lines
      /\ channel' \in Seq(Lines \union {Eof}) /\ Len(channel') = Len(channel) - 1
      /\ \A k \in 1..(Len(channel) - 1) : channel'[k] = channel[k + 1]
      /\ Len(channel) = 1 => channel' = <<>>
  BY <1>1, TailFacts
<1>3. /\ buf \in Seq(Lines) /\ buf # <<>> /\ Len(buf) \in Nat \ {0} /\ buf[Len(buf)] = line
      /\ (call.buf # <<>> => buf[1] = call.buf[1]) /\ (call.buf = <<>> => buf[1] = line)
  <2>1. call.buf \in Seq(Lines) /\ Len(call.buf) \in Nat
    BY <1>1 DEF CallStates
  <2>2. /\ buf \in Seq(Lines) /\ Len(buf) = Len(call.buf) + 1 /\ buf # <<>>
        /\ buf[Len(call.buf) + 1] = line /\ \A k \in 1..Len(call.buf) : buf[k] = call.buf[k]
    <3>1. line \in Lines
      BY <1>2
    <3>. HIDE DEF line
    <3>. QED  BY <3>1, <2>1, AppendFacts, SMTT(60)
  <2>3. call.buf # <<>> => 1 \in 1..Len(call.buf)
    BY <2>1
  <2>. QED  BY <2>1, <2>2, <2>3
<1>. HIDE DEF line, buf
<1>4. child = "alive" => \A k \in 1..Len(channel') : channel'[k] # Eof
  BY <1>2
<1>5. StreamOrdered'
  BY <1>1, <1>2 DEF StreamOrdered
<1>6. child = "alive" /\ ~line.last => Headless'
  <2>1. CASE Len(channel) = 1
    BY <2>1, <1>1, <1>2 DEF StreamOrdered, Headless
  <2>2. CASE Len(channel) > 1
    <3>1. channel' # <<>> /\ channel'[1] = channel[2] /\ 1 \in 1..(Len(channel) - 1)
      BY <2>2, <1>2
    <3>. QED  BY <3>1, <1>1, <1>2 DEF StreamOrdered, Headless
  <2>. QED  BY <2>1, <2>2, <1>2
<1>7. ~late' => KilledSilent'
  BY <1>1, <1>2 DEF KilledSilent
<1>8. ASSUME ~late, NEW n, OneDue(n)
      PROVE  OneDue(n)' /\ line.of = n /\ (child = "alive" /\ line.last => ~Outstanding')
  <2>1. 1 \in 1..Len(channel) /\ line.of = n
    <3>1. 1 \in 1..Len(channel)
      BY <1>2, SMTT(60)
    <3>. QED  BY <3>1, <1>1, <1>2, <1>8 DEF OneDue
  <2>2. child = "alive" /\ line.last => ~Outstanding'
    BY <1>1, <1>2, <1>8, <2>1 DEF OneDue, Outstanding
  <2>3. \A k \in 1..Len(channel') : channel'[k] # Eof => channel'[k].of = n
    <3>. SUFFICES ASSUME NEW k \in 1..Len(channel'), channel'[k] # Eof
                  PROVE  channel'[k].of = n
      OBVIOUS
    <3>1. k + 1 \in 1..Len(channel) /\ channel[k + 1] = channel'[k]
      BY <1>2
    <3>. QED  BY <3>1, <1>8 DEF OneDue
  <2>4. child = "alive" => \A k \in 1..Len(channel') :
            channel'[k].last => k = Len(channel') /\ writing = NoCall /\ stdin = <<>>
    <3>. SUFFICES ASSUME child = "alive", NEW k \in 1..Len(channel'), channel'[k].last
                  PROVE  k = Len(channel') /\ writing = NoCall /\ stdin = <<>>
      OBVIOUS
    <3>1. k + 1 \in 1..Len(channel) /\ channel[k + 1].last
      BY <1>2
    <3>2. k + 1 = Len(channel) /\ writing = NoCall /\ stdin = <<>>
      BY <3>1, <1>8 DEF OneDue
    <3>. QED  BY <3>2, <1>2
  <2>5. OneDue(n)'
    BY <1>1, <1>8, <2>3, <2>4 DEF OneDue
  <2>. QED  BY <2>1, <2>2, <2>5, SMTT(60)
<1>9. CASE line.huge
  <2>1. Attempted(0, "lost", TRUE)
    BY <1>9 DEF Collect, line
  <2>2. "lost" \notin Bodies /\ (late => late')
    BY <1>1 DEF Bodies
  <2>3. /\ call' \in CallStates \union {NoCall} /\ ~Receiving' /\ calls' = calls
        /\ AnswersMatch' /\ (call' # NoCall => call'.buf = <<>>)
    BY <1>1, <2>1, <2>2, AttemptEnds
  <2>4. ~late' => BetweenAttempts'
    BY <1>1, <1>6, <1>9, <1>2 DEF BetweenAttempts, KilledSilent
  <2>5. DuringAttempt'
    BY <2>3 DEF DuringAttempt
  <2>. QED  BY <1>1, <1>2, <1>4, <1>5, <1>7, <2>3, <2>4, <2>5
<1>10. CASE ~line.huge /\ Parses(buf)
  <2>1. Attempted(line.of, line.body, FALSE) /\ late' = late
    BY <1>1, <1>10 DEF Collect, line, buf
  <2>2. line.last /\ buf[1].first
    BY <1>3, <1>10 DEF Parses
  <2>3. ~late => OneDue(call.n)
    BY <1>1, <1>2, <1>3, <2>2, SentinelAssumption DEF DuringAttempt, Silent, Headless
  <2>4. ~late => line.of = call.n /\ (child = "alive" => ~Outstanding')
    BY <1>8, <2>2, <2>3
  <2>5. /\ call' \in CallStates \union {NoCall} /\ ~Receiving' /\ calls' = calls
        /\ AnswersMatch' /\ (call' # NoCall => call'.buf = <<>>)
    BY <1>1, <2>1, <2>4, AttemptEnds
  <2>6. ~late' => BetweenAttempts'
    BY <1>1, <1>2, <2>1, <2>4 DEF BetweenAttempts, KilledSilent
  <2>7. DuringAttempt'
    BY <2>5 DEF DuringAttempt
  <2>. QED  BY <1>1, <1>2, <1>4, <1>5, <1>7, <2>5, <2>6, <2>7
<1>11. CASE ~line.huge /\ ~Parses(buf)
  <2>1. /\ call' = [call EXCEPT !.buf = buf] /\ UNCHANGED <<calls, outcome>> /\ late' = late
    BY <1>1, <1>11 DEF Collect, line, buf
  <2>2. /\ call' \in CallStates /\ call'.n = call.n /\ call'.pc = "receive" /\ call'.buf = buf
        /\ call' # NoCall
    BY <1>1, <1>3, <2>1, SentinelAssumption DEF CallStates
  <2>3. AnswersMatch' /\ BetweenAttempts'
    BY <2>1, <2>2 DEF AnswersMatch, BetweenAttempts, Receiving
  <2>4. ASSUME ~late PROVE DuringAttempt'
    <3>1. ~Silent
      BY <1>1, <1>2 DEF Silent
    <3>2. \/ OneDue(call.n)
          \/ call.buf # <<>> /\ ~call.buf[1].first
          \/ call.buf = <<>> /\ Headless
      <4>1. DuringAttempt
        BY <2>4
      <4>. QED  BY <4>1, <1>1, <3>1 DEF DuringAttempt
    <3>3. CASE OneDue(call.n)
      BY <3>3, <2>4, <1>8, <2>2 DEF DuringAttempt
    <3>4. CASE call.buf # <<>> /\ ~call.buf[1].first
      BY <3>4, <1>3, <2>2 DEF DuringAttempt
    <3>5. CASE call.buf = <<>> /\ Headless
      BY <3>5, <1>1, <1>2, <1>3, <2>2 DEF DuringAttempt, Headless
    <3>. QED  BY <3>2, <3>3, <3>4, <3>5
  <2>. QED  BY <1>1, <1>2, <1>4, <1>5, <1>7, <2>1, <2>2, <2>3, <2>4
<1>. QED  BY <1>9, <1>10, <1>11

LEMMA ClientStutters ==
  ASSUME ClientInv, UNCHANGED clientVars
  PROVE  ClientInv'
  BY DEF clientVars, ClientInv, PipesTyped, StreamOrdered, AnswersMatch, KilledSilent,
     BetweenAttempts, DuringAttempt, Receiving, Silent, OneDue, Headless, Outstanding

LEMMA ClientInitially == ClientInit => ClientInv
<1>. SUFFICES ASSUME ClientInit PROVE ClientInv
  OBVIOUS
<1>1. <<>> \in Seq(Nat) /\ <<>> \in Seq(Lines \union {Eof}) /\ Len(<<>>) = 0
  OBVIOUS
<1>2. PipesTyped
  BY <1>1, 1..0 = {} DEF ClientInit, PipesTyped
<1>3. StreamOrdered /\ AnswersMatch
  BY <1>1 DEF ClientInit, StreamOrdered, AnswersMatch, NoOutcome, Bodies
<1>4. KilledSilent /\ BetweenAttempts /\ DuringAttempt
  BY DEF ClientInit, KilledSilent, BetweenAttempts, DuringAttempt, Receiving, Outstanding
<1>. QED  BY <1>2, <1>3, <1>4 DEF ClientInv

\* An answer that a call returns was sent for a request of that call, however
\* its lines are split, whatever is oversized, retried or abandoned and whenever
\* the child dies or is killed; AnswersMatch names the two late answers that
\* are excepted (send_and_receive_raw, which never compares ids).
THEOREM ClientAnswers == ClientSpec => []AnswersMatch
<1>1. ClientInit => ClientInv
  BY ClientInitially
<1>2. ClientInv /\ [ClientNext]_clientVars => ClientInv'
  BY ReceiveKeeps, LineKeeps, ExitKeeps, BeginKeeps, SendKeeps, LostKeeps, CollectKeeps,
     DeadlineKeeps, KillKeeps, ClientStutters DEF ClientNext
<1>3. ClientInv => AnswersMatch
  BY DEF ClientInv
<1>. QED  BY <1>1, <1>2, <1>3, PTL DEF ClientSpec

-----------------------------------------------------------------------------
(***************************************************************************)
(* GraphBridge                                                             *)
(***************************************************************************)

\* Generations count edits; Nothing is a graph or a cache that is not there.
GenerationsTyped ==
    /\ disk \in [Projects -> Nat] /\ edits \in [Projects -> Nat]
    /\ dirty \in [Projects -> Nat] /\ indexed \in [Projects -> Nat]
    /\ marked \in [Projects -> Nat]
    /\ graph \in [Projects -> Nat \union {Nothing}]
    /\ memory \in [Projects -> Nat \union {Nothing}]
    /\ stored \in [Projects -> Nat \union {Nothing}]

Placed ==
    /\ root \in Projects /\ active \in Projects \union {Ghost}
    /\ ConfiguredRoots \subseteq paths /\ paths \subseteq Projects

\* Edits are reported in the order in which they were written, ...
EditsReported ==
    \A p \in Projects :
        /\ edits[p] <= disk[p] /\ marked[p] <= disk[p] /\ indexed[p] <= dirty[p]
        /\ p \notin ConfiguredRoots => edits[p] = 0 /\ dirty[p] = 0

\* ... a project that is not dirty, and whose reindexing went nowhere else,
\* has every marked edit in its graph and, if its last invalidation reached the
\* disk, in its caches, ...
CleanIsFresh ==
    \A p \in Projects \ misplaced : ~IsDirty(p) =>
        /\ graph[p] # Nothing => graph[p] >= marked[p]
        /\ p \notin unswept /\ memory[p] # Nothing => memory[p] >= marked[p]
        /\ p \notin unswept /\ stored[p] # Nothing => stored[p] >= marked[p]

\* ... and a request past the gate is about one that is not dirty.
RequestClean ==
    request # Nothing =>
        /\ request.of \in Projects \union {Ghost} /\ ~IsDirty(request.of)
        /\ request.kind = "tool" => request.of \in Projects

\* FreshAnswers rests on what the gate leaves behind for the request it lets pass.
BridgeInv ==
    /\ GenerationsTyped /\ Placed /\ EditsReported /\ CleanIsFresh /\ RequestClean
    /\ FreshAnswers

-----------------------------------------------------------------------------
LEMMA BridgeInitially == BridgeInit => BridgeInv
  BY PrimaryAssumption DEF BridgeInit, BridgeInv, GenerationsTyped, Placed, EditsReported,
     CleanIsFresh, RequestClean, FreshAnswers, IsDirty, Zero, Unknown, NoAnswer, Projects

LEMMA BackgroundKeeps ==
  ASSUME BridgeInv, NEW p \in Projects, BackgroundIndex(p) \/ BackgroundDone(p)
  PROVE  BridgeInv'
<1>1. CASE BackgroundIndex(p)
  BY <1>1 DEF BackgroundIndex, CallOk, CallFails, Indexed, bridgeVars, BridgeInv, GenerationsTyped,
     Placed, EditsReported, CleanIsFresh, RequestClean, FreshAnswers, IsDirty
<1>2. CASE BackgroundDone(p)
  BY <1>2 DEF BackgroundDone, BridgeInv, GenerationsTyped,
     Placed, EditsReported, CleanIsFresh, RequestClean, FreshAnswers, IsDirty
<1>. QED  BY <1>1, <1>2

LEMMA EditKeeps ==
  ASSUME BridgeInv, NEW p \in Projects, EditWrite(p) \/ EditMark(p)
  PROVE  BridgeInv'
<1>1. CASE EditWrite(p)
  BY <1>1 DEF EditWrite, cbmVars, bridgeVars, BridgeInv, GenerationsTyped,
     Placed, EditsReported, CleanIsFresh, RequestClean, FreshAnswers, IsDirty
<1>2. CASE EditMark(p)
  BY <1>2 DEF EditMark, cbmVars, BridgeInv, GenerationsTyped,
     Placed, EditsReported, CleanIsFresh, RequestClean, FreshAnswers, IsDirty
<1>. QED  BY <1>1, <1>2

LEMMA ExpireKeeps ==
  ASSUME BridgeInv, NEW p \in Projects, Expire(p)
  PROVE  BridgeInv'
  BY DEF Expire, cbmVars, Invalidated, BridgeInv, GenerationsTyped,
     Placed, EditsReported, CleanIsFresh, RequestClean, FreshAnswers, IsDirty

LEMMA SelectPlaces ==
  ASSUME Placed, NEW sel \in Selections, Select(sel)
  PROVE  Placed'
<1>1. CASE sel.by = "project" /\ sel.of \in Projects \union {Ghost}
  BY <1>1 DEF Select, SetProject, Placed
<1>2. CASE sel.by = "root" /\ sel.of \in Projects
  BY <1>2 DEF Select, SetWorkspaceRoot, Placed
<1>3. CASE sel.by = "none"
  BY <1>3 DEF Select, Placed
<1>. QED  BY <1>1, <1>2, <1>3 DEF Selections

LEMMA ReindexFreshens ==
  ASSUME BridgeInv, NEW p \in Projects, NEW repo \in Projects, Reindex(p, repo),
         UNCHANGED requestVars
  PROVE  /\ GenerationsTyped' /\ EditsReported' /\ CleanIsFresh' /\ ~IsDirty(p)'
         /\ misplaced \subseteq misplaced'
  BY DEF Reindex, CallOk, Indexed, InvalidateProjectCache, Invalidated, requestVars, BridgeInv,
     GenerationsTyped, EditsReported, CleanIsFresh, IsDirty

LEMMA GatePasses ==
  ASSUME BridgeInv, NEW kind, NEW p \in Projects \union {Ghost}, NEW repo \in Projects,
         NEW asked, Gate(kind, p, repo, asked), UNCHANGED requestVars
  PROVE  /\ GenerationsTyped' /\ EditsReported' /\ CleanIsFresh' /\ RequestClean'
         /\ misplaced \subseteq misplaced'
<1>1. /\ GenerationsTyped' /\ EditsReported' /\ CleanIsFresh' /\ ~IsDirty(p)'
      /\ misplaced \subseteq misplaced'
  <2>1. CASE ~IsDirty(p) /\ UNCHANGED <<graph, degraded, failed, indexed, memory, stored, misplaced, unswept>>
    BY <2>1 DEF requestVars, BridgeInv, GenerationsTyped, EditsReported, CleanIsFresh, IsDirty
  <2>2. CASE IsDirty(p) /\ Reindex(p, repo)
    BY <2>2, ReindexFreshens DEF IsDirty
  <2>. QED  BY <2>1, <2>2 DEF Gate
<1>2. RequestClean'
  BY <1>1 DEF Gate, Verdicts, RequestClean
<1>. QED  BY <1>1, <1>2

LEMMA GateRefuses ==
  ASSUME BridgeInv, NEW p, GateFails(p), UNCHANGED requestVars
  PROVE  /\ GenerationsTyped' /\ EditsReported' /\ CleanIsFresh' /\ RequestClean'
         /\ misplaced \subseteq misplaced'
  BY DEF GateFails, CallFails, requestVars, BridgeInv, GenerationsTyped, EditsReported,
     CleanIsFresh, RequestClean, IsDirty

LEMMA GraphToolKeeps ==
  ASSUME BridgeInv, NEW sel \in Selections, GraphTool(sel) \/ GraphToolNewRoot(sel)
  PROVE  BridgeInv'
<1>1. Placed'
  BY SelectPlaces DEF BridgeInv, GraphTool, GraphToolNewRoot
<1>2. CASE GraphTool(sel)
  <2>1. active' \in Projects \union {Ghost} /\ root' \in Projects
    BY <1>1 DEF Placed
  <2>2. \/ Gate("tool", active', root', IF sel.by = "none" THEN active' ELSE sel.of)
        \/ GateFails(active')
    BY <1>2 DEF GraphTool
  <2>3. /\ GenerationsTyped' /\ EditsReported' /\ CleanIsFresh' /\ RequestClean'
        /\ misplaced \subseteq misplaced'
    BY <1>2, <2>1, <2>2, GatePasses, GateRefuses DEF GraphTool
  <2>. QED  BY <1>1, <1>2, <2>3 DEF GraphTool, BridgeInv, FreshAnswers
<1>3. CASE GraphToolNewRoot(sel)
  BY <1>1, <1>3 DEF GraphToolNewRoot, cbmVars, requestVars, BridgeInv, GenerationsTyped,
     EditsReported, CleanIsFresh, RequestClean, FreshAnswers, IsDirty
<1>. QED  BY <1>2, <1>3

LEMMA ProxyToolKeeps ==
  ASSUME BridgeInv, NEW p \in Projects \union {Ghost}, ProxyTool(p)
  PROVE  BridgeInv'
<1>1. Placed'
  BY DEF BridgeInv, ProxyTool, Placed
<1>2. CASE p # active /\ p \notin paths
  BY <1>1, <1>2 DEF ProxyTool, cbmVars, requestVars, BridgeInv, Placed, GenerationsTyped,
     EditsReported, CleanIsFresh, RequestClean, FreshAnswers, IsDirty
<1>3. CASE p = active \/ p \in paths
  <2>1. Gate("proxy", p, IF p = active THEN root ELSE p, p) \/ GateFails(p)
    BY <1>3 DEF ProxyTool
  <2>2. CASE Gate("proxy", p, IF p = active THEN root ELSE p, p)
    <3>1. (IF p = active THEN root ELSE p) \in Projects
      BY <1>3 DEF BridgeInv, Placed
    <3>. QED  BY <1>1, <2>2, <3>1, GatePasses DEF ProxyTool, BridgeInv, FreshAnswers
  <2>3. CASE GateFails(p)
    BY <1>1, <2>3, GateRefuses DEF ProxyTool, BridgeInv, FreshAnswers
  <2>. QED  BY <2>1, <2>2, <2>3
<1>. QED  BY <1>2, <1>3

LEMMA UngatedKeeps ==
  ASSUME BridgeInv, ProxyList \/ \E p \in Projects : ProxyIndex(p)
  PROVE  BridgeInv'
<1>1. CASE ProxyList
  BY <1>1 DEF ProxyList, Arrive, CallOk, CallFails, requestVars, BridgeInv, GenerationsTyped,
     Placed, EditsReported, CleanIsFresh, RequestClean, FreshAnswers, IsDirty
<1>2. ASSUME NEW p \in Projects, ProxyIndex(p) PROVE BridgeInv'
  BY <1>2, ZenonT(60) DEF ProxyIndex, Arrive, CallOk, CallFails, Indexed, requestVars, BridgeInv,
     GenerationsTyped, Placed, EditsReported, CleanIsFresh, RequestClean, FreshAnswers, IsDirty
<1>. QED  BY <1>1, <1>2

LEMMA AnsweringKeeps ==
  ASSUME BridgeInv, CacheHit \/ Query \/ QueryRefused \/ QueryFails
  PROVE  BridgeInv'
<1>1. CASE CacheHit
  BY <1>1 DEF CacheHit, Cached, Answer, Done, cbmVars, requestVars, BridgeInv, GenerationsTyped,
     Placed, EditsReported, CleanIsFresh, RequestClean, FreshAnswers, IsDirty
<1>2. CASE Query
  BY <1>2 DEF Query, Missed, CallOk, Answer, Done, requestVars, BridgeInv, GenerationsTyped,
     Placed, EditsReported, CleanIsFresh, RequestClean, FreshAnswers, IsDirty
<1>3. CASE QueryRefused \/ QueryFails
  BY <1>3 DEF QueryRefused, QueryFails, CallFails, Done, requestVars, BridgeInv, GenerationsTyped,
     Placed, EditsReported, CleanIsFresh, RequestClean, FreshAnswers, IsDirty
<1>. QED  BY <1>1, <1>2, <1>3

LEMMA RestartKeeps ==
  ASSUME BridgeInv, Restart
  PROVE  BridgeInv'
  BY PrimaryAssumption DEF Restart, BridgeInv, GenerationsTyped, Placed, EditsReported,
     CleanIsFresh, RequestClean, FreshAnswers, IsDirty, Zero, Unknown, NoAnswer, Projects

LEMMA BridgeStutters ==
  ASSUME BridgeInv, UNCHANGED graphBridgeVars
  PROVE  BridgeInv'
  BY DEF graphBridgeVars, bridgeVars, cbmVars, BridgeInv, GenerationsTyped, Placed, EditsReported,
     CleanIsFresh, RequestClean, FreshAnswers, IsDirty

\* A gated query never answers from a graph or a cache that is older than an
\* edit the bridge was told of before, whatever was indexed beside it, expired
\* or failed; the exceptions are a project reindexed under another root, and a
\* hit on one whose row on disk could not be deleted when it was last
\* invalidated (the gate of ensure_indexed, invalidate_project_cache).
THEOREM BridgeFresh == BridgeSpec => []FreshAnswers
<1>1. BridgeInit => BridgeInv
  BY BridgeInitially
<1>2. BridgeInv /\ [BridgeNext]_graphBridgeVars => BridgeInv'
  BY BackgroundKeeps, EditKeeps, ExpireKeeps, GraphToolKeeps, ProxyToolKeeps, UngatedKeeps,
     AnsweringKeeps, RestartKeeps, BridgeStutters DEF BridgeNext
<1>3. BridgeInv => FreshAnswers
  BY DEF BridgeInv
<1>. QED  BY <1>1, <1>2, <1>3, PTL DEF BridgeSpec
=============================================================================
