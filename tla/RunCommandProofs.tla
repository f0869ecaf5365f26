-------------------------- MODULE RunCommandProofs --------------------------
(***************************************************************************)
(* Proofs about RunCommand, and so about ToolCall and SandboxRun below it: *)
(* for any number of runs, describes and calls, a sandbox is cleaned up    *)
(* last, the tool's answer is not lost, a cancellation reaches whoever     *)
(* works on the call, and an exit code tells whether the tool has run.     *)
(***************************************************************************)
EXTENDS RunCommand, SequenceTheorems, TLAPS

-----------------------------------------------------------------------------
(* The inductive invariant of the sandbox. *)

AnswerMessages == Defective \cup {"ok", "invalid-args", "tool-error"}

SandboxTyped ==
  /\ pc \in [Runs -> {"idle", "wrapping", "running", "settled"}]
  /\ outcome \in [Runs -> AnswerMessages \cup
       {"none", "aborted", "timeout", "unavailable", "setup-error", "no-result"}]
  /\ aborted \in [Runs -> BOOLEAN] /\ wrapped \in [Runs -> BOOLEAN]
  /\ killed \in [Runs -> BOOLEAN] /\ exitSeen \in [Runs -> BOOLEAN]
  /\ cleanups \in [Runs -> Nat]
  /\ child \in [Runs -> {"none", "nopid", "booting", "working", "flushing", "dead"}]
  /\ inbox \in [Runs -> Seq(AnswerMessages \cup {"ready"})]
  /\ sent \in [Runs -> AnswerMessages \cup {"none"}]

\* A run has a child and an outcome no earlier than it should, and its child
\* outlives it only under a SIGKILL.
Stages ==
  \A c \in Runs :
    /\ pc[c] \in {"idle", "wrapping"} => child[c] = "none"
    /\ pc[c] # "settled" => outcome[c] = "none" /\ cleanups[c] = 0
    /\ pc[c] = "settled" /\ Alive(c) => killed[c]
    /\ exitSeen[c] => child[c] = "dead"

\* The answer of the child waits behind `ready` until the run is over.
Delivery ==
  \A c \in Runs :
    /\ child[c] \in {"none", "nopid", "booting", "working"} => sent[c] = "none"
    /\ child[c] \in {"none", "nopid", "booting"} => inbox[c] = <<>>
    /\ child[c] \in {"booting", "working"} => outcome[c] \in {"none", "timeout", "aborted"}
    /\ sent[c] = "none" => inbox[c] \in {<<>>, <<"ready">>}
    /\ sent[c] # "none" /\ pc[c] = "running" =>
         inbox[c] \in {<<sent[c]>>, <<"ready", sent[c]>>}

SandboxInv ==
  SandboxTyped /\ Stages /\ Delivery /\ CleanedLast /\ AnswerNotLost /\ AbortStops

-----------------------------------------------------------------------------
\* The inboxes there are.
LEMMA Inboxes ==
  ASSUME NEW S, NEW m \in S, NEW n \in S
  PROVE  /\ <<>> \in Seq(S) /\ <<m>> \in Seq(S) /\ <<m, n>> \in Seq(S)
         /\ <<m>> # <<>> /\ <<m, n>> # <<>>
         /\ Head(<<m>>) = m /\ Head(<<m, n>>) = m
         /\ Tail(<<m>>) = <<>> /\ Tail(<<m, n>>) = <<n>>
         /\ Append(<<>>, m) = <<m>>
         /\ <<>> \o <<m>> = <<m>> /\ <<m>> \o <<n>> = <<m, n>>
<1>1. <<>> \in Seq(S) /\ <<m>> \in Seq(S) /\ <<n>> \in Seq(S) /\ <<m, n>> \in Seq(S)
  OBVIOUS
<1>2. <<m>> # <<>> /\ <<m, n>> # <<>>
  OBVIOUS
<1>3. Head(<<m>>) = m /\ Head(<<m, n>>) = m
  OBVIOUS
<1>4. Tail(<<m>>) = <<>> /\ Tail(<<m, n>>) = <<n>>
  OBVIOUS
<1>5. Append(<<>>, m) = <<m>> /\ <<>> \o <<m>> = <<m>>
  OBVIOUS
<1>6. <<m>> \o <<n>> \in Seq(S) /\ Len(<<m>> \o <<n>>) = 2 /\ Len(<<m, n>>) = 2
  BY <1>1
<1>7. \A i \in 1 .. 2 : (<<m>> \o <<n>>)[i] = <<m, n>>[i]
  <2> SUFFICES ASSUME NEW i \in 1 .. 2 PROVE (<<m>> \o <<n>>)[i] = <<m, n>>[i]
    OBVIOUS
  <2>1. (<<m>> \o <<n>>)[1] = m /\ (<<m>> \o <<n>>)[2] = n
    BY <1>1
  <2>2. i = 1 \/ i = 2
    OBVIOUS
  <2> QED BY <2>1, <2>2
<1>8. <<m>> \o <<n>> = <<m, n>>
  BY <1>1, <1>6, <1>7, SeqEqual
<1> QED BY <1>1, <1>2, <1>3, <1>4, <1>5, <1>8

LEMMA TailTyped ==
  ASSUME NEW S, NEW q \in Seq(S), q # <<>>
  PROVE  Tail(q) \in Seq(S)
OBVIOUS

-----------------------------------------------------------------------------
\* The end of a run, whatever ends it, if it takes no answer's place.
LEMMA SettleKeeps ==
  ASSUME SandboxInv, NEW c \in Runs, pc[c] = "running", NEW o, SettleAs(c, o),
         o \in AnswerMessages \cup {"aborted", "timeout", "no-result"},
         sent[c] # "none" => o \in {sent[c], "timeout", "aborted"},
         child[c] \in {"booting", "working"} => o \in {"timeout", "aborted"},
         aborted' = aborted \/ aborted' = [aborted EXCEPT ![c] = TRUE],
         inbox' = inbox \/ (inbox[c] # <<>> /\ sent[c] # "none"
                            /\ inbox' = [inbox EXCEPT ![c] = Tail(@)]),
         UNCHANGED <<wrapped, exitSeen, child, sent>>
  PROVE  SandboxInv'
<1> USE DEF SandboxInv
<1>1. /\ pc' = [pc EXCEPT ![c] = "settled"] /\ outcome' = [outcome EXCEPT ![c] = o]
      /\ \/ Running(c) /\ killed' = [killed EXCEPT ![c] = TRUE] /\ cleanups' = cleanups
         \/ /\ ~Running(c) /\ killed' = killed
            /\ cleanups' = [cleanups EXCEPT ![c] = IF wrapped[c] /\ @ = 0 THEN @ + 1 ELSE @]
  BY DEF SettleAs, Kill, CleanUp
<1>2. inbox' \in [Runs -> Seq(AnswerMessages \cup {"ready"})]
      /\ \A r \in Runs \ {c} : inbox'[r] = inbox[r]
  <2>1. inbox[c] # <<>> => Tail(inbox[c]) \in Seq(AnswerMessages \cup {"ready"})
    BY TailTyped DEF SandboxTyped
  <2> QED BY <2>1 DEF SandboxTyped
<1>3. SandboxTyped'
  <2>1. /\ pc' \in [Runs -> {"idle", "wrapping", "running", "settled"}]
        /\ outcome' \in [Runs -> AnswerMessages \cup
             {"none", "aborted", "timeout", "unavailable", "setup-error", "no-result"}]
    BY <1>1 DEF SandboxTyped
  <2>2. aborted' \in [Runs -> BOOLEAN] /\ killed' \in [Runs -> BOOLEAN]
    BY <1>1 DEF SandboxTyped
  <2>3. cleanups' \in [Runs -> Nat]
    <3>1. (IF wrapped[c] /\ cleanups[c] = 0 THEN cleanups[c] + 1 ELSE cleanups[c]) \in Nat
      BY DEF SandboxTyped
    <3> QED BY <1>1, <3>1 DEF SandboxTyped
  <2> QED BY <1>2, <2>1, <2>2, <2>3 DEF SandboxTyped
<1>4. Alive(c) => Running(c)
  BY DEF Stages, Alive, Running
<1>5. Stages'
  BY <1>1, <1>4 DEF Stages, SandboxTyped, Alive
<1>6. sent[c] = "none" => inbox' = inbox
  OBVIOUS
<1>7. child[c] \in {"none", "nopid", "booting"} => inbox' = inbox
  BY <1>6 DEF Delivery
<1>8. Delivery'
  BY <1>1, <1>2, <1>6, <1>7 DEF Delivery, SandboxTyped
<1>9. CleanedLast'
  BY <1>1, <1>4 DEF CleanedLast, SandboxTyped, Alive
<1>10. AnswerNotLost'
  BY <1>1 DEF AnswerNotLost, SandboxTyped
<1>11. AbortStops'
  BY <1>1, <1>4 DEF AbortStops, SandboxTyped, Alive
<1> QED BY <1>3, <1>5, <1>8, <1>9, <1>10, <1>11

\* A run is set up.
LEMMA SetupKeeps ==
  ASSUME SandboxInv, NEW c \in Runs, Begin(c) \/ WrapFails(c) \/ Spawn(c)
  PROVE  SandboxInv'
<1> USE DEF SandboxInv, childVars, fileVars
<1>1. CASE Begin(c)
  BY <1>1 DEF Begin, SandboxTyped, Stages, Delivery, CleanedLast, AnswerNotLost, AbortStops, Alive
<1>2. CASE WrapFails(c)
  <2>1. PICK o \in {"unavailable", "aborted", "setup-error"} :
          outcome' = [outcome EXCEPT ![c] = o]
    BY <1>2 DEF WrapFails, WrapResults, Wrapped
  <2> QED BY <1>2, <2>1 DEF WrapFails, SandboxTyped, Stages, Delivery, CleanedLast,
             AnswerNotLost, AbortStops, Alive
<1>3. CASE Spawn(c) /\ aborted[c]
  <2>1. /\ pc[c] = "wrapping"
        /\ wrapped' \in [Runs -> BOOLEAN] /\ pc' = [pc EXCEPT ![c] = "settled"]
        /\ outcome' = [outcome EXCEPT ![c] = "aborted"]
        /\ \E n \in {0, 1} : cleanups' = [cleanups EXCEPT ![c] = n]
        /\ UNCHANGED <<aborted, exitSeen, child, killed, inbox, sent>>
    BY <1>3 DEF Spawn, AbortedInWrap, SandboxTyped
  <2> QED BY <2>1 DEF SandboxTyped, Stages, Delivery, CleanedLast, AnswerNotLost, AbortStops, Alive
<1>4. CASE Spawn(c) /\ ~aborted[c]
  <2>1. PICK k \in {"booting", "nopid"} :
          /\ pc[c] = "wrapping"
          /\ wrapped' \in [Runs -> BOOLEAN] /\ pc' = [pc EXCEPT ![c] = "running"]
          /\ child' = [child EXCEPT ![c] = k]
          /\ UNCHANGED <<aborted, exitSeen, outcome, cleanups, killed, inbox, sent>>
    BY <1>4 DEF Spawn, AbortedInWrap, SandboxTyped
  <2>2. child[c] = "none" /\ sent[c] = "none" /\ inbox[c] = <<>> /\ outcome[c] = "none"
    BY <2>1 DEF Stages, Delivery
  <2>3. SandboxTyped' /\ Stages'
    BY <2>1, <2>2 DEF SandboxTyped, Stages, Alive
  <2>4. Delivery'
    BY <2>1, <2>2 DEF SandboxTyped, Delivery
  <2>5. CleanedLast' /\ AnswerNotLost' /\ AbortStops'
    BY <1>4, <2>1, <2>2 DEF SandboxTyped, Stages, CleanedLast, AnswerNotLost, AbortStops, Alive
  <2> QED BY <2>3, <2>4, <2>5
<1> QED BY <1>1, <1>2, <1>3, <1>4

\* What the gateway hears of the child, its timers and the caller's signal.
LEMMA EventKeeps ==
  ASSUME SandboxInv, NEW c \in Runs,
         Message(c) \/ ErrorOrClose(c) \/ Exit(c) \/ TimerFires(c) \/ Abort(c)
  PROVE  SandboxInv'
<1> USE DEF SandboxInv, childVars, fileVars
<1>1. CASE Message(c) /\ Head(inbox[c]) # "ready"
  <2>1. /\ pc[c] = "running" /\ SettleAs(c, Head(inbox[c])) /\ inbox[c] # <<>>
        /\ inbox' = [inbox EXCEPT ![c] = Tail(@)]
        /\ UNCHANGED <<aborted, wrapped, exitSeen, child, sent>>
    BY <1>1 DEF Message, Settle
  <2>2. sent[c] # "none" /\ Head(inbox[c]) = sent[c]
    BY <1>1, <2>1 DEF Delivery
  <2>3. sent[c] \in AnswerMessages /\ child[c] \notin {"booting", "working"}
    BY <2>2 DEF SandboxTyped, Delivery
  <2> QED BY <2>1, <2>2, <2>3, SettleKeeps
<1>2. CASE Message(c) /\ Head(inbox[c]) = "ready"
  <2>1. /\ pc[c] = "running" /\ inbox[c] # <<>> /\ inbox' = [inbox EXCEPT ![c] = Tail(@)]
        /\ UNCHANGED <<pc, outcome, cleanups, killed, aborted, wrapped, exitSeen, child, sent>>
    BY <1>2 DEF Message
  <2>2. /\ sent[c] = "none" => inbox[c] = <<"ready">>
        /\ sent[c] # "none" => inbox[c] = <<"ready", sent[c]>>
    <3>1. CASE sent[c] = "none"
      BY <2>1, <3>1 DEF Delivery
    <3>2. CASE sent[c] # "none"
      <4>1. sent[c] \in AnswerMessages /\ sent[c] # "ready"
        BY <3>2 DEF SandboxTyped, AnswerMessages, Defective
      <4>2. inbox[c] # <<sent[c]>>
        BY <1>2, <4>1, Inboxes
      <4> QED BY <2>1, <3>2, <4>2 DEF Delivery
    <3> QED BY <3>1, <3>2
  <2>3. /\ sent[c] = "none" => inbox'[c] = <<>>
        /\ sent[c] # "none" => inbox'[c] = <<sent[c]>>
    <3>1. inbox'[c] = Tail(inbox[c])
      BY <2>1 DEF SandboxTyped
    <3>2. Tail(<<"ready">>) = <<>> /\ \A m : Tail(<<"ready", m>>) = <<m>>
      <4>1. ASSUME NEW m PROVE Tail(<<"ready">>) = <<>> /\ Tail(<<"ready", m>>) = <<m>>
        <5>1. "ready" \in {"ready", m} /\ m \in {"ready", m}
          OBVIOUS
        <5> QED BY <5>1, Inboxes
      <4> QED BY <4>1
    <3> QED BY <2>2, <3>1, <3>2
  <2>4. SandboxTyped' /\ \A r \in Runs \ {c} : inbox'[r] = inbox[r]
    BY <2>1, TailTyped DEF SandboxTyped
  <2>5. child[c] \in {"none", "nopid", "booting"} => inbox[c] = <<>>
    BY DEF Delivery
  <2>6. Delivery'
    BY <2>1, <2>3, <2>4, <2>5 DEF Delivery
  <2> QED BY <2>1, <2>4, <2>6 DEF Stages, CleanedLast, AnswerNotLost, AbortStops, Alive
<1>3. CASE ErrorOrClose(c)
  <2>1. /\ pc[c] = "running" /\ SettleAs(c, "no-result")
        /\ child[c] = "nopid" \/ (child[c] = "dead" /\ inbox[c] = <<>>)
        /\ UNCHANGED <<aborted, wrapped, exitSeen, child, inbox, sent>>
    BY <1>3 DEF ErrorOrClose, Settle
  <2>2. sent[c] = "none"
    BY <2>1 DEF Delivery
  <2> QED BY <2>1, <2>2, SettleKeeps
<1>4. CASE TimerFires(c)
  BY <1>4, SettleKeeps DEF TimerFires, Settle
<1>5. CASE Abort(c) /\ pc[c] = "running"
  BY <1>5, SettleKeeps DEF Abort
<1>6. CASE Abort(c) /\ pc[c] # "running"
  <2>1. /\ pc[c] \in {"idle", "wrapping"} /\ aborted' = [aborted EXCEPT ![c] = TRUE]
        /\ UNCHANGED <<pc, outcome, wrapped, cleanups, exitSeen, child, killed, inbox, sent>>
    BY <1>6 DEF Abort, SandboxTyped
  <2>2. child[c] = "none"
    BY <2>1 DEF Stages
  <2>3. AbortStops'
    BY <2>1, <2>2 DEF AbortStops, SandboxTyped, Alive
  <2> QED BY <2>1, <2>3 DEF SandboxTyped, Stages, Delivery, CleanedLast, AnswerNotLost, Alive
<1>7. CASE Exit(c)
  <2>1. /\ child[c] = "dead" /\ exitSeen' = [exitSeen EXCEPT ![c] = TRUE]
        /\ cleanups' = cleanups
           \/ /\ pc[c] = "settled"
              /\ cleanups' = [cleanups EXCEPT ![c] = IF wrapped[c] /\ @ = 0 THEN @ + 1 ELSE @]
        /\ UNCHANGED <<pc, outcome, aborted, wrapped, child, killed, inbox, sent>>
    BY <1>7 DEF Exit, CleanUp
  <2>2. SandboxTyped' /\ Stages'
    BY <2>1 DEF SandboxTyped, Stages, Alive
  <2>3. CleanedLast'
    BY <2>1 DEF SandboxTyped, CleanedLast, Alive
  <2> QED BY <2>1, <2>2, <2>3 DEF Delivery, AnswerNotLost, AbortStops, Alive
<1> QED BY <1>1, <1>2, <1>3, <1>4, <1>5, <1>6, <1>7 DEF Message

\* The child, and an edit of its file.
LEMMA ChildKeeps ==
  ASSUME SandboxInv,
         (\E c \in Runs : Boot(c) \/ Work(c) \/ ChildEnds(c)) \/ Edit
  PROVE  SandboxInv'
<1> USE DEF SandboxInv, gateVars, childVars, fileVars
<1>1. ASSUME NEW c \in Runs, Boot(c) PROVE SandboxInv'
  <2>1. /\ child[c] = "booting" /\ inbox[c] = <<>> /\ sent[c] = "none"
        /\ child' = [child EXCEPT ![c] = "working"]
        /\ inbox' = [inbox EXCEPT ![c] = <<"ready">>]
        /\ UNCHANGED <<pc, outcome, aborted, wrapped, cleanups, exitSeen, killed, sent>>
    <3>1. Append(<<>>, "ready") = <<"ready">>
      BY Inboxes
    <3> QED BY <1>1, <3>1 DEF Boot, Delivery
  <2>2. SandboxTyped' /\ Stages'
    BY <2>1 DEF SandboxTyped, Stages, Alive
  <2>3. Delivery'
    BY <2>1 DEF SandboxTyped, Delivery
  <2> QED BY <2>1, <2>2, <2>3 DEF SandboxTyped, CleanedLast, AnswerNotLost, AbortStops, Alive
<1>2. ASSUME NEW c \in Runs, Work(c) PROVE SandboxInv'
  <2>1. PICK m \in Answers(c, file) :
          /\ child[c] = "working" /\ child' = [child EXCEPT ![c] = "flushing"]
          /\ inbox' = [inbox EXCEPT ![c] = @ \o <<m>>]
          /\ sent' = [sent EXCEPT ![c] = m]
          /\ UNCHANGED <<pc, outcome, aborted, wrapped, cleanups, exitSeen, killed>>
    BY <1>2 DEF Work, Flushed
  <2>2. m \in AnswerMessages /\ m # "none"
    BY <2>1 DEF Answers, DefectCode, AnswerMessages, Defective
  <2>3. sent[c] = "none" /\ inbox[c] \in {<<>>, <<"ready">>}
    BY <2>1 DEF Delivery
  <2>4. /\ inbox[c] \o <<m>> \in {<<m>>, <<"ready", m>>}
        /\ inbox[c] \o <<m>> \in Seq(AnswerMessages \cup {"ready"})
    <3>1. m \in AnswerMessages \cup {"ready"} /\ "ready" \in AnswerMessages \cup {"ready"}
      BY <2>2
    <3>2. /\ <<>> \o <<m>> = <<m>> /\ <<"ready">> \o <<m>> = <<"ready", m>>
          /\ <<m>> \in Seq(AnswerMessages \cup {"ready"})
          /\ <<"ready", m>> \in Seq(AnswerMessages \cup {"ready"})
      BY <3>1, Inboxes
    <3> QED BY <2>3, <3>2
  <2>5. SandboxTyped' /\ Stages'
    BY <2>1, <2>2, <2>4 DEF SandboxTyped, Stages, Alive
  <2>6. inbox'[c] \in {<<m>>, <<"ready", m>>} /\ sent'[c] = m
        /\ \A r \in Runs \ {c} : inbox'[r] = inbox[r] /\ sent'[r] = sent[r]
    BY <2>1, <2>4 DEF SandboxTyped
  <2>7. Delivery'
    BY <2>1, <2>2, <2>6 DEF SandboxTyped, Delivery
  <2>8. outcome[c] \in {"none", "timeout", "aborted"}
    BY <2>1 DEF Delivery
  <2>9. CleanedLast' /\ AbortStops'
    BY <2>1 DEF SandboxTyped, CleanedLast, AbortStops, Alive
  <2>10. AnswerNotLost'
    BY <2>1, <2>6, <2>8 DEF AnswerNotLost
  <2> QED BY <2>5, <2>7, <2>9, <2>10
<1>3. ASSUME NEW c \in Runs, ChildEnds(c) PROVE SandboxInv'
  BY <1>3 DEF ChildEnds, SandboxTyped, Stages, Delivery, CleanedLast, AnswerNotLost, AbortStops, Alive
<1>4. CASE Edit
  BY <1>4 DEF Edit, SandboxTyped, Stages, Delivery, CleanedLast, AnswerNotLost, AbortStops, Alive
<1> QED BY <1>1, <1>2, <1>3, <1>4

LEMMA SandboxUntouched ==
  ASSUME SandboxInv,
         UNCHANGED <<pc, outcome, wrapped, cleanups, exitSeen, childVars>>,
         aborted' = aborted \/ \E c \in Runs : aborted' = [aborted EXCEPT ![c] = TRUE] /\ pc[c] = "idle"
  PROVE  SandboxInv'
BY DEF childVars, SandboxInv, SandboxTyped, Stages, Delivery, CleanedLast, AnswerNotLost,
   AbortStops, Alive

LEMMA SandboxKeeps ==
  ASSUME SandboxInv, Next
  PROVE  SandboxInv'
BY SetupKeeps, EventKeeps, ChildKeeps DEF Next, GatewayStep

\* No run begins twice, and its outcome is final.
LEMMA RunsGoOn ==
  ASSUME SandboxInv, Next, NEW c \in Runs
  PROVE  /\ pc[c] # "idle" => pc'[c] # "idle"
         /\ outcome[c] # "none" => outcome'[c] = outcome[c]
<1> USE DEF SandboxInv, gateVars, childVars, fileVars
<1>1. ASSUME NEW d \in Runs, Begin(d) \/ GatewayStep(d) \/ TimerFires(d) \/ Abort(d)
      PROVE  /\ pc[c] # "idle" => pc'[c] # "idle"
             /\ outcome[c] # "none" => outcome'[c] = outcome[c]
  <2>1. CASE UNCHANGED <<pc, outcome>>
    BY <2>1
  <2>2. CASE ~UNCHANGED <<pc, outcome>>
    <3>1. /\ pc[d] # "settled"
          /\ \E l \in {"wrapping", "running", "settled"} : pc' = [pc EXCEPT ![d] = l]
          /\ \E o : outcome' = [outcome EXCEPT ![d] = o]
      <4>1. CASE Begin(d)
        BY <4>1 DEF Begin, SandboxTyped
      <4>2. CASE WrapFails(d)
        BY <4>2 DEF WrapFails
      <4>3. CASE Spawn(d)
        BY <4>3 DEF Spawn, SandboxTyped
      <4>4. CASE Message(d) \/ ErrorOrClose(d) \/ TimerFires(d) \/ Abort(d)
        BY <2>2, <4>4 DEF Message, ErrorOrClose, TimerFires, Abort, Settle, SettleAs
      <4>5. CASE Exit(d)
        BY <2>2, <4>5 DEF Exit
      <4> QED BY <1>1, <4>1, <4>2, <4>3, <4>4, <4>5 DEF GatewayStep
    <3>2. outcome[d] = "none"
      BY <3>1 DEF Stages
    <3> QED BY <3>1, <3>2 DEF SandboxTyped
  <2> QED BY <2>1, <2>2
<1>2. CASE Edit \/ \E d \in Runs : Boot(d) \/ Work(d) \/ ChildEnds(d)
  BY <1>2 DEF Edit, Boot, Work, ChildEnds
<1> QED BY <1>1, <1>2 DEF Next

-----------------------------------------------------------------------------
(* The inductive invariant of the calls. *)

Replies == {"none", "ok", "auth_expired", "refused", "unknown_tool", "upstream_error",
            "timeout", "invalid_args"} \cup Unavailable

CallTyped ==
  /\ deadline \in BOOLEAN
  /\ stage \in [Calls -> {"direct", "start", "listing", "calling", "over"}]
  /\ exit \in [Calls -> Exits \cup {"none"}]
  /\ ran \in [Calls -> Nat]
  /\ routing \in [Calls -> {"idle", "racing", "answered"}]
  /\ reply \in [Calls -> Replies]
  /\ raceTimer \in [Calls -> BOOLEAN] /\ listens \in [Calls -> BOOLEAN]
  /\ cut \in [Calls -> BOOLEAN]
  /\ upstream \in [Calls -> {"none", "pending", "ok", "upstream_error", "timeout", "auth_expired"}]

\* The signals of a race are in order at each of its stages, and a call is sent
\* again only if it has not reached its session.
Race ==
  \A c \in Calls :
    /\ Upstream => pc[c] = "idle"
    /\ routing[c] # "idle" => Upstream
    /\ routing[c] = "idle" => upstream[c] = "none" /\ ~raceTimer[c] /\ ~listens[c]
    /\ routing[c] = "racing" =>
         upstream[c] # "none" /\ (aborted[c] => cut[c]) /\ (~aborted[c] => listens[c])
    /\ routing[c] = "answered" =>
         ~raceTimer[c] /\ ~listens[c] /\ (upstream[c] = "pending" => cut[c])
    /\ reply[c] = "starting" => routing[c] = "answered" /\ upstream[c] = "none"

\* What a reply and a stage of a command say about the tool.
Truthful ==
  \A c \in Calls :
    /\ ran[c] = IF upstream[c] # "none" \/ pc[c] # "idle" THEN 1 ELSE 0
    /\ stage[c] \in {"start", "listing"} => ran[c] = 0
    /\ exit[c] # "none" => stage[c] = "over"
    /\ reply[c] \in {"ok", "timeout"} => ran[c] = 1
    /\ reply[c] = "ok" => "ok" \in {upstream[c], outcome[c]}
    /\ reply[c] \in {"unknown_tool", "refused"} => ran[c] = 0 /\ routing[c] = "answered"

CallInv == SandboxInv /\ CallTyped /\ Race /\ Truthful /\ ExitTellsWhatRan

-----------------------------------------------------------------------------
\* What a reply turns into.
LEMMA Classified ==
  ASSUME NEW r \in Replies \ {"none"}, NEW e \in Verdicts(Response(r))
  PROVE  /\ e \in Exits \ {"usage", "daemon", "shown"}
         /\ e = "success" => r = "ok"
         /\ e = "timeout" => r = "timeout"
         /\ e = "unknown_tool" => r \in {"unknown_tool", "refused"}
<1>1. CASE r = "ok"
  <2>1. Response(r).form = "result" /\ Response(r).data = "none"
    BY <1>1 DEF Response
  <2>2. e \in {"success", "tool_error"}
    BY <2>1 DEF Verdicts
  <2> QED BY <1>1, <2>2 DEF Exits
<1>2. CASE r = "auth_expired"
  <2>1. Response(r).data = "auth_expired"
    BY <1>2 DEF Response
  <2>2. e = "auth"
    BY <2>1 DEF Verdicts
  <2> QED BY <2>2 DEF Exits
<1>3. CASE r \notin {"ok", "auth_expired"}
  <2>1. /\ Response(r).form = "error" /\ Response(r).data = r
        /\ Response(r).code = ErrorCode(r)
    BY <1>3 DEF Response
  <2>2. ErrorCode(r) = "MethodNotFound" => r \in {"unknown_tool", "refused"}
    BY DEF ErrorCode
  <2>3. e \in {"auth", "timeout", "unknown_tool", "tool_error"}
        /\ (e = "timeout" => r = "timeout")
        /\ (e = "unknown_tool" => ErrorCode(r) = "MethodNotFound")
    BY <2>1 DEF Verdicts
  <2> QED BY <2>2, <2>3 DEF Exits
<1> QED BY <1>1, <1>2, <1>3

LEMMA OnlyStarting ==
  ASSUME NEW r \in Replies, Transient(Response(r))
  PROVE  r = "starting"
BY DEF Replies, Unavailable, Transient, Response, ErrorCode

LEMMA Decided ==
  ASSUME Decision # "call"
  PROVE  Decision \in Replies \ {"none", "ok", "timeout"}
BY DEF Decision, Replies, Unavailable, Refused

\* The sandbox works on: only custom tools have a run.
LEMMA SandboxStepKeeps ==
  ASSUME CallInv, RunStep, \A c \in Calls : pc[c] = "idle" => pc'[c] = "idle",
         UNCHANGED runVars
  PROVE  CallInv'
<1> USE DEF CallInv, runVars, toolVars, raceVars
<1>1. SandboxInv'
  BY SandboxKeeps DEF RunStep
<1>2. ASSUME NEW c \in Calls
      PROVE  /\ pc[c] = "idle" <=> pc'[c] = "idle"
             /\ outcome[c] # "none" => outcome'[c] = outcome[c]
             /\ routing[c] = "idle"
  <2>1. c \in Runs
    BY DEF Calls
  <2>2. routing[c] = "idle"
    BY DEF RunStep, Race
  <2> QED BY <2>1, <2>2, RunsGoOn DEF RunStep
<1>3. CallTyped'
  BY DEF RunStep, CallTyped
<1>4. Race'
  BY <1>2 DEF RunStep, Race, Upstream
<1>5. Truthful' /\ ExitTellsWhatRan'
  BY <1>2 DEF RunStep, Truthful, ExitTellsWhatRan
<1> QED BY <1>1, <1>3, <1>4, <1>5

\* A change of the tool, an end of the session's call, of the race, or a cancel.
LEMMA RaceKeeps ==
  ASSUME CallInv, UNCHANGED runVars, NEW c \in Calls,
         ToolChanges \/ UpstreamEnds(c) \/ Win(c) \/ RaceTimeout(c) \/ CustomAnswer(c)
           \/ CallerAborts(c)
  PROVE  CallInv'
<1> USE DEF CallInv, runVars, toolVars, raceVars
<1>0. c \in Runs /\ Calls \subseteq Runs
  BY DEF Calls
<1>1. CASE ToolChanges
  <2>1. SandboxInv'
    BY <1>1, SandboxUntouched DEF ToolChanges, vars, gateVars
  <2> QED BY <1>1, <2>1 DEF ToolChanges, vars, gateVars, CallTyped, Race, Truthful,
             ExitTellsWhatRan, Upstream
<1>2. CASE UpstreamEnds(c)
  <2>1. SandboxInv'
    BY <1>2, SandboxUntouched DEF UpstreamEnds, vars, gateVars
  <2>2. PICK o \in {"ok", "upstream_error", "timeout", "auth_expired"} :
          upstream' = [upstream EXCEPT ![c] = o]
    BY <1>2 DEF UpstreamEnds
  <2> QED BY <1>2, <2>1, <2>2 DEF UpstreamEnds, vars, gateVars, CallTyped, Race, Truthful,
             ExitTellsWhatRan, Upstream
<1>3. ASSUME NEW r \in Replies \ {"none", "starting", "unknown_tool", "refused"}, Conclude(c, r),
             (cut' = cut /\ upstream[c] # "pending") \/ cut' = [cut EXCEPT ![c] = TRUE],
             upstream[c] # "none", r = "ok" => upstream[c] = "ok",
             UNCHANGED <<vars, toolVars, upstream>>
      PROVE  CallInv'
  <2>1. SandboxInv'
    BY <1>3, SandboxUntouched DEF vars, gateVars
  <2>2. /\ routing[c] = "racing" /\ routing' = [routing EXCEPT ![c] = "answered"]
        /\ reply' = [reply EXCEPT ![c] = r]
        /\ raceTimer' = [raceTimer EXCEPT ![c] = FALSE]
        /\ listens' = [listens EXCEPT ![c] = FALSE]
        /\ UNCHANGED <<pc, outcome, aborted, source>>
    BY <1>3 DEF Conclude, vars, gateVars
  <2>3. CallTyped'
    BY <1>3, <2>2 DEF CallTyped
  <2>4. Race'
    BY <1>3, <2>2 DEF CallTyped, Race, Upstream
  <2>5. Truthful' /\ ExitTellsWhatRan'
    BY <1>3, <2>2 DEF CallTyped, Truthful, ExitTellsWhatRan
  <2> QED BY <2>1, <2>3, <2>4, <2>5
<1>4. CASE Win(c)
  <2>1. Described(upstream[c]) \in Replies \ {"none", "starting", "unknown_tool", "refused"}
        /\ (Described(upstream[c]) = "ok" => upstream[c] = "ok")
    BY <1>4 DEF Win, Described, CallTyped, Replies
  <2> QED BY <1>3, <1>4, <2>1 DEF Win
<1>5. CASE RaceTimeout(c)
  <2>1. upstream[c] # "none"
    BY <1>5 DEF RaceTimeout, Conclude, Race, Truthful
  <2> QED BY <1>3, <1>5, <2>1 DEF RaceTimeout, CutOff, Replies
<1>6. CASE CustomAnswer(c)
  <2>1. SandboxInv'
    BY <1>6, SandboxUntouched DEF CustomAnswer, vars, gateVars
  <2>2. PICK r \in RouteResultsOf(outcome[c]) : reply' = [reply EXCEPT ![c] = r]
    BY <1>6 DEF CustomAnswer
  <2>3. r \in {"ok", "upstream_error", "timeout", "invalid_args"} /\ (r = "ok" => outcome[c] = "ok")
    BY <2>2 DEF RouteResultsOf
  <2>4. ran[c] = 1
    BY <1>6 DEF CustomAnswer, Truthful
  <2> QED BY <1>6, <2>1, <2>2, <2>3, <2>4 DEF CustomAnswer, vars, gateVars, CallTyped, Replies,
             Race, Truthful, ExitTellsWhatRan, Upstream
<1>7. CASE CallerAborts(c)
  <2>1. /\ pc[c] = "idle" /\ routing[c] # "answered"
        /\ aborted' = [aborted EXCEPT ![c] = TRUE]
        /\ cut' = [cut EXCEPT ![c] = cut[c] \/ listens[c]]
        /\ listens' = [listens EXCEPT ![c] = FALSE]
        /\ UNCHANGED <<pc, outcome, source, routing, reply, raceTimer, upstream>>
    BY <1>7 DEF CallerAborts, Race
  <2>2. SandboxInv'
    BY <1>0, <1>7, <2>1, SandboxUntouched DEF CallerAborts
  <2>3. CallTyped'
    <3>1. cut[c] \/ listens[c] \in BOOLEAN
      BY DEF CallTyped
    <3>2. cut' \in [Calls -> BOOLEAN] /\ listens' \in [Calls -> BOOLEAN]
      BY <2>1, <3>1 DEF CallTyped
    <3> QED BY <1>7, <2>1, <3>2 DEF CallerAborts, CallTyped
  <2>4. Race'
    BY <1>0, <2>1 DEF CallTyped, Race, Upstream, SandboxInv, SandboxTyped
  <2>5. Truthful' /\ ExitTellsWhatRan'
    BY <2>1 DEF Truthful, ExitTellsWhatRan
  <2> QED BY <2>2, <2>3, <2>4, <2>5
<1> QED BY <1>1, <1>2, <1>4, <1>5, <1>6, <1>7

-----------------------------------------------------------------------------
\* A call reaches the gateway.
LEMMA CallKeeps ==
  ASSUME CallInv, NEW c \in Calls, CallReaches(c)
  PROVE  CallInv'
<1> USE DEF CallInv, runVars, toolVars, raceVars
<1>0. c \in Runs /\ Calls \subseteq Runs
  BY DEF Calls
<1>1. stage[c] \in {"direct", "calling"} /\ exit[c] = "none"
      /\ UNCHANGED <<stage, exit, tries, link, source>>
  BY DEF CallReaches, Requested, Truthful, CallTyped, Dispatch, Begin
<1>2. CASE Dispatch(c) /\ Decision # "call"
  <2>1. SandboxInv'
    BY <1>2, SandboxUntouched DEF Dispatch, vars, gateVars
  <2>2. /\ Upstream /\ routing[c] = "idle" /\ routing' = [routing EXCEPT ![c] = "answered"]
        /\ reply' = [reply EXCEPT ![c] = Decision]
        /\ UNCHANGED <<raceTimer, listens, cut, upstream, pc, outcome, aborted>>
    BY <1>2 DEF Dispatch, vars, gateVars
  <2>3. ran' = ran
    BY <1>2, <2>2 DEF CallReaches, Begin
  <2>4. ran[c] = 0 /\ upstream[c] = "none" /\ pc[c] = "idle"
    BY <2>2 DEF Race, Truthful
  <2>5. Decision \in Replies \ {"none", "ok", "timeout"}
    BY <1>2, Decided
  <2>6. CallTyped'
    BY <1>1, <1>2, <2>2, <2>3, <2>5 DEF CallTyped, Dispatch
  <2>7. Race'
    BY <1>1, <2>2, <2>4 DEF CallTyped, Race, Upstream
  <2>8. Truthful' /\ ExitTellsWhatRan'
    BY <1>1, <2>2, <2>3, <2>4, <2>5 DEF CallTyped, Truthful, ExitTellsWhatRan
  <2> QED BY <2>1, <2>6, <2>7, <2>8
<1>3. CASE Dispatch(c) /\ Decision = "call"
  <2>1. SandboxInv'
    BY <1>3, SandboxUntouched DEF Dispatch, vars, gateVars
  <2>2. /\ Upstream /\ routing[c] = "idle" /\ routing' = [routing EXCEPT ![c] = "racing"]
        /\ \E b \in BOOLEAN : raceTimer' = [raceTimer EXCEPT ![c] = b]
        /\ listens' = [listens EXCEPT ![c] = ~aborted[c]]
        /\ cut' = [cut EXCEPT ![c] = aborted[c]]
        /\ upstream' = [upstream EXCEPT ![c] = "pending"]
        /\ UNCHANGED <<reply, pc, outcome, aborted>>
    BY <1>3 DEF Dispatch, vars, gateVars, CallTyped
  <2>3. ran' = [ran EXCEPT ![c] = @ + 1]
    BY <1>3, <2>2 DEF CallReaches, Begin, Started
  <2>4. ran[c] = 0 /\ upstream[c] = "none" /\ pc[c] = "idle"
    BY <2>2 DEF Race, Truthful
  <2>5. CallTyped'
    <3>0. aborted[c] \in BOOLEAN
      BY <1>0 DEF SandboxInv, SandboxTyped
    <3>1. aborted[c] \in BOOLEAN /\ (~aborted[c]) \in BOOLEAN
      BY <3>0
    <3>2. /\ listens' \in [Calls -> BOOLEAN] /\ cut' \in [Calls -> BOOLEAN]
          /\ raceTimer' \in [Calls -> BOOLEAN]
      BY <2>2, <3>1 DEF CallTyped
    <3>3. ran' \in [Calls -> Nat]
      BY <2>3 DEF CallTyped
    <3> QED BY <1>1, <1>3, <2>2, <3>2, <3>3 DEF CallTyped, Dispatch
  <2>6. Race'
    <3>1. /\ routing'[c] = "racing" /\ upstream'[c] = "pending" /\ reply'[c] = reply[c]
          /\ (cut'[c] <=> aborted[c]) /\ (listens'[c] <=> ~aborted[c])
      BY <1>0, <2>2 DEF CallTyped
    <3>2. reply[c] # "starting"
      BY <2>2 DEF Race
    <3>3. \A d \in Calls \ {c} :
            /\ routing'[d] = routing[d] /\ upstream'[d] = upstream[d]
            /\ cut'[d] = cut[d] /\ listens'[d] = listens[d] /\ raceTimer'[d] = raceTimer[d]
      BY <2>2 DEF CallTyped
    <3> QED BY <1>1, <2>2, <2>4, <3>1, <3>2, <3>3 DEF Race, Upstream
  <2>7. Truthful' /\ ExitTellsWhatRan'
    BY <1>1, <2>2, <2>3, <2>4 DEF CallTyped, Race, Truthful, ExitTellsWhatRan
  <2> QED BY <2>1, <2>5, <2>6, <2>7
<1>4. CASE ~Upstream /\ Begin(c) /\ Started(c) /\ UNCHANGED <<toolVars, raceVars>>
  <2>1. SandboxInv'
    BY <1>0, <1>4, SetupKeeps
  <2>2. /\ pc[c] = "idle" /\ (\E l \in {"settled", "wrapping"} : pc' = [pc EXCEPT ![c] = l])
        /\ (\E o : outcome' = [outcome EXCEPT ![c] = o])
        /\ aborted' = aborted /\ ran' = [ran EXCEPT ![c] = @ + 1]
    BY <1>0, <1>4 DEF Begin, Started, SandboxTyped
  <2>3. ran[c] = 0 /\ upstream[c] = "none" /\ routing[c] = "idle"
    BY <1>4, <2>2 DEF Race, Truthful
  <2>4. outcome[c] = "none"
    BY <1>0, <2>2 DEF Stages, SandboxInv
  <2>5. CallTyped'
    BY <1>1, <1>4, <2>2 DEF CallTyped
  <2>6. \A d \in Calls \ {c} : pc'[d] = pc[d] /\ outcome'[d] = outcome[d] /\ ran'[d] = ran[d]
    BY <1>0, <2>2 DEF CallTyped, SandboxInv, SandboxTyped
  <2>7. pc'[c] # "idle" /\ ran'[c] = 1
    BY <1>0, <2>2, <2>3 DEF CallTyped, SandboxInv, SandboxTyped
  <2>8. Race'
    BY <1>1, <1>4, <2>2, <2>3, <2>6 DEF Race, Upstream
  <2>9. Truthful' /\ ExitTellsWhatRan'
    BY <1>1, <1>4, <2>3, <2>4, <2>6, <2>7 DEF Race, Truthful, ExitTellsWhatRan
  <2> QED BY <2>1, <2>5, <2>8, <2>9
<1> QED BY <1>2, <1>3, <1>4 DEF CallReaches

\* The command goes on.
LEMMA CommandKeeps ==
  ASSUME CallInv, NEW c \in Calls, Command(c)
  PROVE  CallInv'
<1> USE DEF CallInv, runVars, toolVars, raceVars, callVars
<1>1. ASSUME NEW e \in Exits, ExitWith(c, e), UNCHANGED <<callVars, ran>>,
             e \in {"usage", "daemon", "shown", "unknown_tool"} => ran[c] = 0,
             e \in {"success", "timeout"} => ran[c] = 1,
             e = "success" => "ok" \in {upstream[c], outcome[c]}
      PROVE  CallInv'
  <2>1. SandboxInv'
    BY <1>1, SandboxUntouched DEF vars, gateVars
  <2> QED BY <1>1, <2>1 DEF ExitWith, vars, gateVars, CallTyped, Race, Truthful,
             ExitTellsWhatRan, Upstream
<1>2. ASSUME NEW l \in {"listing", "calling"}, stage' = [stage EXCEPT ![c] = l],
             stage[c] \in {"start", "listing"}, UNCHANGED <<callVars, ran, exit>>
      PROVE  CallInv'
  <2>1. SandboxInv'
    BY <1>2, SandboxUntouched DEF vars, gateVars
  <2> QED BY <1>2, <2>1 DEF vars, gateVars, CallTyped, Race, Truthful, ExitTellsWhatRan, Upstream
<1>3. stage[c] \in {"start", "listing"} => ran[c] = 0
  BY DEF Truthful
<1>4. CASE RejectsInput(c) \/ Connects(c) \/ Lists(c) \/ Discovers(c)
  BY <1>1, <1>2, <1>3, <1>4 DEF RejectsInput, Connects, Lists, Discovers, Exits
<1>5. CASE Retry(c)
  <2>1. SandboxInv'
    BY <1>5, SandboxUntouched DEF Retry, vars, gateVars
  <2>2. reply[c] = "starting"
    BY <1>5, OnlyStarting DEF Retry, CallTyped
  <2>3. routing[c] = "answered" /\ upstream[c] = "none" /\ ~raceTimer[c] /\ ~listens[c]
    BY <2>2 DEF Race
  <2> QED BY <1>5, <2>1, <2>2, <2>3 DEF Retry, vars, gateVars, CallTyped, Replies, Race,
             Truthful, ExitTellsWhatRan, Upstream
<1>6. CASE Answered(c)
  <2>1. PICK e \in Verdicts(Response(reply[c])) : ExitWith(c, e)
    BY <1>6 DEF Answered
  <2>2. /\ e \in Exits \ {"usage", "daemon", "shown"}
        /\ e = "success" => reply[c] = "ok"
        /\ e = "timeout" => reply[c] = "timeout"
        /\ e = "unknown_tool" => reply[c] \in {"unknown_tool", "refused"}
    BY <1>6, <2>1, Classified DEF Answered, CallTyped
  <2> QED BY <1>1, <1>6, <2>1, <2>2 DEF Answered, Truthful
<1>7. CASE GivesUp(c)
  BY <1>1, <1>7 DEF GivesUp, Exits
<1> QED BY <1>4, <1>5, <1>6, <1>7 DEF Command

-----------------------------------------------------------------------------
LEMMA InitHolds == RunInit => CallInv
<1> SUFFICES ASSUME RunInit PROVE CallInv
  OBVIOUS
<1> USE DEF RunInit, CallInit
<1>0. Calls \subseteq Runs
  BY DEF Calls
<1>1. SandboxTyped
  BY DEF Init, SandboxTyped
<1>2. SandboxInv
  BY <1>1 DEF Init, SandboxInv, Stages, Delivery, CleanedLast, AnswerNotLost, AbortStops, Alive
<1>3. CallTyped
  BY DEF CallTyped, Replies
<1>4. Race /\ Truthful /\ ExitTellsWhatRan
  BY <1>0 DEF Init, Race, Truthful, ExitTellsWhatRan
<1> QED BY <1>2, <1>3, <1>4 DEF CallInv

LEMMA Inductive == CallInv /\ [RunNext]_allVars => CallInv'
<1> SUFFICES ASSUME CallInv, [RunNext]_allVars PROVE CallInv'
  OBVIOUS
<1>1. CASE UNCHANGED allVars
  <2>1. SandboxInv'
    BY <1>1, SandboxUntouched DEF CallInv, allVars, callVars, vars, gateVars
  <2> QED BY <1>1, <2>1 DEF CallInv, allVars, callVars, vars, gateVars, toolVars, raceVars, runVars,
             CallTyped, Race, Truthful, ExitTellsWhatRan, Upstream
<1>2. CASE RunNext
  <2>1. CASE GatewayGoesOn /\ UNCHANGED runVars
    <3>1. CASE RunStep /\ \A c \in Calls : pc[c] = "idle" => pc'[c] = "idle"
      BY <2>1, <3>1, SandboxStepKeeps
    <3>2. CASE ToolChanges
      <4>1. PICK c \in Calls : TRUE
        BY <3>2 DEF ToolChanges
      <4> QED BY <2>1, <3>2, <4>1, RaceKeeps
    <3>3. ASSUME NEW c \in Calls,
                 UpstreamEnds(c) \/ Win(c) \/ RaceTimeout(c) \/ CustomAnswer(c) \/ CallerAborts(c)
          PROVE  CallInv'
      BY <2>1, <3>3, RaceKeeps
    <3> QED BY <2>1, <3>1, <3>2, <3>3 DEF GatewayGoesOn
  <2>2. CASE \E c \in Calls : CallReaches(c) \/ Command(c)
    BY <2>2, CallKeeps, CommandKeeps
  <2> QED BY <1>2, <2>1, <2>2 DEF RunNext
<1> QED BY <1>1, <1>2

-----------------------------------------------------------------------------
\* The inductive invariant holds in every reachable state of the gateway's calls
\* and the sandbox's runs, whoever makes the calls.
THEOREM CallInvariant == RunSpec => []CallInv
<1>1. RunSpec => RunInit /\ [][RunNext]_allVars
  BY PTL DEF RunSpec
<1> QED BY <1>1, InitHolds, Inductive, PTL

\* The OS sandbox of a run is taken down only after its process is gone.
THEOREM CleanupIsLast == RunSpec => []CleanedLast
<1>1. CallInv => CleanedLast
  BY DEF CallInv, SandboxInv
<1> QED BY <1>1, CallInvariant, PTL

\* The end of a child never overtakes the answer it has sent.
THEOREM AnswersArrive == RunSpec => []AnswerNotLost
<1>1. CallInv => AnswerNotLost
  BY DEF CallInv, SandboxInv
<1> QED BY <1>1, CallInvariant, PTL

\* Nobody works on for a caller that has cancelled or was told of a timeout.
THEOREM CancellationReaches == RunSpec => []CancelReaches
<1>1. CallInv => CancelReaches
  BY DEF CallInv, SandboxInv, CallTyped, Race, CancelReaches
<1> QED BY <1>1, CallInvariant, PTL

\* `tlbx run` starts its tool once at most, and its exit code is true of it.
THEOREM ExitsAreTrue == RunSpec => []ExitTellsWhatRan
<1>1. CallInv => ExitTellsWhatRan
  BY DEF CallInv
<1> QED BY <1>1, CallInvariant, PTL

-----------------------------------------------------------------------------
(* A call finds no defect that the describe before it should have found. *)

\* An answer is one that the file allows which its child has read.
AnswersFromFile ==
  /\ edited \in [Runs -> BOOLEAN]
  /\ \A c \in Runs :
       /\ outcome[c] \in AnswerMessages => outcome[c] = sent[c]
       /\ sent[c] # "none" /\ ~edited[c] => sent[c] \in Answers(c, file)

LEMMA AnswerStep ==
  ASSUME SandboxInv, AnswersFromFile, Next
  PROVE  AnswersFromFile'
<1> USE DEF SandboxInv, gateVars, childVars, fileVars
<1>1. ASSUME NEW c \in Runs, NEW o, SettleAs(c, o), UNCHANGED <<sent, file, edited>>,
             o \in AnswerMessages => o = sent[c]
      PROVE  AnswersFromFile'
  <2>1. outcome' = [outcome EXCEPT ![c] = o]
    BY <1>1 DEF SettleAs
  <2> QED BY <1>1, <2>1 DEF AnswersFromFile, SandboxTyped, Answers
<1>2. /\ "aborted" \notin AnswerMessages /\ "timeout" \notin AnswerMessages
      /\ "no-result" \notin AnswerMessages /\ "unavailable" \notin AnswerMessages
      /\ "setup-error" \notin AnswerMessages /\ "none" \notin AnswerMessages
  BY DEF AnswerMessages, Defective
<1>3. ASSUME NEW c \in Runs, Begin(c) \/ WrapFails(c) \/ Spawn(c)
      PROVE  AnswersFromFile'
  <2>1. UNCHANGED <<sent, file, edited>>
    BY <1>3 DEF Begin, WrapFails, Spawn
  <2>2. outcome' = outcome
        \/ \E o \in {"aborted", "unavailable", "setup-error"} :
             outcome' = [outcome EXCEPT ![c] = o]
    BY <1>3 DEF Begin, WrapFails, Spawn, WrapResults, Wrapped, SandboxTyped
  <2>3. CASE outcome' = outcome
    BY <2>1, <2>3 DEF AnswersFromFile, Answers
  <2>4. ASSUME NEW o \in {"aborted", "unavailable", "setup-error"},
               outcome' = [outcome EXCEPT ![c] = o]
        PROVE  AnswersFromFile'
    <3>1. o \notin AnswerMessages
      BY <1>2
    <3> QED BY <2>1, <2>4, <3>1 DEF AnswersFromFile, SandboxTyped, Answers
  <2> QED BY <2>2, <2>3, <2>4
<1>4. ASSUME NEW c \in Runs,
             Message(c) \/ ErrorOrClose(c) \/ Exit(c) \/ TimerFires(c) \/ Abort(c)
      PROVE  AnswersFromFile'
  <2>1. UNCHANGED <<sent, file, edited>>
    BY <1>4 DEF Message, ErrorOrClose, Exit, TimerFires, Abort
  <2>2. CASE UNCHANGED outcome
    BY <2>1, <2>2 DEF AnswersFromFile, Answers
  <2>3. CASE Message(c) /\ Head(inbox[c]) # "ready"
    <3>1. /\ pc[c] = "running" /\ SettleAs(c, Head(inbox[c])) /\ inbox[c] # <<>>
      BY <2>3 DEF Message, Settle
    <3>2. Head(inbox[c]) = sent[c]
      BY <2>3, <3>1, Inboxes DEF Delivery
    <3> QED BY <3>1, <3>2, <2>1, <1>1
  <2>4. CASE \E o \in {"no-result", "timeout", "aborted"} : SettleAs(c, o)
    BY <2>1, <2>4, <1>1, <1>2
  <2> QED
    BY <1>4, <2>2, <2>3, <2>4 DEF Message, ErrorOrClose, Exit, TimerFires, Abort, Settle
<1>5. ASSUME NEW c \in Runs, Work(c)
      PROVE  AnswersFromFile'
  <2>1. PICK m \in Answers(c, file) : sent' = [sent EXCEPT ![c] = m]
    BY <1>5 DEF Work
  <2>2. /\ edited' = [edited EXCEPT ![c] = FALSE] /\ UNCHANGED <<outcome, file>>
        /\ child[c] = "working"
    BY <1>5 DEF Work
  <2>3. outcome[c] \notin AnswerMessages
    BY <2>2, <1>2 DEF Delivery
  <2>4. edited' \in [Runs -> BOOLEAN]
    BY <2>2 DEF AnswersFromFile
  <2>5. \A r \in Runs : Answers(r, file)' = Answers(r, file)
    BY <2>2 DEF Answers
  <2>6. sent'[c] = m /\ \A r \in Runs \ {c} : sent'[r] = sent[r] /\ edited'[r] = edited[r]
    BY <2>1, <2>2 DEF SandboxTyped, AnswersFromFile
  <2> HIDE DEF SandboxInv
  <2> QED BY <2>2, <2>3, <2>4, <2>5, <2>6 DEF AnswersFromFile
<1>6. ASSUME NEW c \in Runs, Boot(c) \/ ChildEnds(c)
      PROVE  AnswersFromFile'
  BY <1>6 DEF Boot, ChildEnds, AnswersFromFile, Answers
<1>7. CASE Edit
  <2>1. edited' = [c \in Runs |-> TRUE] /\ UNCHANGED <<outcome, sent>>
    BY <1>7 DEF Edit
  <2> QED BY <2>1 DEF AnswersFromFile
<1> QED BY <1>3, <1>4, <1>5, <1>6, <1>7 DEF Next, GatewayStep

\* Of the sandbox, everything but its own steps changes at most a signal.
LEMMA CallsLeaveAnswers ==
  ASSUME [RunNext]_allVars
  PROVE  Next \/ UNCHANGED <<outcome, sent, file, edited>>
<1> USE DEF vars, gateVars, childVars, fileVars
<1>1. ASSUME NEW c \in Calls, CallReaches(c)
      PROVE  Next \/ UNCHANGED <<outcome, sent, file, edited>>
  <2>1. Calls \subseteq Runs
    BY DEF Calls
  <2> QED BY <1>1, <2>1 DEF CallReaches, Dispatch, Next
<1>2. ASSUME NEW c \in Calls, Command(c)
      PROVE  UNCHANGED <<outcome, sent, file, edited>>
  BY <1>2 DEF Command, RejectsInput, Connects, Lists, Discovers, Retry, Answered, GivesUp, callVars
<1>3. CASE GatewayGoesOn
  BY <1>3 DEF GatewayGoesOn, RunStep, ToolChanges, UpstreamEnds, Win, RaceTimeout,
     CustomAnswer, CallerAborts
<1>4. CASE UNCHANGED allVars
  BY <1>4 DEF allVars, callVars
<1> QED BY <1>1, <1>2, <1>3, <1>4 DEF RunNext

LEMMA DescribedFromFile ==
  ASSUME SandboxInv, AnswersFromFile
  PROVE  DescribedIsCallable
<1> SUFFICES ASSUME NEW d \in Describes, NEW c \in Runs \ Describes,
                    outcome[d] = "ok", outcome[c] \in Defective, ~edited[d], ~edited[c]
             PROVE  file = "deep"
  BY DEF DescribedIsCallable
<1>1. d \in Runs
  BY RunsAssumption
<1>2. "ok" \in Answers(d, file)
  BY <1>1 DEF AnswersFromFile, AnswerMessages
<1>3. Describable(file)
  BY <1>2 DEF Answers, DefectCode
<1>4. outcome[c] \in Answers(c, file)
  BY DEF AnswersFromFile, AnswerMessages, Defective
<1>5. file # "none"
  BY <1>4 DEF Answers, Defective
<1> QED BY <1>3, <1>5 DEF Describable

\* A call fails on no defect that the describe of the same file has passed over,
\* but for a schema that only real arguments reach.
THEOREM DescribeTells == RunSpec => []DescribedIsCallable
<1>1. RunSpec => RunInit /\ [][RunNext]_allVars
  BY PTL DEF RunSpec
<1>2. RunInit => AnswersFromFile
  BY DEF RunInit, CallInit, Init, AnswersFromFile, AnswerMessages, Defective
<1>3. CallInv /\ AnswersFromFile /\ [RunNext]_allVars => AnswersFromFile'
  <2>1. ASSUME AnswersFromFile, UNCHANGED <<outcome, sent, file, edited>>
        PROVE  AnswersFromFile'
    BY <2>1 DEF AnswersFromFile, Answers
  <2> QED BY <2>1, AnswerStep, CallsLeaveAnswers DEF CallInv
<1>4. CallInv /\ AnswersFromFile => DescribedIsCallable
  BY DescribedFromFile DEF CallInv
<1> QED BY <1>1, <1>2, <1>3, <1>4, InitHolds, Inductive, PTL
=============================================================================
