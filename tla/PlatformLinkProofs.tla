-------------------------- MODULE PlatformLinkProofs --------------------------
(***************************************************************************)
(* What TLAPS proves of PlatformLink, for any calls, connections, refusals *)
(* and stumbles.  A call's place tells whether its request can be under    *)
(* way, and an answer tells whether it was carried out (CallTells); that   *)
(* nothing stirs after close() starts where the loop is cut off, before    *)
(* the connection is closed (CutTells).                                    *)
(***************************************************************************)
EXTENDS PlatformLink, TLAPS

Before == {"idle", "queued", "pacing", "sending"}

(* What the place of a call, and an answer to it, tell of the platform.    *)
Tells(c) ==
  /\ call[c] \in Before => c \notin wire \cup acted /\ \A a \in answers : a.call # c
  /\ call[c] = "sending" => future[c] \in {"open", "cancelled"}
  /\ call[c] = "queued" => c \in Sends
  /\ c \in wire => c \notin acted
  /\ future[c] = "ok" => c \in acted
  /\ future[c] = "failed" => c \notin wire \cup acted
  /\ \A a \in answers : a.call = c =>
       /\ c \notin wire
       /\ a.says = "ok" => c \in acted
       /\ a.says = "failed" => c \notin acted
CallTells == \A c \in Calls : Tells(c)

(* Where the loop is when it connects, and once it has been cut off. *)
CutTells ==
  /\ loop = "connecting" => ws \notin up
  /\ closing # "no" => ~running
  /\ closing \in {"cutting", "closed"} =>
       loop = "ended" /\ listeners = {} /\ \A c \in Calls : future[c] # "open"
  /\ closing = "closed" => up = {}

LinkInv == LinkTyped /\ HonestOutcome /\ EntriesHaveCallers /\ OneReader /\ CallTells /\ CutTells

-----------------------------------------------------------------------------
LEMMA LinkInitSafe == LinkInit => LinkInv
BY LinkConstantsOK
DEF LinkInit, LinkInv, LinkTyped, HonestOutcome, EntriesHaveCallers, OneReader, CallTells, Tells,
    CutTells, Held, Ends, Says, Before, Awaited

(* A step of the connection leaves the calls and what they tell alone.     *)
LEMMA CallsStay ==
  ASSUME LinkInv, UNCHANGED <<callVars, wire, acted>>, answers' \subseteq answers
  PROVE  HonestOutcome' /\ EntriesHaveCallers' /\ CallTells'
BY DEF LinkInv, callVars, HonestOutcome, EntriesHaveCallers, CallTells, Tells

LEMMA ConnectionSteps ==
  ASSUME LinkInv,
         \/ Connected \/ Refused \/ LoopGoesOn
         \/ \E n \in 1 .. MaxConns : ListenerEnds(n) \/ Stumble(n) \/ Break(n)
         \/ StopLink \/ Disconnect
  PROVE  LinkInv'
<1>0. MaxConns \in Nat \ {0} /\ MaxRefusals \in Nat /\ MaxStumbles \in Nat
  BY LinkConstantsOK
<1>1. UNCHANGED <<callVars, wire, acted>> /\ answers' \subseteq answers
  BY DEF Connected, Refused, LoopGoesOn, ListenerEnds, Stumble, Break, StopLink, Disconnect, netVars
<1>2. HonestOutcome' /\ EntriesHaveCallers' /\ CallTells'
  BY <1>1, CallsStay
<1>3. LinkTyped' /\ OneReader' /\ CutTells'
  <2>1. CASE Connected
    BY <1>0, <2>1 DEF Connected, LinkInv, LinkTyped, OneReader, CutTells, callVars, netVars
  <2>2. CASE Refused
    BY <1>0, <2>2 DEF Refused, LinkInv, LinkTyped, OneReader, CutTells, callVars, netVars
  <2>3. CASE LoopGoesOn
    BY <1>0, <2>3 DEF LoopGoesOn, AtRest, LinkInv, LinkTyped, OneReader, CutTells, callVars, netVars
  <2>4. CASE \E n \in 1 .. MaxConns : ListenerEnds(n)
    BY <1>0, <2>4 DEF ListenerEnds, LinkInv, LinkTyped, OneReader, CutTells, callVars, netVars
  <2>5. CASE \E n \in 1 .. MaxConns : Stumble(n)
    BY <1>0, <2>5 DEF Stumble, LinkInv, LinkTyped, OneReader, CutTells, callVars, netVars
  <2>6. CASE \E n \in 1 .. MaxConns : Break(n)
    BY <1>0, <2>6 DEF Break, LinkInv, LinkTyped, OneReader, CutTells, callVars, netVars
  <2>7. CASE StopLink
    BY <1>0, <2>7 DEF StopLink, LinkInv, LinkTyped, OneReader, CutTells, callVars, netVars
  <2>8. CASE Disconnect
    BY <1>0, <2>8 DEF Disconnect, LinkInv, LinkTyped, OneReader, CutTells, callVars, netVars
  <2> QED
    BY <2>1, <2>2, <2>3, <2>4, <2>5, <2>6, <2>7, <2>8
<1> QED
  BY <1>2, <1>3 DEF LinkInv

(* The loop is cut off: what waits is woken, and told nothing. *)
LEMMA CutSteps ==
  ASSUME LinkInv, CutLink
  PROVE  LinkInv'
<1>1. /\ UNCHANGED <<running, ws, up, conns, faults, sendLock, call, on, netVars>>
      /\ closing' = "cutting" /\ loop' = "ended" /\ listeners' = {} /\ ~running
      /\ future' \in [Calls -> {"none", "open", "cancelled"} \cup Says]
      /\ \A c \in Calls : \/ future'[c] = future[c] /\ future[c] # "open"
                          \/ future[c] = "open" /\ future'[c] = "cancelled"
  BY DEF CutLink, CutOffCalls, LinkInv, LinkTyped, CutTells
<1>2. LinkTyped' /\ HonestOutcome' /\ OneReader' /\ CutTells'
  BY <1>1 DEF LinkInv, LinkTyped, HonestOutcome, OneReader, CutTells, netVars
<1>3. EntriesHaveCallers' /\ CallTells'
  BY <1>1 DEF LinkInv, EntriesHaveCallers, CallTells, Tells, netVars
<1> QED
  BY <1>2, <1>3 DEF LinkInv

-----------------------------------------------------------------------------
(* A call ends, and its request may have gone out with it. *)
LEMMA CallOver ==
  ASSUME LinkInv, NEW c \in Calls, NEW outcome \in Ends, Ended(c, outcome),
         call[c] \notin Ends, call[c] = "idle" => c \notin Sends,
         UNCHANGED <<connVars, answers, acted>>,
         wire' = wire \/ (call[c] = "sending" /\ wire' = wire \cup {c}),
         c \in Firm /\ outcome \in {"failed", "cancelled"} => c \notin wire' \cup acted,
         c \in Firm /\ outcome = "ok" => c \in acted
  PROVE  LinkInv'
<1>0. /\ call' = [call EXCEPT ![c] = outcome] /\ future' = [future EXCEPT ![c] = "none"]
      /\ sendLock' = IF sendLock = c THEN NoCall ELSE sendLock
      /\ on' = on
      /\ call \in [Calls -> {"idle", "queued"} \cup Held \cup Ends]
      /\ future \in [Calls -> {"none", "open", "cancelled"} \cup Says]
      /\ NoCall \notin Calls /\ Firm \subseteq Calls
  BY LinkConstantsOK DEF Ended, LinkInv, LinkTyped
<1>1. /\ call'[c] = outcome /\ future'[c] = "none"
      /\ \A d \in Calls : d # c => call'[d] = call[d] /\ future'[d] = future[d]
  BY <1>0
<1>2. LinkTyped'
  BY <1>0 DEF LinkInv, LinkTyped, connVars
<1>3. HonestOutcome'
  <2> SUFFICES ASSUME NEW d \in Firm
               PROVE  /\ call'[d] \in {"failed", "cancelled"} => d \notin wire' \cup acted'
                      /\ call'[d] = "ok" => d \in acted'
    BY DEF HonestOutcome
  <2>1. CASE d = c
    BY <1>1, <2>1
  <2>2. CASE d # c
    BY <1>0, <1>1, <2>2 DEF LinkInv, HonestOutcome
  <2> QED
    BY <2>1, <2>2
<1>4. EntriesHaveCallers'
  <2> SUFFICES ASSUME NEW d \in Calls
               PROVE  /\ future'[d] # "none" <=> call'[d] \in Awaited
                      /\ d \in Sends /\ call'[d] \in Held <=> sendLock' = d
    BY DEF EntriesHaveCallers
  <2>1. CASE d = c
    BY <1>0, <1>1, <2>1 DEF Ends, Awaited, Held
  <2>2. CASE d # c
    BY <1>0, <1>1, <2>2 DEF LinkInv, EntriesHaveCallers
  <2> QED
    BY <2>1, <2>2
<1>5. CallTells'
  <2> SUFFICES ASSUME NEW d \in Calls PROVE Tells(d)'
    BY DEF CallTells
  <2>0. Tells(d)
    BY DEF LinkInv, CallTells
  <2>1. CASE d = c
    BY <1>0, <1>1, <2>0, <2>1 DEF Tells, Before, Ends
  <2>2. CASE d # c
    BY <1>0, <1>1, <2>0, <2>2 DEF Tells
  <2> QED
    BY <2>1, <2>2
<1>6. OneReader' /\ CutTells'
  BY <1>0, <1>1 DEF LinkInv, OneReader, CutTells, connVars
<1> QED
  BY <1>2, <1>3, <1>4, <1>5, <1>6 DEF LinkInv

LEMMA EndingSteps ==
  ASSUME LinkInv, NEW c \in Calls,
         TurnedAway(c) \/ WriteBreaks(c) \/ Answered(c) \/ TimeOut(c) \/ Abandon(c)
  PROVE  LinkInv'
<1>0. /\ call \in [Calls -> {"idle", "queued"} \cup Held \cup Ends]
      /\ future \in [Calls -> {"none", "open", "cancelled"} \cup Says]
      /\ Tells(c) /\ (future[c] # "none" <=> call[c] \in Awaited)
  BY DEF LinkInv, LinkTyped, CallTells, EntriesHaveCallers
<1>u. /\ Unknown(c, "failed") \in Ends /\ Unknown(c, "cancelled") \in Ends
      /\ \A plain \in {"ok", "failed", "cancelled"} : c \in Firm => Unknown(c, plain) = "uncertain"
  BY DEF Unknown, Ends
<1>1. CASE TurnedAway(c)
  <2>1. /\ Ended(c, "failed") /\ UNCHANGED <<connVars, netVars>>
        /\ call[c] = IF c \in Sends THEN "pacing" ELSE "idle"
    BY <1>1 DEF TurnedAway, Ready
  <2>2. call[c] \notin Ends /\ c \notin wire \cup acted
    BY <1>0, <2>1 DEF Tells, Before, Ends
  <2> QED
    BY <2>1, <2>2, CallOver DEF Ends, netVars
<1>2. CASE WriteBreaks(c)
  BY <1>u, <1>2, CallOver DEF WriteBreaks, Ends
<1>3. CASE Answered(c)
  <2>1. /\ call[c] = "waiting" /\ future[c] \in Says \cup {"cancelled"}
        /\ Ended(c, Told(c)) /\ UNCHANGED <<connVars, netVars>>
    BY <1>0, <1>3 DEF Answered, Awaited
  <2>2. /\ Told(c) \in Ends
        /\ c \in Firm /\ Told(c) \in {"failed", "cancelled"} => future[c] = "failed"
        /\ c \in Firm /\ Told(c) = "ok" => future[c] = "ok"
    BY <1>u, <2>1 DEF Told, Unknown, Says, Ends
  <2>3. call[c] \notin Ends
    BY <2>1 DEF Ends
  <2> QED
    BY <1>0, <2>1, <2>2, <2>3, CallOver DEF Tells, netVars
<1>4. CASE TimeOut(c)
  BY <1>u, <1>4, CallOver DEF TimeOut, Ends, netVars
<1>5. CASE Abandon(c)
  <2>1. CASE call[c] \in {"queued", "pacing"}
    <3>1. Ended(c, "cancelled") /\ UNCHANGED <<connVars, netVars>>
      BY <1>5, <2>1 DEF Abandon
    <3>2. call[c] \notin Ends /\ c \notin wire \cup acted
      BY <1>0, <2>1 DEF Tells, Before, Ends
    <3> QED
      BY <2>1, <3>1, <3>2, CallOver DEF Ends, netVars
  <2>2. CASE call[c] \in {"waiting", "sending"}
    BY <1>u, <1>5, <2>2, CallOver DEF Abandon, Ends, netVars
  <2> QED
    BY <1>5, <2>1, <2>2 DEF Abandon
<1> QED
  BY <1>1, <1>2, <1>3, <1>4, <1>5

-----------------------------------------------------------------------------
(* A call on its way out. *)
LEMMA OutgoingSteps ==
  ASSUME LinkInv, NEW c \in Calls, AskToSend(c) \/ TakeSendLock(c) \/ Issue(c) \/ Write(c)
  PROVE  LinkInv'
<1>0. /\ call \in [Calls -> {"idle", "queued"} \cup Held \cup Ends]
      /\ future \in [Calls -> {"none", "open", "cancelled"} \cup Says]
      /\ on \in [Calls -> 0 .. conns] /\ ws \in 0 .. conns
      /\ NoCall \notin Calls /\ Sends \subseteq Calls /\ Firm \subseteq Calls
  BY LinkConstantsOK DEF LinkInv, LinkTyped
<1>1. /\ UNCHANGED <<connVars, answers, acted>>
      /\ call' = [call EXCEPT ![c] = call'[c]] /\ call[c] \in Before
      /\ call'[c] \in {"queued"} \cup Held
      /\ call'[c] \in Before \/ call'[c] = "waiting"
      /\ future' = [future EXCEPT ![c] = future'[c]]
      /\ future'[c] = future[c] \/ (future'[c] = "open" /\ running /\ call'[c] = "sending")
      /\ on' \in [Calls -> 0 .. conns]
      /\ wire' = wire \/ (wire' = wire \cup {c} /\ call'[c] = "waiting")
      /\ sendLock' \in {sendLock, c}
  BY <1>0 DEF AskToSend, TakeSendLock, Issue, Write, Ready, Online, connVars, netVars, Held, Before
<1>2. LinkTyped'
  BY <1>0, <1>1 DEF LinkInv, LinkTyped, connVars, Says
<1>3. HonestOutcome'
  BY <1>0, <1>1 DEF LinkInv, HonestOutcome, Held
<1>4. EntriesHaveCallers'
  <2> SUFFICES ASSUME NEW d \in Calls
               PROVE  /\ future'[d] # "none" <=> call'[d] \in Awaited
                      /\ d \in Sends /\ call'[d] \in Held <=> sendLock' = d
    BY DEF EntriesHaveCallers
  <2>0. /\ future[d] # "none" <=> call[d] \in Awaited
        /\ d \in Sends /\ call[d] \in Held <=> sendLock = d
        /\ future[c] # "none" <=> call[c] \in Awaited
        /\ c \in Sends /\ call[c] \in Held <=> sendLock = c
        /\ call[c] = "queued" => c \in Sends
    BY DEF LinkInv, EntriesHaveCallers, CallTells, Tells
  <2>1. CASE AskToSend(c)
    BY <1>0, <2>0, <2>1 DEF AskToSend, Held, Awaited
  <2>2. CASE TakeSendLock(c)
    BY <1>0, <2>0, <2>2 DEF TakeSendLock, Held, Awaited
  <2>3. CASE Issue(c)
    BY <1>0, <2>0, <2>3 DEF Issue, Ready, Held, Awaited
  <2>4. CASE Write(c)
    BY <1>0, <2>0, <2>4 DEF Write, Held, Awaited
  <2> QED
    BY <2>1, <2>2, <2>3, <2>4
<1>5. CallTells'
  <2> SUFFICES ASSUME NEW d \in Calls PROVE Tells(d)'
    BY DEF CallTells
  <2>0. Tells(d) /\ Tells(c) /\ (future[c] # "none" <=> call[c] \in Awaited)
    BY DEF LinkInv, CallTells, EntriesHaveCallers
  <2>1. CASE d # c
    BY <1>0, <1>1, <2>0, <2>1 DEF Tells
  <2>2. CASE d = c /\ call[c] # "sending"
    BY <1>0, <1>1, <2>0, <2>2
    DEF Tells, Before, Awaited, AskToSend, TakeSendLock, Issue, Write
  <2>3. CASE d = c /\ call[c] = "sending"
    BY <1>0, <1>1, <2>0, <2>3
    DEF Tells, Before, AskToSend, TakeSendLock, Issue, Write, Ready
  <2> QED
    BY <2>1, <2>2, <2>3
<1>6. OneReader' /\ CutTells'
  BY <1>0, <1>1 DEF LinkInv, OneReader, CutTells, connVars
<1> QED
  BY <1>2, <1>3, <1>4, <1>5, <1>6 DEF LinkInv

(* The platform carries a request out, or not, and its answer tells which. *)
LEMMA PlatformSteps ==
  ASSUME LinkInv, (\E c \in Calls, says \in Says : Carry(c, says)) \/ Lose
  PROVE  LinkInv'
<1>0. wire \subseteq Calls /\ acted \subseteq Calls /\ answers \subseteq [call : Calls, says : Says]
  BY DEF LinkInv, LinkTyped
<1>1. CASE \E c \in Calls, says \in Says : Carry(c, says)
  <2>1. PICK c \in Calls, says \in Says : Carry(c, says)
    BY <1>1
  <2>2. /\ c \in wire /\ wire' = wire \ {c} /\ UNCHANGED <<connVars, callVars>>
        /\ acted' = acted \/ acted' = acted \cup {c}
        /\ says = "ok" => c \in acted'
        /\ says = "failed" => acted' = acted
        /\ answers' = answers \/ answers' = answers \cup {[call |-> c, says |-> says]}
    BY <2>1 DEF Carry, Says
  <2>3. LinkTyped'
    BY <1>0, <2>2 DEF LinkInv, LinkTyped, connVars, callVars
  <2>4. HonestOutcome'
    BY <1>0, <2>2 DEF LinkInv, HonestOutcome, callVars
  <2>5. EntriesHaveCallers' /\ OneReader' /\ CutTells'
    BY <2>2 DEF LinkInv, EntriesHaveCallers, OneReader, CutTells, connVars, callVars
  <2>6. CallTells'
    <3> SUFFICES ASSUME NEW d \in Calls PROVE Tells(d)'
      BY DEF CallTells
    <3>1. Tells(d)
      BY DEF LinkInv, CallTells
    <3>2. CASE d # c
      BY <2>2, <3>1, <3>2 DEF Tells, callVars
    <3>3. CASE d = c
      <4>1. \A a \in answers : a.call # c
        BY <2>2, <3>1, <3>3 DEF Tells
      <4>2. call[c] \notin Before /\ future[c] # "failed"
        BY <2>2, <3>1, <3>3 DEF Tells
      <4>3. says = "failed" => c \notin acted'
        BY <2>2, <3>1, <3>3 DEF Tells
      <4> QED
        BY <2>2, <3>1, <3>3, <4>1, <4>2, <4>3 DEF Tells, callVars
    <3> QED
      BY <3>2, <3>3
  <2> QED
    BY <2>3, <2>4, <2>5, <2>6 DEF LinkInv
<1>2. CASE Lose
  <2>1. /\ wire' \subseteq wire /\ answers' \subseteq answers
        /\ UNCHANGED <<connVars, callVars, acted>>
    BY <1>2 DEF Lose
  <2>2. LinkTyped' /\ HonestOutcome' /\ EntriesHaveCallers' /\ OneReader' /\ CutTells'
    BY <2>1 DEF LinkInv, LinkTyped, HonestOutcome, EntriesHaveCallers, OneReader, CutTells,
                connVars, callVars
  <2>3. CallTells'
    BY <2>1 DEF LinkInv, CallTells, Tells, callVars
  <2> QED
    BY <2>2, <2>3 DEF LinkInv
<1> QED
  BY <1>1, <1>2

(* An answer meets its future, or nobody. *)
LEMMA ReceiveSteps ==
  ASSUME LinkInv, \E a \in answers : Receive(a)
  PROVE  LinkInv'
<1>1. PICK a \in answers : Receive(a)
  OBVIOUS
<1>0. /\ answers \subseteq [call : Calls, says : Says] /\ a.call \in Calls /\ a.says \in Says
      /\ future \in [Calls -> {"none", "open", "cancelled"} \cup Says]
      /\ listeners \subseteq 1 .. conns /\ conns \in 0 .. MaxConns
  BY DEF LinkInv, LinkTyped
<1>2. /\ UNCHANGED <<running, ws, up, conns, loop, faults, closing, sendLock, call, on, wire, acted>>
      /\ answers' \subseteq answers /\ listeners' \subseteq listeners
      /\ future' \in [Calls -> {"none", "open", "cancelled"} \cup Says]
      /\ \A d \in Calls : \/ future'[d] = future[d]
                          \/ d = a.call /\ future[d] = "open" /\ future'[d] = a.says
  BY <1>0, <1>1 DEF Receive
<1>3. LinkTyped' /\ HonestOutcome' /\ OneReader' /\ CutTells'
  BY <1>0, <1>2 DEF LinkInv, LinkTyped, HonestOutcome, OneReader, CutTells, Says
<1>4. EntriesHaveCallers'
  BY <1>0, <1>2 DEF LinkInv, EntriesHaveCallers, Says
<1>5. CallTells'
  <2> SUFFICES ASSUME NEW d \in Calls PROVE Tells(d)'
    BY DEF CallTells
  <2>0. Tells(d)
    BY DEF LinkInv, CallTells
  <2>1. CASE future'[d] = future[d]
    BY <1>2, <2>0, <2>1 DEF Tells
  <2>2. CASE d = a.call /\ future[d] = "open" /\ future'[d] = a.says
    <3>1. call[d] # "sending" /\ d \notin wire
      BY <2>0, <2>2 DEF Tells, Before
    <3> QED
      BY <1>0, <1>2, <2>0, <2>2, <3>1 DEF Tells, Before
  <2> QED
    BY <1>2, <2>1, <2>2
<1> QED
  BY <1>3, <1>4, <1>5 DEF LinkInv

-----------------------------------------------------------------------------
LEMMA LinkStepSafe == LinkInv /\ [LinkNext]_linkVars => LinkInv'
<1> SUFFICES ASSUME LinkInv, [LinkNext]_linkVars PROVE LinkInv'
  OBVIOUS
<1>1. CASE \/ Connected \/ Refused \/ LoopGoesOn
           \/ \E n \in 1 .. MaxConns : ListenerEnds(n) \/ Stumble(n) \/ Break(n)
           \/ StopLink \/ Disconnect
  BY <1>1, ConnectionSteps
<1>2. CASE \E c \in Calls : CallNext(c)
  <2>1. PICK c \in Calls : CallNext(c)
    BY <1>2
  <2>2. CASE AskToSend(c) \/ TakeSendLock(c) \/ Issue(c) \/ Write(c)
    BY <2>2, OutgoingSteps
  <2>3. CASE TurnedAway(c) \/ WriteBreaks(c) \/ Answered(c) \/ TimeOut(c) \/ Abandon(c)
    BY <2>3, EndingSteps
  <2>4. CASE \E says \in Says : Carry(c, says)
    BY <2>4, PlatformSteps
  <2> QED
    BY <2>1, <2>2, <2>3, <2>4 DEF CallNext
<1>3. CASE Lose
  BY <1>3, PlatformSteps
<1>4. CASE \E a \in answers : Receive(a)
  BY <1>4, ReceiveSteps
<1>5. CASE CutLink
  BY <1>5, CutSteps
<1>6. CASE UNCHANGED linkVars
  BY <1>6 DEF linkVars, LinkInv, LinkTyped, HonestOutcome, EntriesHaveCallers, OneReader,
              CallTells, Tells, CutTells
<1> QED
  BY <1>1, <1>2, <1>3, <1>4, <1>5, <1>6 DEF LinkNext

(* The adapter's calls are told nothing that is not so, wait only with an  *)
(* entry and hold the lock one at a time; one listener reads the one       *)
(* connection; nothing stirs after close().                                *)
THEOREM LinkKept == LinkSpec => []LinkSafety
<1>1. LinkInv => LinkSafety
  BY DEF LinkInv, LinkSafety, CutTells, ClosedIsQuiet
<1> QED
  BY <1>1, LinkInitSafe, LinkStepSafe, PTL DEF LinkSpec

=============================================================================
