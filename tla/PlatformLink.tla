---------------------------- MODULE PlatformLink ----------------------------
(***************************************************************************)
(* The NapCat adapter's connection and the calls that go over it           *)
(* (platforms/onebot_v11/napcat/adapter.py): connect and close, the        *)
(* reconnect loop, the listener of each connection, and call_api, whose    *)
(* caller waits for the answer that carries its echo.  A connection may    *)
(* break at any time, requests and answers may be lost, an answer may come *)
(* when nobody waits for it any more, a caller may be cancelled.           *)
(*                                                                         *)
(* What the platform does with a request is outside the repository.  Time  *)
(* is left out: a pause may end, and an answer be late, at any moment.     *)
(***************************************************************************)
EXTENDS Naturals

CONSTANTS
  Calls,       (* calls of call_api, each made once: its echo is its own   *)
  Sends,       (* those that send a message, one at a time                 *)
  Firm,        (* irreversible, within a proactive or delayed delivery     *)
  NoCall,
  MaxConns,    (* bound: connections made; the last one does not break     *)
  MaxRefusals, (* bound: attempts to connect that fail                     *)
  MaxStumbles  (* bound: frames whose handling ends the listener           *)

ASSUME LinkConstantsOK ==
  /\ Sends \subseteq Calls /\ Firm \subseteq Calls /\ NoCall \notin Calls
  /\ MaxConns \in Nat \ {0} /\ MaxRefusals \in Nat /\ MaxStumbles \in Nat

VARIABLES
  running,   (* _running                                                   *)
  ws,        (* the connection in self.ws, 0 for None                      *)
  up,        (* connections that have not been closed                      *)
  conns,     (* connections made so far                                    *)
  loop,      (* where _reconnect_loop is                                   *)
  listeners, (* connections that a _listen_loop reads                      *)
  faults,    (* refusals and stumbles so far                               *)
  sendLock,  (* the holder of _api_send_lock                               *)
  call,      (* where each call is                                         *)
  on,        (* the connection it went to                                  *)
  future,    (* its entry in _pending                                      *)
  wire,      (* requests under way                                         *)
  answers,   (* answers under way                                          *)
  acted,     (* history: calls the platform has carried out                *)
  closing    (* close()                                                    *)

linkVars == <<running, ws, up, conns, loop, listeners, faults, sendLock, call, on, future,
              wire, answers, acted, closing>>
connVars == <<running, ws, up, conns, loop, listeners, faults, closing>>
callVars == <<sendLock, call, on, future>>
netVars == <<wire, answers, acted>>

Says == {"ok", "async", "failed"}   (* status of an answer *)
Ends == {"ok", "failed", "uncertain", "cancelled"}
Held == {"pacing", "sending", "waiting"}
Awaited == {"sending", "waiting"}

LinkInit ==
  /\ running = TRUE /\ ws = 0 /\ up = {} /\ conns = 0 /\ loop = "connecting" /\ listeners = {}
  /\ faults = [refusals |-> 0, stumbles |-> 0] /\ closing = "no"
  /\ sendLock = NoCall /\ call = [c \in Calls |-> "idle"] /\ on = [c \in Calls |-> 0]
  /\ future = [c \in Calls |-> "none"] /\ wire = {} /\ answers = {} /\ acted = {}

-----------------------------------------------------------------------------
(* The connection: _reconnect_loop, _connect_once, _listen_loop.             *)

Connected ==
  /\ loop = "connecting" /\ conns < MaxConns
  /\ conns' = conns + 1 /\ ws' = conns + 1 /\ up' = up \cup {conns + 1}
  /\ listeners' = listeners \cup {conns + 1} /\ loop' = "listening"
  /\ UNCHANGED <<running, faults, closing, callVars, netVars>>

Refused ==
  /\ loop = "connecting" /\ faults.refusals < MaxRefusals
  /\ faults' = [faults EXCEPT !.refusals = @ + 1] /\ loop' = "resting"
  /\ UNCHANGED <<running, ws, up, conns, listeners, closing, callVars, netVars>>

AtRest == loop = "resting" \/ (loop = "listening" /\ listeners = {})

(* Back at the head of the loop; with a connection that is open it pauses  *)
(* again.                                                                  *)
LoopGoesOn ==
  /\ AtRest /\ (~running \/ ws \notin up)
  /\ loop' = IF running THEN "connecting" ELSE "ended"
  /\ UNCHANGED <<running, ws, up, conns, listeners, faults, closing, callVars, netVars>>

ListenerEnds(n) ==
  /\ n \in listeners /\ n \notin up /\ listeners' = listeners \ {n}
  /\ UNCHANGED <<running, ws, up, conns, loop, faults, closing, callVars, netVars>>

(* A frame whose handling raises: the listener logs it and is gone, the    *)
(* connection stays open.                                                  *)
Stumble(n) ==
  /\ n \in listeners \cap up /\ faults.stumbles < MaxStumbles
  /\ faults' = [faults EXCEPT !.stumbles = @ + 1] /\ listeners' = listeners \ {n}
  /\ UNCHANGED <<running, ws, up, conns, loop, closing, callVars, netVars>>

(* The environment: a connection breaks, with the answers on it. *)
Break(n) ==
  /\ n \in up /\ n < MaxConns
  /\ up' = up \ {n} /\ answers' = {a \in answers : on[a.call] # n}
  /\ UNCHANGED <<running, ws, conns, loop, listeners, faults, closing, callVars, wire, acted>>

-----------------------------------------------------------------------------
(* A call: call_api and _call_api_inner.                                     *)

(* However it ends: the entry is taken out, the lock given back. *)
Ended(c, outcome) ==
  /\ call' = [call EXCEPT ![c] = outcome] /\ future' = [future EXCEPT ![c] = "none"]
  /\ sendLock' = IF sendLock = c THEN NoCall ELSE sendLock
  /\ UNCHANGED on

WrongUnknown(c, plain) == plain

(* What a call is told whose request is out and whose answer is not in. *)
Unknown(c, plain) == IF c \in Firm THEN "uncertain" ELSE plain

AskToSend(c) ==
  /\ c \in Sends /\ call[c] = "idle" /\ call' = [call EXCEPT ![c] = "queued"]
  /\ UNCHANGED <<sendLock, on, future, connVars, netVars>>

(* The lock; then the pause that is due to the chat. *)
TakeSendLock(c) ==
  /\ call[c] = "queued" /\ sendLock = NoCall
  /\ sendLock' = c /\ call' = [call EXCEPT ![c] = "pacing"]
  /\ UNCHANGED <<on, future, connVars, netVars>>

Ready(c) == call[c] = IF c \in Sends THEN "pacing" ELSE "idle"
Online == running /\ ws \in up

Issue(c) ==
  /\ Ready(c) /\ Online
  /\ call' = [call EXCEPT ![c] = "sending"] /\ future' = [future EXCEPT ![c] = "open"]
  /\ on' = [on EXCEPT ![c] = ws]
  /\ UNCHANGED <<sendLock, connVars, netVars>>

(* Not connected, or the delivery's lease has run out: delivery_start.     *)
TurnedAway(c) ==
  /\ Ready(c) /\ (~Online \/ c \in Firm)
  /\ Ended(c, "failed") /\ UNCHANGED <<connVars, netVars>>

Write(c) ==
  /\ call[c] = "sending" /\ on[c] \in up
  /\ call' = [call EXCEPT ![c] = "waiting"] /\ wire' = wire \cup {c}
  /\ UNCHANGED <<sendLock, on, future, connVars, answers, acted>>

(* The connection breaks under ws.send: what was written may have arrived. *)
WriteBreaks(c) ==
  /\ call[c] = "sending" /\ on[c] \notin up
  /\ Ended(c, Unknown(c, "failed")) /\ wire' \in {wire, wire \cup {c}}
  /\ UNCHANGED <<connVars, answers, acted>>

(* A firm call trusts only an answer that is final. *)
Told(c) ==
  CASE future[c] = "async" -> Unknown(c, "ok")
    [] future[c] = "cancelled" -> Unknown(c, "cancelled")
    [] OTHER -> future[c]

Answered(c) ==
  /\ call[c] = "waiting" /\ future[c] # "open"
  /\ Ended(c, Told(c)) /\ UNCHANGED <<connVars, netVars>>

TimeOut(c) ==
  /\ call[c] = "waiting" /\ future[c] = "open"
  /\ Ended(c, Unknown(c, "failed")) /\ UNCHANGED <<connVars, netVars>>

(* The caller is cancelled: a rebind, a tool's time-out. *)
Abandon(c) ==
  \/ /\ call[c] \in {"queued", "pacing"}
     /\ Ended(c, "cancelled") /\ UNCHANGED <<connVars, netVars>>
  \/ /\ call[c] = "waiting"
     /\ Ended(c, Unknown(c, "cancelled")) /\ UNCHANGED <<connVars, netVars>>
  \/ /\ call[c] = "sending"
     /\ Ended(c, Unknown(c, "cancelled")) /\ wire' \in {wire, wire \cup {c}}
     /\ UNCHANGED <<connVars, answers, acted>>

-----------------------------------------------------------------------------
(* The platform, and the way to it and back. *)

Carry(c, says) ==
  /\ c \in wire /\ wire' = wire \ {c}
  /\ acted' \in CASE says = "ok" -> {acted \cup {c}}
                  [] says = "failed" -> {acted}
                  [] OTHER -> {acted, acted \cup {c}}
  /\ answers' = IF on[c] \in up THEN answers \cup {[call |-> c, says |-> says]} ELSE answers
  /\ UNCHANGED <<connVars, callVars>>

Lose ==
  /\ \/ \E c \in wire : wire' = wire \ {c} /\ UNCHANGED answers
     \/ \E a \in answers : answers' = answers \ {a} /\ UNCHANGED wire
  /\ UNCHANGED <<connVars, callVars, acted>>

(* _dispatch: the answer meets its future, if one waits; else it passes as *)
(* an event that no handler takes.  A listener that finds the adapter      *)
(* stopped reads no further.                                               *)
Receive(a) ==
  /\ a \in answers /\ on[a.call] \in listeners /\ answers' = answers \ {a}
  /\ IF running
     THEN /\ future' = [future EXCEPT ![a.call] = IF @ = "open" THEN a.says ELSE @]
          /\ UNCHANGED listeners
     ELSE listeners' = listeners \ {on[a.call]} /\ UNCHANGED future
  /\ UNCHANGED <<running, ws, up, conns, loop, faults, closing, sendLock, call, on, wire, acted>>

-----------------------------------------------------------------------------
(* close(). *)

(* stop_handling: no call starts any more while the handlers are drained.  *)
StopLink ==
  /\ closing = "no" /\ running' = FALSE /\ closing' = "draining"
  /\ UNCHANGED <<ws, up, conns, loop, listeners, faults, callVars, netVars>>

(* Futures are cancelled, and the loop with the listener it waits for. *)
CutOffCalls ==
  /\ future' = [c \in Calls |-> IF future[c] = "open" THEN "cancelled" ELSE future[c]]
  /\ loop' = "ended" /\ listeners' = {}

CutLink ==
  /\ closing = "draining" /\ closing' = "cutting" /\ CutOffCalls
  /\ UNCHANGED <<running, ws, up, conns, faults, sendLock, call, on, netVars>>

Disconnect ==
  /\ closing = "cutting" /\ closing' = "closed"
  /\ ws' = 0 /\ up' = up \ {ws} /\ answers' = {a \in answers : on[a.call] # ws}
  /\ UNCHANGED <<running, conns, loop, listeners, faults, callVars, wire, acted>>

-----------------------------------------------------------------------------
CallNext(c) ==
  \/ AskToSend(c) \/ TakeSendLock(c) \/ Issue(c) \/ TurnedAway(c) \/ Write(c) \/ WriteBreaks(c)
  \/ Answered(c) \/ TimeOut(c) \/ Abandon(c) \/ \E says \in Says : Carry(c, says)

LinkNext ==
  \/ Connected \/ Refused \/ LoopGoesOn
  \/ \E n \in 1 .. MaxConns : ListenerEnds(n) \/ Stumble(n) \/ Break(n)
  \/ \E c \in Calls : CallNext(c)
  \/ Lose \/ \E a \in answers : Receive(a)
  \/ StopLink \/ CutLink \/ Disconnect

LinkSpec == LinkInit /\ [][LinkNext]_linkVars

(* The event loop runs every task that can go on; waits are bounded by the *)
(* time-out, pauses by the back-off; close() goes through.                 *)
LinkFair ==
  /\ WF_linkVars(Connected) /\ WF_linkVars(LoopGoesOn)
  /\ \A n \in 1 .. MaxConns : WF_linkVars(ListenerEnds(n))
  /\ \A c \in Calls :
       /\ WF_linkVars(TakeSendLock(c)) /\ WF_linkVars(Issue(c) \/ TurnedAway(c))
       /\ WF_linkVars(Write(c) \/ WriteBreaks(c)) /\ WF_linkVars(Answered(c) \/ TimeOut(c))
  /\ WF_linkVars(CutLink) /\ WF_linkVars(Disconnect)

-----------------------------------------------------------------------------
LinkTyped ==
  /\ running \in BOOLEAN /\ conns \in 0 .. MaxConns /\ ws \in 0 .. conns
  /\ up \subseteq 1 .. conns /\ listeners \subseteq 1 .. conns
  /\ loop \in {"connecting", "listening", "resting", "ended"}
  /\ faults \in [refusals : 0 .. MaxRefusals, stumbles : 0 .. MaxStumbles]
  /\ sendLock \in Calls \cup {NoCall}
  /\ call \in [Calls -> {"idle", "queued"} \cup Held \cup Ends] /\ on \in [Calls -> 0 .. conns]
  /\ future \in [Calls -> {"none", "open", "cancelled"} \cup Says]
  /\ wire \subseteq Calls /\ acted \subseteq Calls /\ answers \subseteq [call : Calls, says : Says]
  /\ closing \in {"no", "draining", "cutting", "closed"}

(* A firm call that fails or is cancelled has not been carried out and     *)
(* never will be; one that succeeds has been: only then may its caller     *)
(* send the part again, or count it as sent.                               *)
HonestOutcome ==
  \A c \in Firm : /\ call[c] \in {"failed", "cancelled"} => c \notin wire \cup acted
                  /\ call[c] = "ok" => c \in acted

(* An entry of _pending has a caller that waits for it, and a caller that  *)
(* waits has an entry; messages go out one at a time.                      *)
EntriesHaveCallers ==
  \A c \in Calls : /\ future[c] # "none" <=> call[c] \in Awaited
                   /\ c \in Sends /\ call[c] \in Held <=> sendLock = c

(* One connection and one listener, on the connection that calls use. *)
OneReader == up \subseteq {ws} /\ listeners \subseteq {ws} /\ (loop # "listening" => listeners = {})

(* After close() nothing connects, listens or waits for an answer. *)
ClosedIsQuiet ==
  closing = "closed" =>
    /\ loop = "ended" /\ listeners = {} /\ up = {}
    /\ \A c \in Calls : future[c] # "open"

(* What the calls' outcomes, the waiting callers, the listener and close() *)
(* owe one another (adapter.py:631-787, 849-888, 921-995).                 *)
LinkSafety == LinkTyped /\ HonestOutcome /\ EntriesHaveCallers /\ OneReader /\ ClosedIsQuiet

(* Refuted by TLC when a frame ends the listener of a connection that      *)
(* stays open: the loop finds it open and pauses for ever, while the       *)
(* program takes itself to be online (adapter.py:737: the loop is there so *)
(* that the adapter is never silently offline).                            *)
HeardAgain == running /\ conns > 0 /\ listeners = {} ~> listeners # {} \/ ~running

=============================================================================
