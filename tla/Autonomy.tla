------------------------------- MODULE Autonomy -------------------------------
(***************************************************************************)
(* What a persona does of her own accord: the intentions she carries       *)
(* (core/intent.py), the tools that write them, the heartbeat that picks   *)
(* one (tools/builtin/autonomy.py), and the way her words take to a chat   *)
(* (core/helpers.py, REMINDER_TRIGGERED in the NapCat adapter).            *)
(*                                                                         *)
(* intentions.json has no lock: everybody loads it, changes the copy and   *)
(* saves the copy.  A message has an id made of the intention's id and the *)
(* chat; the dispatcher's ledger keeps what became of it.                  *)
(***************************************************************************)
EXTENDS Naturals, Sequences

CONSTANTS
  Wishes,       \* intention ids
  Chats,
  NoChat,
  MaxAttempts,  \* _MAX_ATTEMPTS
  BusLimit,     \* room for events on their way to the adapter
  MaxHours      \* bound: free-time intervals that pass

ASSUME AutonomyConstantsOK ==
  NoChat \notin Chats /\ {MaxAttempts, BusLimit, MaxHours} \subseteq Nat

VARIABLES
  wish,    \* intentions.json
  beat,    \* run_tick: where it is and the copy it holds
  pen,     \* a tool's thread: the copy it holds between load and save
  free,    \* last_free_time_at: is the interval over, how many were, what was offered
  calm,    \* the share cooldown is over and it is not night
  post,    \* events at the adapter, the first may be in the middle of sending
  ledger,  \* the dispatcher's row of each message
  said,    \* how often the words were seen in the chat
  formed   \* ids given out

autoVars == <<wish, beat, pen, free, calm, post, ledger, said, formed>>

Messages == Wishes \X Chats
Unformed == [status |-> "none", tell |-> FALSE, to |-> NoChat, attempts |-> 0, shared |-> FALSE]
WishRecord == [status : {"none", "open", "resolved"}, tell : BOOLEAN, to : Chats \cup {NoChat},
               attempts : 0..MaxAttempts, shared : BOOLEAN]
Blank == [w \in Wishes |-> Unformed]
Asleep == [at |-> "rest", copy |-> Blank, about |-> {}, answer |-> "none"]

AutoInit ==
  /\ wish = Blank /\ beat = Asleep /\ pen = {} /\ calm = TRUE
  /\ free = [due |-> FALSE, passed |-> 0, offered |-> 0]
  /\ post = <<>> /\ ledger = [m \in Messages |-> "none"] /\ said = [m \in Messages |-> 0]
  /\ formed = {}

-----------------------------------------------------------------------------
(* intend_pursue, intend_share and interaction_with_master at night form a   *)
(* new wish; intend_share also chooses the audience of one that was not      *)
(* shared yet (attach_audience).                                             *)

FormWish(w, tell, to) ==
  /\ pen = {} /\ w \notin formed /\ (to # NoChat => tell)
  /\ pen' = {[wish EXCEPT ![w] = [Unformed EXCEPT !.status = "open", !.tell = tell, !.to = to]]}
  /\ formed' = formed \cup {w}
  /\ UNCHANGED <<wish, beat, free, calm, post, ledger, said>>

AttachAudience(w, to) ==
  /\ pen = {} /\ wish[w] # Unformed /\ ~wish[w].shared
  /\ pen' = {[wish EXCEPT ![w].to = to]}
  /\ UNCHANGED <<wish, beat, free, calm, post, ledger, said, formed>>

ToolSaves ==
  /\ \E copy \in pen : wish' = copy
  /\ pen' = {} /\ UNCHANGED <<beat, free, calm, post, ledger, said, formed>>

-----------------------------------------------------------------------------
(* run_tick.  Urgency, restlessness and novelty decide whether anything is   *)
(* done and what comes first: any wish may be the one, or none.              *)

BeatLoads ==
  /\ beat.at = "rest" /\ beat' = [Asleep EXCEPT !.at = "loaded", !.copy = wish]
  /\ UNCHANGED <<wish, pen, free, calm, post, ledger, said, formed>>

(* pending_shares: a status, or three vain attempts, do not matter here.     *)
Pending(copy) == {w \in Wishes : copy[w].tell /\ ~copy[w].shared /\ copy[w].to # NoChat}

(* _deliver_share up to the receipt: emit() refuses when there is no room    *)
(* or nobody listens.                                                        *)
BeatShares(w) ==
  /\ beat.at = "loaded" /\ calm /\ w \in Pending(beat.copy)
  /\ \/ /\ Len(post) < BusLimit
        /\ post' = Append(post, [msg |-> <<w, beat.copy[w].to>>, at |-> "queued", awaited |-> TRUE])
        /\ beat' = [beat EXCEPT !.at = "delivering", !.about = {w}]
     \/ beat' = [beat EXCEPT !.at = "unshared"] /\ UNCHANGED post
  /\ UNCHANGED <<wish, pen, free, calm, ledger, said, formed>>

(* wait_for(receipt, 5 s): the event stays where it is.                      *)
BeatGivesUp ==
  /\ beat.at = "delivering" /\ beat.answer = "none"
  /\ beat' = [beat EXCEPT !.at = "unshared"]
  /\ post' = [i \in DOMAIN post |-> [post[i] EXCEPT !.awaited = FALSE]]
  /\ UNCHANGED <<wish, pen, free, calm, ledger, said, formed>>

BeatRefused ==
  /\ beat.at = "delivering" /\ beat.answer = "no"
  /\ beat' = [beat EXCEPT !.at = "unshared"]
  /\ UNCHANGED <<wish, pen, free, calm, post, ledger, said, formed>>

(* _record_share reads the file again before it marks the wish.              *)
MarkShared(file, w) ==
  IF file[w] = Unformed THEN file
  ELSE [file EXCEPT ![w].shared = TRUE, ![w].status = "resolved"]

BeatRecordsShare ==
  /\ beat.at = "delivering" /\ beat.answer = "yes"
  /\ \E w \in beat.about : wish' = MarkShared(wish, w)
  /\ beat' = Asleep /\ calm' = FALSE
  /\ UNCHANGED <<pen, free, post, ledger, said, formed>>

(* open_items, without those that already know whom to tell.                 *)
Actionable(copy) ==
  {w \in Wishes : /\ copy[w].status = "open" /\ copy[w].attempts < MaxAttempts
                  /\ ~(copy[w].tell /\ copy[w].to # NoChat)}

MayThink == beat.at = "unshared" \/ (beat.at = "loaded" /\ (~calm \/ Pending(beat.copy) = {}))

(* The attempt is on file before the model turn begins.                      *)
BeatThinks(w) ==
  /\ MayThink /\ w \in Actionable(beat.copy)
  /\ wish' = [beat.copy EXCEPT ![w].attempts = @ + 1]
  /\ beat' = [Asleep EXCEPT !.at = "thinking", !.about = {w}]
  /\ UNCHANGED <<pen, free, calm, post, ledger, said, formed>>

(* The file is read again; a tell is finished only by being told.            *)
AfterThought(w) ==
  IF wish[w].tell \/ wish[w] = Unformed THEN wish ELSE [wish EXCEPT ![w].status = "resolved"]

BeatThought ==
  /\ beat.at = "thinking"
  /\ \/ \E w \in beat.about : wish' = AfterThought(w)
     \/ UNCHANGED wish                       \* declined, or the turn failed
  /\ beat' = Asleep /\ UNCHANGED <<pen, free, calm, post, ledger, said, formed>>

Spent == [free EXCEPT !.due = FALSE]

(* _run_free_time: the chance is spent, on file, before the turn begins.     *)
BeatRoams ==
  /\ MayThink /\ free.due
  /\ free' = [Spent EXCEPT !.offered = @ + 1]
  /\ beat' = [Asleep EXCEPT !.at = "roaming"]
  /\ UNCHANGED <<wish, pen, calm, post, ledger, said, formed>>

BeatRoamed ==
  /\ beat.at = "roaming"
  /\ beat' = Asleep
  /\ \/ free' = [free EXCEPT !.due = FALSE]   \* an episode: the clock starts again
     \/ UNCHANGED free                        \* nothing, or the turn failed
  /\ UNCHANGED <<wish, pen, calm, post, ledger, said, formed>>

BeatRests ==
  /\ MayThink /\ beat' = Asleep
  /\ UNCHANGED <<wish, pen, free, calm, post, ledger, said, formed>>

-----------------------------------------------------------------------------
(* The adapter spawns a task for each event, and the tasks may run beside    *)
(* each other.  Those of one message are brought into an order by event_lock *)
(* and admit(), and the heartbeat awaits one at a time: here they go one     *)
(* after the other.  An adapter without a dispatcher is left out.            *)

Tell(answer) ==
  beat' = IF Head(post).awaited THEN [beat EXCEPT !.answer = answer] ELSE beat

Admitted(m) == ledger[m] = "none"

WrongWasSent(m) == ledger[m] # "none"
WasSent(m) == ledger[m] = "sent"

(* admit() does not grant: sent before, lost track of, or in another's hand. *)
AdapterDeclines ==
  /\ post # <<>> /\ Head(post).at = "queued" /\ ~Admitted(Head(post).msg)
  /\ Tell(IF WasSent(Head(post).msg) THEN "yes" ELSE "no")
  /\ post' = Tail(post) /\ UNCHANGED <<wish, pen, free, calm, ledger, said, formed>>

(* Granted, but nothing leaves: not connected, the fence has fallen.         *)
AdapterFails ==
  /\ post # <<>> /\ Head(post).at = "queued" /\ Admitted(Head(post).msg)
  /\ Tell("no") /\ post' = Tail(post) /\ UNCHANGED <<wish, pen, free, calm, ledger, said, formed>>

(* start_delivery just before the WebSocket's send.                          *)
AdapterSends ==
  /\ post # <<>> /\ Head(post).at = "queued" /\ Admitted(Head(post).msg)
  /\ ledger' = [ledger EXCEPT ![Head(post).msg] = "open"]
  /\ post' = [post EXCEPT ![1].at = "sending"]
  /\ \E seen \in {0, 1} : said' = [said EXCEPT ![Head(post).msg] = @ + seen]
  /\ UNCHANGED <<wish, beat, pen, free, calm, formed>>

(* dispatcher.finish: a refusal leaves the id free, a lost answer does not.  *)
Verdict(outcome) ==
  CASE outcome = "ok" -> "sent" [] outcome = "failed" -> "none" [] OTHER -> "uncertain"

PlatformAnswers(outcome) ==
  /\ post # <<>> /\ Head(post).at = "sending"
  /\ outcome = "ok" => said[Head(post).msg] > 0
  /\ outcome = "failed" => said[Head(post).msg] = 0
  /\ ledger' = [ledger EXCEPT ![Head(post).msg] = Verdict(outcome)]
  /\ Tell(IF outcome = "ok" THEN "yes" ELSE "no")
  /\ post' = Tail(post) /\ UNCHANGED <<wish, pen, free, calm, said, formed>>

-----------------------------------------------------------------------------
(* Time and the process. *)

IntervalPasses ==
  /\ ~free.due /\ free.passed < MaxHours
  /\ free' = [free EXCEPT !.due = TRUE, !.passed = @ + 1]
  /\ UNCHANGED <<wish, beat, pen, calm, post, ledger, said, formed>>

NightAndDay == calm' = ~calm /\ UNCHANGED <<wish, beat, pen, free, post, ledger, said, formed>>

(* A dead process' lease: what was being sent is not known.                  *)
SendingLapses(m) ==
  /\ ledger[m] = "open" /\ \A i \in DOMAIN post : post[i].at = "sending" => post[i].msg # m
  /\ ledger' = [ledger EXCEPT ![m] = "uncertain"]
  /\ UNCHANGED <<wish, beat, pen, free, calm, post, said, formed>>

AutoCrash ==
  /\ beat' = Asleep /\ pen' = {} /\ post' = <<>>
  /\ UNCHANGED <<wish, free, calm, ledger, said, formed>>

AutoNext ==
  \/ \E w \in Wishes, to \in Chats \cup {NoChat} :
       \/ \E tell \in BOOLEAN : FormWish(w, tell, to)
       \/ to # NoChat /\ AttachAudience(w, to)
  \/ ToolSaves \/ BeatLoads \/ BeatGivesUp \/ BeatRefused \/ BeatRecordsShare
  \/ \E w \in Wishes : BeatShares(w) \/ BeatThinks(w)
  \/ BeatThought \/ BeatRoams \/ BeatRoamed \/ BeatRests
  \/ AdapterDeclines \/ AdapterFails \/ AdapterSends
  \/ \E outcome \in {"ok", "failed", "lost"} : PlatformAnswers(outcome)
  \/ IntervalPasses \/ NightAndDay \/ AutoCrash
  \/ \E m \in Messages : SendingLapses(m)

AutoSpec == AutoInit /\ [][AutoNext]_autoVars

-----------------------------------------------------------------------------
(* Properties. *)

(* The file and the state have their shape. *)
AutoTyped ==
  /\ wish \in [Wishes -> WishRecord] /\ pen \subseteq [Wishes -> WishRecord]
  /\ beat.copy \in [Wishes -> WishRecord] /\ beat.about \subseteq Wishes
  /\ Len(post) <= BusLimit
  /\ ledger \in [Messages -> {"none", "open", "sent", "uncertain"}]

(* "so she does not say it again": whatever is retried after a time-out, a  *)
(* lost answer, a crash, or because a stale copy forgot that it was shared, *)
(* a chat sees the words of one intention at most once.                     *)
NeverSaidTwice == \A m \in Messages : said[m] <= 1

(* An intention counts as shared only if its words were seen somewhere.     *)
SharedWasSaid == \A w \in Wishes : wish[w].shared => \E c \in Chats : said[<<w, c>>] > 0

(* Free time is offered at most once in an interval, also when the turn     *)
(* fails or the process dies in the middle of it.                           *)
FreeTimePaced == free.offered <= free.passed

(* Copies that are saved stale, late receipts and crashes never make her    *)
(* repeat herself, count as told what nobody saw, or take time she has had. *)
IntentSafety == AutoTyped /\ NeverSaidTwice /\ SharedWasSaid /\ FreeTimePaced

(* core/intent.py says an intention "survives across ticks".  One that is   *)
(* formed while the heartbeat waits for a delivery does not: the copy that  *)
(* was loaded before the delivery is saved after it.                        *)
WishSurvives ==
  [][\A w \in Wishes :
       beat.at \in {"delivering", "unshared"} /\ wish[w] # Unformed
       => wish'[w] # Unformed]_autoVars
=============================================================================
