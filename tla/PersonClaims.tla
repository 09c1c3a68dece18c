----------------------------- MODULE PersonClaims -----------------------------
(***************************************************************************)
(* What is said about a person and who let it stand: the claims, changes   *)
(* and revisions of people/service.py.  Every call is one transaction; it  *)
(* names the message it rests on and, if it likes, the revision it read.   *)
(* A call whose revision is out of date is rolled back as a whole.         *)
(***************************************************************************)
EXTENDS Naturals, FiniteSets

CONSTANTS
  Persons,
  Actors,       \* who writes messages: persons, and others
  Fields,
  Evidence,     \* messages an account is bound to
  AuthorOf,     \* get_evidence(...).actor_id
  Admin,        \* evidence presented with is_admin
  Controllers,  \* person_controllers, pairs of a person and an actor
  MaxClaims,    \* bound: rows of person_claims
  MaxRevision   \* bound: writes to one person

ASSUME ClaimConstantsOK ==
  /\ AuthorOf \in [Evidence -> Actors]
  /\ Admin \subseteq Evidence /\ Controllers \subseteq Persons \X Actors
  /\ MaxClaims \in Nat /\ MaxRevision \in Nat

VARIABLES
  claim,     \* person_claims; a row not inserted yet is NoClaim
  change,    \* person_changes
  revision,  \* people.revision
  lastClaim  \* the newest row

claimsVars == <<claim, change, revision, lastClaim>>

Claims == 1..MaxClaims
Sources == {"self_reported", "third_party", "inferred", "platform"}
ChangeActions == {"propose_claim", "correct_claim", "retire_claim"}

NoClaim == [person |-> "none", field |-> "none", source |-> "none",
            status |-> "none", replaces |-> 0]

ClaimRow(p, f, source, status, replaces) ==
  [person |-> p, field |-> f, source |-> source, status |-> status, replaces |-> replaces]

ClaimRows == [person : Persons, field : Fields, source : Sources,
         status : {"pending", "active", "superseded"}, replaces : 0..MaxClaims]

(* A change's idem_key is what it rests on, whom it is about and what it    *)
(* asks: the field and source of a new claim, or the claim to be changed.   *)
ChangeKey(e, p, action, what) == [by |-> e, person |-> p, action |-> action, what |-> what]
AlreadyAsked(k) == \E ch \in change : ch.key = k

(* How often a person has been written to, as the trail tells it. *)
Writes(p) ==
  LET Of == {ch \in change : ch.key.person = p}
  IN  Cardinality(Of) + Cardinality({ch \in Of : ch.confirmedBy # {}})

ClaimsInit ==
  /\ claim = [c \in Claims |-> NoClaim] /\ lastClaim = 0
  /\ change = {} /\ revision = [p \in Persons |-> 1]

-----------------------------------------------------------------------------
(* Who may do what. *)

IsController(p, actor) == <<p, actor>> \in Controllers
Maintains(e, p) == AuthorOf[e] = p \/ IsController(p, AuthorOf[e])

WrongRequireWrite(e, p) == TRUE
RequireWrite(e, p) == e \in Admin \/ Maintains(e, p)

(* Only an importer may claim a platform's word; whoever does not maintain *)
(* the person speaks as a third party, whatever is said.                   *)
SourceOf(e, p, said) ==
  IF ~Maintains(e, p) THEN "third_party"
  ELSE IF said = "platform" /\ e \notin Admin THEN "self_reported" ELSE said

NeedsConsent(source) == source \in {"third_party", "inferred"}

-----------------------------------------------------------------------------
(* The writes.  expected is a revision read earlier, or 0 for none. *)

BumpRevision(p, expected) ==
  /\ expected \in {0, revision[p]} /\ revision[p] < MaxRevision
  /\ revision' = [revision EXCEPT ![p] = @ + 1]

(* What the person says now takes the place of what the person said before. *)
Superseding(p, f) ==
  [c \in Claims |->
     IF /\ claim[c].person = p /\ claim[c].field = f
        /\ claim[c].status = "active" /\ claim[c].source = "self_reported"
     THEN [claim[c] EXCEPT !.status = "superseded"] ELSE claim[c]]

Supersede(c) == [claim EXCEPT ![c].status = "superseded"]

InsertClaim(rows, row) == [rows EXCEPT ![lastClaim + 1] = row]

RecordChange(k, c, status) ==
  change' = change \cup {[key |-> k, claim |-> c, status |-> status, confirmedBy |-> {}]}

ProposeClaim(e, p, f, said, expected) ==
  LET source == SourceOf(e, p, said)
      waits == NeedsConsent(source)
      k == ChangeKey(e, p, "propose_claim", <<f, source>>)
  IN  /\ ~AlreadyAsked(k) /\ lastClaim < MaxClaims
      /\ claim' = InsertClaim(IF source = "self_reported" THEN Superseding(p, f) ELSE claim,
                         ClaimRow(p, f, source, IF waits THEN "pending" ELSE "active", 0))
      /\ lastClaim' = lastClaim + 1
      /\ BumpRevision(p, expected)
      /\ RecordChange(k, lastClaim + 1, IF waits THEN "pending" ELSE "applied")

(* Whoever maintains the person changes a claim at once, unless it is the  *)
(* platform's; anybody else only proposes the change.                      *)
DirectChange(e, c) == Maintains(e, claim[c].person) /\ claim[c].source # "platform"

Corrected(rows, c) ==
  InsertClaim(rows, ClaimRow(claim[c].person, claim[c].field, "self_reported", "active", c))

ChangeClaim(e, c, action, expected) ==
  LET p == claim[c].person
      status == IF DirectChange(e, c) THEN "applied" ELSE "pending"
      k == ChangeKey(e, p, action, <<c, status>>)
      corrects == DirectChange(e, c) /\ action = "correct_claim"
  IN  /\ claim[c] # NoClaim /\ ~AlreadyAsked(k)
      /\ corrects => lastClaim < MaxClaims
      /\ claim' = IF ~DirectChange(e, c) THEN claim
                  ELSE IF corrects THEN Corrected(Supersede(c), c) ELSE Supersede(c)
      /\ lastClaim' = IF corrects THEN lastClaim + 1 ELSE lastClaim
      /\ BumpRevision(p, expected)
      /\ RecordChange(k, c, status)

WrongActivated(rows, c) == [rows EXCEPT ![c].status = "active"]

(* UPDATE ... SET status='active' WHERE claim_id=? AND status='pending' *)
Activated(rows, c) == [rows EXCEPT ![c].status = IF @ = "pending" THEN "active" ELSE @]

Confirmed(e, ch) ==
  LET c == ch.claim
      p == ch.key.person
      ownWord == claim[c].source = "third_party" /\ AuthorOf[e] = p
  IN  CASE ch.key.action = "propose_claim" ->
             Activated(IF ownWord THEN Superseding(p, claim[c].field) ELSE claim, c)
        [] ch.key.action = "correct_claim" -> Corrected(Supersede(c), c)
        [] OTHER -> Supersede(c)

ConfirmRevision(p, expected) == BumpRevision(p, expected)

ConfirmChange(e, ch, expected) ==
  /\ ch \in change /\ ch.status = "pending"
  /\ RequireWrite(e, ch.key.person)
  /\ ch.key.action = "correct_claim" => lastClaim < MaxClaims
  /\ claim' = Confirmed(e, ch)
  /\ lastClaim' = IF ch.key.action = "correct_claim" THEN lastClaim + 1 ELSE lastClaim
  /\ change' = (change \ {ch}) \cup {[ch EXCEPT !.status = "applied", !.confirmedBy = {e}]}
  /\ ConfirmRevision(ch.key.person, expected)

Expectations(p) == {0, revision[p] - 1, revision[p]}

ClaimsNext ==
  \E e \in Evidence :
    \/ \E p \in Persons, f \in Fields, said \in Sources :
         \E expected \in Expectations(p) : ProposeClaim(e, p, f, said, expected)
    \/ \E c \in 1..lastClaim, action \in ChangeActions \ {"propose_claim"} :
         \E expected \in Expectations(claim[c].person) : ChangeClaim(e, c, action, expected)
    \/ \E ch \in change :
         \E expected \in Expectations(ch.key.person) : ConfirmChange(e, ch, expected)

ClaimsSpec == ClaimsInit /\ [][ClaimsNext]_claimsVars

-----------------------------------------------------------------------------
(* Properties. *)

(* ClaimRows have the shape of their table. *)
ClaimsTyped ==
  /\ lastClaim \in 0..MaxClaims
  /\ \A c \in Claims : IF c <= lastClaim THEN claim[c] \in ClaimRows ELSE claim[c] = NoClaim
  /\ revision \in [Persons -> Nat \ {0}]
  /\ \A ch \in change :
       /\ ch.confirmedBy \subseteq Evidence /\ ch.key.by \in Evidence /\ ch.key.person \in Persons /\ ch.key.action \in ChangeActions
       /\ ch.claim \in 1..lastClaim /\ ch.status \in {"pending", "applied"}

(* propose_claim: what a third party says of a person, or the persona       *)
(* infers, stands only once that person, or who answers for them, has       *)
(* confirmed it; no correction, retirement or repeated call lets it slip in. *)
StandsByConsent ==
  \A c \in 1..lastClaim :
    claim[c].source \in {"third_party", "inferred"} /\ claim[c].status = "active" =>
      \E ch \in change :
        /\ ch.claim = c /\ ch.key.action = "propose_claim"
        /\ \E e \in ch.confirmedBy :
             e \in Admin \/ <<claim[c].person, AuthorOf[e]>> \in Controllers
             \/ AuthorOf[e] = claim[c].person

(* A claim that was corrected or retired never stands again, although a     *)
(* proposal for it may still be waiting to be confirmed.                    *)
RetiredForGood ==
  [][\A c \in 1..lastClaim :
       claim[c].status = "superseded" => claim'[c] = claim[c]]_claimsVars

(* A correction follows the claim it takes the place of, and both never     *)
(* stand together.                                                          *)
CorrectionReplaces ==
  \A c \in 1..lastClaim :
    LET old == claim[c].replaces
    IN  old # 0 => old < c /\ claim[old].status = "superseded"
                   /\ claim[old].person = claim[c].person

(* The revision a writer compares with tells every write there has been:    *)
(* nothing is recorded or confirmed without the next reader noticing.       *)
RevisionTellsAll == \A p \in Persons : revision[p] = 1 + Writes(p)

(* However proposals, confirmations and corrections are ordered, what       *)
(* stands was consented to, what it replaces has stepped back, and whoever  *)
(* read before notices.                                                     *)
ClaimSafety == ClaimsTyped /\ StandsByConsent /\ CorrectionReplaces /\ RevisionTellsAll
=============================================================================
