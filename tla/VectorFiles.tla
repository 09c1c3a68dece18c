------------------------------ MODULE VectorFiles ------------------------------
(***************************************************************************)
(* How the embeddings of memory units are stored beside their text         *)
(* (memory/units/store.py): the JSON file lists the units and names one    *)
(* file of packed vectors; a unit says where in it its vector is and what  *)
(* text the vector was made from.  A save writes a new vector file,        *)
(* replaces the JSON file, and deletes the old vector file; its process    *)
(* may die between any two of these.  Two processes save: the worker,      *)
(* which keeps most units in memory without their vectors, and the web     *)
(* interface's rebuild of the embeddings.  The handlers of the web         *)
(* interface rewrite the JSON file alone, PUT twice, with the vector file  *)
(* it names when they come to write.  Nothing keeps the two processes      *)
(* apart.  A text is its unit and a version; a vector is the text it       *)
(* embeds.                                                                 *)
(***************************************************************************)
EXTENDS Naturals, Sequences, FiniteSets

CONSTANTS Facts,          \* the units of one group
          MaxVersion, MaxFiles, MaxDeaths, MaxChanges   \* bounds

ASSUME VectorAssumption == /\ IsFiniteSet(Facts) /\ MaxVersion \in Nat \ {0}
                           /\ MaxFiles \in Nat \ {0} /\ MaxDeaths \in Nat
                           /\ MaxChanges \in Nat

VARIABLES
  json,      \* memory_units/<group>.json: the items and vector_file
  bins,      \* memory_units/vectors: the existing files, each a sequence of vectors
  save,      \* what each saver is at: the units it has in memory, or its save
  draft,     \* the edit of the web interface in progress
  crossed,   \* whether an edit was ever written over a JSON file it had not read
  named,     \* file names used so far
  changes,   \* units changed so far, by the worker or the user
  deaths

vectorVars == <<json, bins, save, draft, crossed, named, changes, deaths>>

Savers == {"worker", "rebuild"}
NoFile == 0
NoVector == <<>>
NoSave == [at |-> "none"]
NoDraft == [at |-> "none"]
Text == Facts \X (1 .. MaxVersion)
Item(text, offset, print) == [text |-> text, offset |-> offset, print |-> print]
Bare(text) == Item(text, 0, NoVector)
Without(list, i) == [n \in 1 .. Len(list) - 1 |-> IF n < i THEN list[n] ELSE list[n + 1]]
UnitOf(item) == item.text[1]
Exists(name) == name \in DOMAIN bins

ChangesOnce == changes < MaxChanges /\ changes' = changes + 1

\* The group is new, or was saved before: some of its units, each with its vector.
SavedAs(order) ==
  [items |-> [i \in DOMAIN order |-> Item(<<order[i], 1>>, i, <<order[i], 1>>)],
   file |-> IF order = <<>> THEN NoFile ELSE 1]
VectorInit ==
  /\ \E n \in 0 .. Cardinality(Facts) : \E order \in [1 .. n -> Facts] :
       /\ \A i, k \in 1 .. n : order[i] = order[k] => i = k
       /\ json = SavedAs(order) /\ named = json.file
       /\ bins = [f \in 1 .. named |-> [i \in 1 .. n |-> <<order[i], 1>>]]
  /\ draft = NoDraft /\ crossed = FALSE
  /\ save = [s \in Savers |-> NoSave]
  /\ changes = 0 /\ deaths = 0

(***************************************************************************)
(* Reading.                                                                *)
(***************************************************************************)
\* A vector counts only for the text it was made from.
Printed(item, text) == item.print = text

\* _read_vector_bytes: what the item points at, if it is there.
Bytes(file, item) ==
  IF item.offset > 0 /\ file # NoFile /\ Exists(file) /\ item.offset <= Len(bins[file])
    THEN bins[file][item.offset] ELSE NoVector

\* _read_vector: what a reader of the unit gets.
VectorOf(file, item) == IF Printed(item, item.text) THEN Bytes(file, item) ELSE NoVector

(***************************************************************************)
(* What a saver has in memory: the texts, with a vector or without.        *)
(***************************************************************************)
Embedded(text, vector) == [text |-> text, vector |-> vector]
HasLoaded(s, units) == save' = [save EXCEPT ![s] = [at |-> "loaded", units |-> units]]
UnlessSaving(s) == save[s].at \in {"none", "loaded"}
NotYetSaved == UNCHANGED <<json, bins, draft, crossed, named, deaths>>

\* load, with the vectors, without, or hydrated for some units only.
LoadUnits ==
  /\ UnlessSaving("worker") /\ NotYetSaved /\ UNCHANGED changes
  /\ \E some \in SUBSET Facts :
       HasLoaded("worker", [i \in DOMAIN json.items |->
               Embedded(json.items[i].text,
                        IF UnitOf(json.items[i]) \in some
                          THEN VectorOf(json.file, json.items[i]) ELSE NoVector)])

\* A new unit; a merge rewrites one and clears its vector, or takes one away.
Changed(units) ==
  {Append(units, Embedded(<<f, 1>>, NoVector)) :
     f \in {g \in Facts : \A i \in DOMAIN units : units[i].text[1] # g}}
  \union {[units EXCEPT ![i] = Embedded(<<@.text[1], @.text[2] + 1>>, NoVector)] :
            i \in {j \in DOMAIN units : units[j].text[2] < MaxVersion}}
  \union {Without(units, i) : i \in DOMAIN units}

ChangeUnits ==
  /\ save["worker"].at = "loaded" /\ NotYetSaved /\ ChangesOnce
  /\ \E units \in Changed(save["worker"].units) : HasLoaded("worker", units)

\* indexer.add computes a missing vector from the text.
Embed ==
  /\ save["worker"].at = "loaded" /\ NotYetSaved /\ UNCHANGED changes
  /\ \E i \in DOMAIN save["worker"].units :
       HasLoaded("worker", [save["worker"].units EXCEPT ![i] = Embedded(@.text, @.text)])

\* rebuild_memory_unit_embeddings: everything is read, and ensure_model_current computes the
\* vectors anew, as far as the model answers.
RebuildLoads ==
  /\ UnlessSaving("rebuild") /\ json.items # <<>> /\ NotYetSaved /\ UNCHANGED changes
  /\ \E some \in SUBSET Facts :
       HasLoaded("rebuild", [i \in DOMAIN json.items |->
               Embedded(json.items[i].text,
                        IF UnitOf(json.items[i]) \in some THEN json.items[i].text
                          ELSE VectorOf(json.file, json.items[i]))])

(***************************************************************************)
(* Saving.                                                                 *)
(***************************************************************************)
\* _read_vector_index: the item the JSON file has for a unit.
Previous(f) ==
  LET is == {i \in DOMAIN json.items : UnitOf(json.items[i]) = f}
  IN IF is = {} THEN Bare(<<f, 1>>) ELSE json.items[CHOOSE i \in is : TRUE]

WrongCarried(text) == NoVector
\* The vector on disk is carried over, if it is of this very text.
Carried(text) ==
  IF Printed(Previous(text[1]), text) THEN Bytes(json.file, Previous(text[1])) ELSE NoVector

\* _serialize: the vector of each unit, from memory or carried over.
Packed(units) == [i \in DOMAIN units |-> IF units[i].vector # NoVector THEN units[i].vector
                                            ELSE Carried(units[i].text)]
\* The vectors are packed in the order of the units: the offset of one is how many are packed
\* when it is.
Offset(packed, i) == Cardinality({k \in 1 .. i : packed[k] # NoVector})
Blob(packed) ==
  [n \in 1 .. Offset(packed, Len(packed)) |->
     packed[CHOOSE i \in DOMAIN packed : packed[i] # NoVector /\ Offset(packed, i) = n]]

\* _write_payload, first the new vector file - the old one must open, or the save fails - ...
SaveVectors(s) ==
  /\ save[s].at = "loaded" /\ named < MaxFiles
  /\ json.file # NoFile => Exists(json.file)
  /\ LET units == save[s].units
         packed == Packed(units) IN
       /\ save' = [save EXCEPT ![s] =
                    [at |-> "written", seen |-> json,
                     new |-> IF Blob(packed) = <<>> THEN NoFile ELSE named + 1,
                     items |-> [i \in DOMAIN units |->
                                  IF packed[i] = NoVector THEN Bare(units[i].text)
                                    ELSE Item(units[i].text, Offset(packed, i), units[i].text)]]]
       /\ bins' = IF Blob(packed) = <<>> THEN bins
                    ELSE [n \in DOMAIN bins \union {named + 1} |->
                            IF n = named + 1 THEN Blob(packed) ELSE bins[n]]
  /\ named' = named + 1
  /\ UNCHANGED <<json, draft, crossed, changes, deaths>>

\* ... then the JSON file, the point of commitment ...
SaveItems(s) ==
  /\ save[s].at = "written"
  /\ json' = [items |-> save[s].items, file |-> save[s].new]
  /\ save' = [save EXCEPT ![s].at = "replaced"]
  /\ UNCHANGED <<bins, draft, crossed, named, changes, deaths>>

\* ... then the old vector file goes.
SaveDiscards(s) ==
  /\ save[s].at = "replaced"
  /\ bins' = [n \in DOMAIN bins \ {save[s].seen.file} |-> bins[n]]
  /\ save' = [save EXCEPT ![s] = NoSave]
  /\ UNCHANGED <<json, draft, crossed, named, changes, deaths>>

\* A process dies and starts again; what it had written stays.
Dies(s) ==
  /\ deaths < MaxDeaths
  /\ deaths' = deaths + 1
  /\ save' = [save EXCEPT ![s] = NoSave]
  /\ draft' = IF s = "rebuild" THEN NoDraft ELSE draft
  /\ UNCHANGED <<json, bins, crossed, named, changes>>

(***************************************************************************)
(* The handlers of the web interface: items are read, one is added,        *)
(* rewritten or removed, and the list is written back with the vector_file *)
(* the JSON file has by then.                                              *)
(***************************************************************************)
Draft(items, more) == [at |-> "open", seen |-> json, items |-> items, more |-> more,
                       name |-> NoFile, torn |-> FALSE]

\* POST adds a unit, DELETE removes one; PUT removes one first, whose text or other fields have
\* changed.
WebOpens ==
  /\ draft = NoDraft /\ ChangesOnce
  /\ \/ \E f \in Facts : /\ \A i \in DOMAIN json.items : UnitOf(json.items[i]) # f
                         /\ draft' = Draft(Append(json.items, Bare(<<f, 1>>)), <<>>)
     \/ \E i \in DOMAIN json.items :
          \/ draft' = Draft(Without(json.items, i), <<>>)
          \/ \E v \in {json.items[i].text[2], json.items[i].text[2] + 1} :
               /\ v <= MaxVersion
               /\ draft' = Draft(Without(json.items, i),
                                 <<[json.items[i] EXCEPT !.text = <<@[1], v>>]>>)
  /\ UNCHANGED <<json, bins, save, crossed, named, deaths>>

\* _save_memory_units_file asks again which vector file there is ...
WebNames ==
  /\ draft.at = "open"
  /\ draft' = [draft EXCEPT !.at = "named", !.name = json.file]
  /\ UNCHANGED <<json, bins, save, crossed, named, changes, deaths>>

\* The edit is of the JSON file as it is.
InTime == draft.seen = json /\ draft.name = json.file /\ ~draft.torn

\* ... and replaces the JSON file.
WebSaves ==
  /\ draft.at = "named"
  /\ json' = [items |-> draft.items, file |-> draft.name]
  /\ crossed' = (crossed \/ ~InTime)
  /\ draft' = IF draft.more = <<>> THEN NoDraft ELSE [draft EXCEPT !.at = "half"]
  /\ UNCHANGED <<bins, save, named, changes, deaths>>

Others(items, f) == IF \A i \in DOMAIN items : UnitOf(items[i]) # f THEN items
                      ELSE Without(items, CHOOSE i \in DOMAIN items : UnitOf(items[i]) = f)

\* PUT reads the items again and appends the unit, which still says where its vector was in the
\* file first read.
WebReopens ==
  /\ draft.at = "half"
  /\ LET f == UnitOf(draft.more[1])
         items == Append(Others(json.items, f), draft.more[1]) IN
     draft' = [Draft(items, <<>>) EXCEPT !.torn = \/ draft.seen.file # json.file
                                                  \/ \E i \in DOMAIN json.items :
                                                       UnitOf(json.items[i]) = f]
  /\ UNCHANGED <<json, bins, save, crossed, named, changes, deaths>>

VectorNext ==
  \/ LoadUnits \/ ChangeUnits \/ Embed \/ RebuildLoads
  \/ \E s \in Savers : SaveVectors(s) \/ SaveItems(s) \/ SaveDiscards(s) \/ Dies(s)
  \/ WebOpens \/ WebNames \/ WebSaves \/ WebReopens

VectorSpec == VectorInit /\ [][VectorNext]_vectorVars

(***************************************************************************)
(* What must hold.                                                         *)
(***************************************************************************)
VectorTyped ==
  /\ \A i \in DOMAIN json.items : /\ json.items[i].text \in Text
                                  /\ json.items[i].offset > 0 <=> json.items[i].print # NoVector
  /\ \A i, j \in DOMAIN json.items : UnitOf(json.items[i]) = UnitOf(json.items[j]) => i = j
  /\ \A n \in DOMAIN bins : n \in 1 .. named /\ bins[n] # <<>>
  /\ json.file \in 0 .. named /\ named \in 0 .. MaxFiles /\ deaths \in 0 .. MaxDeaths

\* Whichever saves meet and wherever one is cut off, a summary is never read with the vector of
\* another text. (_write_payload: "no combination in which summary and vector do not match".)
NeverMispaired ==
  \A i \in DOMAIN json.items : VectorOf(json.file, json.items[i]) \in {NoVector, json.items[i].text}

\* The JSON file never names a vector file that is not there.
NamedFileIsThere == json.file # NoFile => Exists(json.file)

\* The two files fit each other at every moment at which a process may die or another one read,
\* until an edit of the web interface is written over a JSON file it had not read.
VectorSafety == VectorTyped /\ (~crossed => NeverMispaired /\ NamedFileIsThere)

\* A save of a JSON file that has changed since the save began.
Overtakes == \E s \in Savers : /\ save[s].at = "written" /\ save'[s].at = "replaced"
                               /\ save[s].seen # json

\* Every other write of the JSON file, by a save or an edit, keeps the vector of each unit whose
\* text it keeps, although the worker holds most units without one. (_serialize: "one checkpoint
\* would empty the vectors of the group".)
VectorsOutliveSaves ==
  [][~crossed' /\ ~Overtakes =>
       \A i \in DOMAIN json.items, j \in DOMAIN json'.items :
         /\ json.items[i].text = json'.items[j].text
         /\ VectorOf(json.file, json.items[i]) # NoVector
         => VectorOf(json.file, json.items[j])' # NoVector]_vectorVars
=============================================================================
