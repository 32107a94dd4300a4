---------------------------- MODULE ArticleIndex ----------------------------
(***************************************************************************)
(* ArticleStoreIndex::build of src/lib.rs: the directory is walked in the  *)
(* order read_dir happens to give, and a later file with the same number   *)
(* or message-id overwrites an earlier one.                                *)
(***************************************************************************)
EXTENDS Selectors, TLC

CONSTANT Disks   \* the directories the server may be started on

VARIABLES
  disk, left,                  \* the directory, and the paths still to read
  groups, byNumber, byId,      \* the maps under construction
  built, index                 \* whether build returned, and what

vars == <<disk, left, groups, byNumber, byId, built, index>>

Init ==
  /\ disk \in Disks /\ left = Indexable(disk)
  /\ groups = <<>> /\ byNumber = <<>> /\ byId = <<>>
  /\ built = FALSE /\ index = EmptyIndex

(* BTreeMap::insert and HashMap::insert: the last value wins.              *)
Insert(map, key, value) == (key :> value) @@ map

(* groups.entry(name).or_default(), the push and the maximum.              *)
Builder(map, name) == IF name \in DOMAIN map THEN map[name] ELSE [numbers |-> <<>>, active |-> 0]

Last_PushNumber(builder, f) == [numbers |-> Append(builder.numbers, f.num), active |-> f.date]

PushNumber(builder, f) ==
  [numbers |-> Append(builder.numbers, f.num),
   active  |-> IF f.date > builder.active THEN f.date ELSE builder.active]

(* The key of articles_by_number: the number in the file, not in its path. *)
EntryNumber(f) == f.num

(* One turn of the loop on a file that parses and has a number.            *)
ReadArticle(f) ==
  /\ f \in left /\ f.num # 0
  /\ left' = left \ {f}
  /\ byId' = Insert(byId, f.id, f.num)
  /\ byNumber' = Insert(byNumber, EntryNumber(f), Entry(f))
  /\ groups' = [g \in f.groups |-> PushNumber(Builder(groups, g), f)] @@ groups
  /\ UNCHANGED <<disk, built, index>>

(* The two continues: a file that does not parse or has no number.         *)
SkipArticle(f) ==
  /\ f \in left /\ f.num = 0
  /\ left' = left \ {f}
  /\ UNCHANGED <<disk, groups, byNumber, byId, built, index>>

(* sort_unstable and dedup leave each number once, in order.               *)
Sorted(builder) == [numbers |-> {builder.numbers[i] : i \in DOMAIN builder.numbers}, active |-> builder.active]

Finish ==
  /\ left = {} /\ ~built /\ built' = TRUE
  /\ index' = [groups |-> [g \in DOMAIN groups |-> Sorted(groups[g])], byNumber |-> byNumber, byId |-> byId]
  /\ UNCHANGED <<disk, left, groups, byNumber, byId>>

Next == (\E f \in left : ReadArticle(f) \/ SkipArticle(f)) \/ Finish

Spec == Init /\ [][Next]_vars

-----------------------------------------------------------------------------
Distinct(files) == \A f, g \in files : (f.num = g.num \/ f.id = g.id) => f = g

(* The index of a directory whose articles have their own numbers and      *)
(* message-ids does not depend on the order read_dir gives them in: it     *)
(* lists each article in each of its groups, and message-id and number     *)
(* lead to the same entry.                                                 *)
OrderFree == (built /\ Distinct(Numbered(Indexable(disk)))) => index = IndexOf(disk)

(* Whatever duplicates the directory holds, no map of the index points at  *)
(* nothing: each number of a group and of a message-id has an entry, so    *)
(* the lookups that LAST, NEXT and OVER take as certain succeed.           *)
NoDanglingNumber ==
  built => /\ \A g \in DOMAIN index.groups : index.groups[g].numbers \subseteq DOMAIN index.byNumber
           /\ \A i \in DOMAIN index.byId : index.byId[i] \in DOMAIN index.byNumber
=============================================================================
