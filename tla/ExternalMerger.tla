--------------------------- MODULE ExternalMerger ---------------------------
(***************************************************************************)
(* ExternalMerger of the bundled pyspark: values are combined by key in    *)
(* memory; whenever the memory read is above a limit the dicts are spilled *)
(* to disk by hash of the key; items() then merges one partition of the    *)
(* files after the other, and partitions those again that do not fit.      *)
(* How much memory is used is not under the program's control, so every    *)
(* check of it may go either way.  The combiner of a key is the list of    *)
(* its values, which tells lost, repeated and reordered values apart.      *)
(***************************************************************************)
EXTENDS Integers, SequencesExt

CONSTANTS
  Keys,
  Inputs,               \* the sequences of <<key, value>> that may be merged
  Partitions,           \* self.partitions (59 in the code)
  MAX_TOTAL_PARTITIONS  \* 4096 in the code

Parts == 0..(Partitions - 1)
Hashes == [Keys -> Parts]   \* self._partition; randomized per merger by _seed
Empty == <<>>               \* {} and [], a function with an empty domain

ASSUME ExternalMergerAssumption ==
  /\ Partitions \in Nat \ {0}
  /\ MAX_TOTAL_PARTITIONS \in Nat
  /\ \A s \in Inputs : s \in Seq(ToSet(s)) /\ \A i \in 1..Len(s) : s[i][1] \in Keys

VARIABLES
  items,    \* what is merged
  pos,      \* how many of the items have been
  pc,       \* "merging", "items", "yielding", "done", "closed" once it was iterated,
            \* or "unread"
  mergers,  \* the merger, and those created recursively for one of its partitions
  files,    \* the spill files, by <<directory, spill, partition>>
  yielded   \* the dicts handed out, one per partition

vars == <<items, pos, pc, mergers, files, yielded>>

(* index and next: the partition being merged and the first of its files   *)
(* still to be read.  fill: _recursive_merged_items is reading the files   *)
(* of the merger below.                                                    *)
NewMerger(hash, scale, pdata, fill) ==
  [data |-> Empty, pdata |-> pdata, spills |-> 0, hash |-> hash, scale |-> scale,
   index |-> 0, next |-> 0, fill |-> fill]

NoDicts == [i \in Parts |-> Empty]

Init ==
  /\ items \in Inputs
  /\ pos = 0
  /\ pc = "merging"
  /\ \E hash \in Hashes : mergers = <<NewMerger(hash, 1, Empty, FALSE)>>
  /\ files = Empty
  /\ yielded = <<>>

Top == mergers[Len(mergers)]
SetTop(m) == [mergers EXCEPT ![Len(mergers)] = m]

(* The directory of the n-th merger: parts/index below the one before it.  *)
Dir(n) == [i \in 1..(n - 1) |-> mergers[i].index]
File(n, spill, part) == files[<<Dir(n), spill, part>>]

Value(d, k) == IF k \in DOMAIN d THEN d[k] ELSE <<>>
MergeDicts(d, e) == [k \in DOMAIN d \union DOMAIN e |-> Value(d, k) \o Value(e, k)]

(* mergeCombiners without a limit, into pdata if there is one.             *)
MergeInto(m, d) ==
  IF m.pdata = Empty
  THEN [m EXCEPT !.data = MergeDicts(@, d)]
  ELSE [m EXCEPT !.pdata = [i \in Parts |->
          MergeDicts(@[i], [k \in {k \in DOMAIN d : m.hash[k] = i} |-> d[k]])]]

(***************************************************************************)
(* _spill: data the first time, pdata from then on.                        *)
(***************************************************************************)
Spilled(m) == [m EXCEPT !.data = Empty, !.pdata = NoDicts, !.spills = @ + 1]

Dumped(m, i) ==
  IF m.pdata = Empty THEN [k \in {k \in DOMAIN m.data : m.hash[k] = i} |-> m.data[k]]
                     ELSE m.pdata[i]

FilesWith(m) ==
  LET new == {<<Dir(Len(mergers)), m.spills, i>> : i \in Parts}
  IN  [f \in DOMAIN files \union new |-> IF f \in new THEN Dumped(m, f[3]) ELSE files[f]]

Spill(m) == mergers' = SetTop(Spilled(m)) /\ files' = FilesWith(m)
Keep(m) == mergers' = SetTop(m) /\ UNCHANGED files

(* A file is only spilled when the memory read says so.                    *)
PerhapsSpill(m) == Keep(m) \/ Spill(m)

(***************************************************************************)
(* mergeValues and items.                                                  *)
(***************************************************************************)
MergeValue ==
  /\ pc = "merging"
  /\ pos < Len(items)
  /\ LET kv == items[pos + 1] IN PerhapsSpill(MergeInto(Top, [k \in {kv[1]} |-> <<kv[2]>>]))
  /\ pos' = pos + 1
  /\ UNCHANGED <<items, pc, yielded>>

EndMerge ==
  /\ pc = "merging"
  /\ pos = Len(items)
  /\ PerhapsSpill(Top)
  /\ pc' = "items"
  /\ UNCHANGED <<items, pos, yielded>>

ItemsInMemory ==
  /\ pc = "items"
  /\ Top.pdata = Empty /\ Top.spills = 0
  /\ yielded' = <<Top.data>>
  /\ pc' = "done"
  /\ UNCHANGED <<items, pos, mergers, files>>

(* The first statements of _external_items.                                *)
StartExternal ==
  LET m == [Top EXCEPT !.next = 0, !.fill = FALSE]
  IN  IF \E i \in DOMAIN m.pdata : m.pdata[i] # Empty
      THEN mergers' = SetTop([Spilled(m) EXCEPT !.pdata = Empty]) /\ files' = FilesWith(m)
      ELSE Keep([m EXCEPT !.pdata = Empty])

ItemsExternal ==
  /\ pc = "items"
  /\ Top.pdata # Empty \/ Top.spills > 0
  /\ StartExternal
  /\ pc' = "yielding"
  /\ UNCHANGED <<items, pos, yielded>>

(***************************************************************************)
(* _external_items, _merged_items and _recursive_merged_items.             *)
(***************************************************************************)
Loading == pc = "yielding" /\ ~Top.fill /\ Top.index < Partitions

(* Mutant: the recursive merger is given this merger's scale.              *)
RepartitionSameScale(m) ==
  \E hash \in Hashes :
    mergers' = Append(SetTop([m EXCEPT !.data = Empty]),
                      NewMerger(hash, m.scale, NoDicts, TRUE))

(* The files of the partition will be read again, by a new merger.         *)
Repartition(m) ==
  \E hash \in Hashes :
    mergers' = Append(SetTop([m EXCEPT !.data = Empty]),
                      NewMerger(hash, m.scale * Partitions, NoDicts, TRUE))

LoadFile ==
  /\ Loading
  /\ Top.next < Top.spills
  /\ LET m == MergeInto([Top EXCEPT !.next = @ + 1], File(Len(mergers), Top.next, Top.index))
     IN  \/ mergers' = SetTop(m)
         \/ /\ Top.scale * Partitions < MAX_TOTAL_PARTITIONS
            /\ Top.next < Top.spills - 1
            /\ Repartition(m)
  /\ UNCHANGED <<items, pos, pc, files, yielded>>

(* After the last item of a partition: clear data, remove its files.       *)
NextPartition(m) == [m EXCEPT !.data = Empty, !.index = @ + 1, !.next = 0]
FilesLeft(n) ==
  [f \in {f \in DOMAIN files : f[1] # Dir(n) \/ f[3] # mergers[n].index} |-> files[f]]

YieldPartition ==
  /\ Loading
  /\ Top.next = Top.spills
  /\ yielded' = Append(yielded, Top.data)
  /\ mergers' = SetTop(NextPartition(Top))
  /\ files' = FilesLeft(Len(mergers))
  /\ UNCHANGED <<items, pos, pc>>

(* Mutant: the loop over the files stops one short.                        *)
FillShort ==
  /\ pc = "yielding" /\ Top.fill
  /\ LET n == Len(mergers) - 1 IN
       IF Top.next < mergers[n].spills - 1
       THEN PerhapsSpill(MergeInto([Top EXCEPT !.next = @ + 1],
                                   File(n, Top.next, mergers[n].index)))
       ELSE StartExternal
  /\ UNCHANGED <<items, pos, pc, yielded>>

Fill ==
  /\ pc = "yielding" /\ Top.fill
  /\ LET n == Len(mergers) - 1 IN
       IF Top.next < mergers[n].spills
       THEN PerhapsSpill(MergeInto([Top EXCEPT !.next = @ + 1],
                                   File(n, Top.next, mergers[n].index)))
       ELSE StartExternal
  /\ UNCHANGED <<items, pos, pc, yielded>>

(* A merger is through: _cleanup removes its directory, and the merger     *)
(* below, which yielded its items, goes on to the next partition.          *)
Finish ==
  LET n == Len(mergers) - 1 IN
  /\ pc = "yielding" /\ ~Top.fill /\ Top.index = Partitions
  /\ IF n = 0
     THEN /\ pc' = "done"
          /\ files' = Empty
          /\ UNCHANGED mergers
     ELSE /\ mergers' = [Front(mergers) EXCEPT ![n] = NextPartition(@)]
          /\ files' = LET below == {f \in DOMAIN files : IsPrefix(Dir(n + 1), f[1])}
                          kept  == DOMAIN FilesLeft(n) \ below
                      IN  [f \in kept |-> files[f]]
          /\ UNCHANGED pc
  /\ UNCHANGED <<items, pos, yielded>>

(* Mutant: _cleanup after the loop, and not in a finally clause.           *)
CloseKept ==
  /\ pc = "yielding"
  /\ pc' = "closed"
  /\ UNCHANGED <<items, pos, mergers, files, yielded>>

(* The consumer drops the iterator at one of the items of a partition, or  *)
(* reading, merging or spilling raises on the way to one: the finally      *)
(* clauses of all the generators run.                                      *)
Close ==
  /\ pc = "yielding"
  /\ pc' = "closed"
  /\ files' = Empty
  /\ UNCHANGED <<items, pos, mergers, yielded>>

(* An item raises while it is merged, or the consumer drops the iterator   *)
(* before its first item: the generator has not entered its try statement, *)
(* and the files that mergeValues spilled stay.                            *)
Abandon ==
  /\ pc \in {"merging", "items"}
  /\ pc' = "unread"
  /\ UNCHANGED <<items, pos, mergers, files, yielded>>

Next == MergeValue \/ EndMerge \/ ItemsInMemory \/ ItemsExternal
          \/ LoadFile \/ YieldPartition \/ Fill \/ Finish \/ Close \/ Abandon

Spec == Init /\ [][Next]_vars

-----------------------------------------------------------------------------
(* s is the list of all the values of k, in the order they came in.        *)
AllValues(s, k) ==
  LET positions == {i \in 1..Len(items) : items[i][1] = k}
  IN  \E at \in [1..Len(s) -> positions] :
        /\ \A i, j \in 1..Len(s) : i < j => at[i] < at[j]
        /\ \A p \in positions : \E i \in 1..Len(s) : at[i] = p
        /\ \A i \in 1..Len(s) : s[i] = items[at[i]][2]

(* Whatever the memory reads and however often a partition is split again, *)
(* a key is handed out once and complete, with all of its values in the    *)
(* order they came in, and when the iterator is exhausted every key was.   *)
HandedOutOnceComplete ==
  /\ \A i \in 1..Len(yielded) : \A k \in DOMAIN yielded[i] : AllValues(yielded[i][k], k)
  /\ \A i, j \in 1..Len(yielded) : i # j => DOMAIN yielded[i] \intersect DOMAIN yielded[j] = {}
  /\ pc = "done" => UNION {DOMAIN yielded[i] : i \in 1..Len(yielded)}
                      = {items[i][1] : i \in 1..Len(items)}

(* No spill file is left once the iterator is exhausted, and none once it  *)
(* is given up after it was begun: dropped at an item, or ended by an      *)
(* error, at any depth of the recursion.  One that is dropped before its   *)
(* first item leaves the files of mergeValues, as does an item that raises *)
(* while it is merged.                                                     *)
DiskClean == pc \in {"done", "closed"} => files = Empty

(* Splitting a partition again comes to an end: a merger at depth d has    *)
(* Partitions ^ d times fewer keys, and that factor stays below the limit. *)
RecursionBounded ==
  Len(mergers) > 1 => Partitions ^ (Len(mergers) - 1) < MAX_TOTAL_PARTITIONS
=============================================================================
