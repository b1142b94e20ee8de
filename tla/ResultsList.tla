---------------------------- MODULE ResultsList -----------------------------
(***************************************************************************)
(* The list of results in the main window (client_gui/QuickerSFV.cpp): the *)
(* entries, how they are sorted, marked, copied and deleted from disk,     *)
(* while the callbacks of an operation go on adding to them.               *)
(*                                                                         *)
(* Everything here runs on the UI thread, one message at a time.  The      *)
(* callbacks arrive as EventProtocol has them, which OperationScheduler    *)
(* implements.  The list view has no data of its own: it holds a number of *)
(* items and which of them are selected, by index.                         *)
(***************************************************************************)
EXTENDS Integers, Sequences, FiniteSets, FiniteSetsExt, SequencesExt

CONSTANTS
  Verifies, Creates, MaxFiles,
  FileName,    \* the rank of the k-th file's name and path under lstrcmpi
  NameLength,  \* the length of that name in UTF-16 units
  MessageName  \* the rank of the messages the window adds between the files

ASSUME ListConstants ==
  /\ MaxFiles \in Nat /\ MessageName \in Nat
  /\ FileName \in [1 .. MaxFiles -> Nat \ {MessageName}]
  /\ NameLength \in [{MessageName} \cup {FileName[k] : k \in 1 .. MaxFiles} -> Nat]

VARIABLES
  shown, reported,  \* the callbacks so far, see EventProtocol
  m_listEntries, m_listSort, m_stats,
  itemCount,        \* what the list view was told by SetItemCountEx()
  selected,         \* the indices of the selected items
  disk,             \* the files, by path, that exist on disk
  pristine          \* history: no entry was deleted since onOperationStarted()

protocol == <<shown, reported>>
listView == <<itemCount, selected>>
vars == <<shown, reported, m_listEntries, m_listSort, m_stats, itemCount, selected,
          disk, pristine>>

EventHandler == INSTANCE EventProtocol WITH shown <- shown, reported <- reported

Names == {FileName[k] : k \in 1 .. MaxFiles}

\* ListViewEntry::Status, in the order of the enumeration
Ok == 0
FailedMismatch == 1
FailedMissing == 2
Information == 3
MessageOk == 4
MessageBad == 5
Failed == {FailedMismatch, FailedMissing}

\* A checksum sorts behind the empty one of a missing file or a message; two
\* files may share it.
NoChecksum == 0
SomeChecksum == 1

NoStats == [total |-> 0, completed |-> 0, ok |-> 0, bad |-> 0, missing |-> 0]

Entry(list, name, checksum, status) ==
  [name |-> name, checksum |-> checksum, status |-> status,
   original_position |-> Len(list)]
Message(list, status) == Entry(list, MessageName, NoChecksum, status)

\* absolute_file_path is empty for a message; DeleteFile() knows no such file.
Path(e) == IF e.status \in {Ok} \cup Failed THEN {e.name} ELSE {}

\* addListEntry(): a new entry goes to the end, whatever the sort order.
Show(list) == m_listEntries' = list /\ itemCount' = Len(list)

Init ==
  /\ EventHandler!Init
  /\ m_listEntries = <<>> /\ m_listSort = [column |-> 0, order |-> "Original"]
  /\ m_stats = NoStats /\ itemCount = 0 /\ selected = {}
  /\ disk \in SUBSET Names
  /\ pristine = TRUE

-----------------------------------------------------------------------------
(* The callbacks                                                           *)

\* The sort order stays as it is, though the entries now come unsorted.
onOperationStarted(op, n) ==
  /\ EventHandler!onOperationStarted(op, n)
  /\ Show(<<Message(<<>>, Information)>>) /\ selected' = {}
  /\ m_stats' = [NoStats EXCEPT !.total = n]
  /\ pristine' = TRUE
  /\ UNCHANGED <<m_listSort, disk>>

onFileStarted == EventHandler!onFileStarted
  /\ UNCHANGED <<m_listEntries, m_listSort, m_stats, listView, disk, pristine>>

\* Mutant: a missing file gets the entry of a bad one.
MissingAsMismatch == [ok |-> Ok, bad |-> FailedMismatch, missing |-> FailedMismatch]

\* What became of a file on disk since its check is not known here.
EntryStatus == [ok |-> Ok, bad |-> FailedMismatch, missing |-> FailedMissing]
onFileCompleted(status) ==
  /\ EventHandler!onFileCompleted(status)
  /\ \E checksum \in CASE status = "ok" -> {SomeChecksum}
                       [] status = "missing" -> {NoChecksum}
                       [] status = "bad" -> {NoChecksum, SomeChecksum} :
       Show(Append(m_listEntries,
              Entry(m_listEntries, FileName[shown.file], checksum, EntryStatus[status])))
  /\ m_stats' = [m_stats EXCEPT !.completed = @ + 1, ![status] = @ + 1]
  /\ UNCHANGED <<m_listSort, selected, disk, pristine>>

onCanceled == EventHandler!onCanceled
  /\ UNCHANGED <<m_listEntries, m_listSort, m_stats, listView, disk, pristine>>

\* Mutant: only bad files count.
VerdictOnBad(r) == IF r.bad = 0 THEN MessageOk ELSE MessageBad

Verdict(r) == IF r.missing = 0 /\ r.bad = 0 THEN MessageOk ELSE MessageBad

\* Result::was_canceled is not looked at.
onOperationCompleted ==
  LET r == shown
      counted == Append(m_listEntries, Message(m_listEntries, Information))
  IN
  /\ EventHandler!onOperationCompleted
  /\ Show(Append(counted, Message(counted, Verdict(r))))
  /\ m_stats' = [m_stats EXCEPT !.ok = r.ok, !.bad = r.bad, !.missing = r.missing,
                                !.completed = r.ok + r.bad + r.missing]
  /\ UNCHANGED <<m_listSort, selected, disk, pristine>>

onError(op) ==
  /\ EventHandler!onError(op)
  /\ Show(Append(m_listEntries, Message(m_listEntries, MessageBad)))
  /\ UNCHANGED <<m_listSort, m_stats, selected, disk, pristine>>

-----------------------------------------------------------------------------
(* The user                                                                *)

Select(items) ==
  /\ items # selected /\ selected' = items
  /\ UNCHANGED <<protocol, m_listEntries, m_listSort, m_stats, itemCount, disk, pristine>>

doMarkBadFiles ==
  Select({i \in DOMAIN m_listEntries : m_listEntries[i].status \in Failed})

\* A click on another column sorts by it; further clicks go through the orders.
NextOrder == [Original |-> "Ascending", Ascending |-> "Descending",
              Descending |-> "Original"]
Clicked(column) ==
  IF column # m_listSort.column THEN [column |-> column, order |-> "Ascending"]
  ELSE [m_listSort EXCEPT !.order = NextOrder[@]]

\* Mutant: the third click still looks at the column.
KeyOfColumn(e, sort) ==
  CASE sort.column = 0 -> e.name [] sort.column = 1 -> e.checksum
    [] sort.column = 2 -> e.status

Key(e, sort) ==
  CASE sort.order = "Original" -> e.original_position
    [] sort.order # "Original" /\ sort.column = 0 -> e.name
    [] sort.order # "Original" /\ sort.column = 1 -> e.checksum
    [] sort.order # "Original" /\ sort.column = 2 -> e.status

\* Entries that compare equal stay as they were.
Before(list, sort, i, j) ==
  LET a == Key(list[i], sort)
      b == Key(list[j], sort)
  IN IF a = b THEN i < j ELSE IF sort.order = "Descending" THEN a > b ELSE a < b
Rank(list, sort, i) == Cardinality({j \in DOMAIN list : Before(list, sort, j, i)})

\* std::stable_sort
StableSort(list, sort) ==
  [k \in DOMAIN list |-> list[CHOOSE i \in DOMAIN list : Rank(list, sort, i) = k - 1]]

\* LVN_COLUMNCLICK: the items stay selected by index.
ColumnClick(column) ==
  /\ m_listSort' = Clicked(column)
  /\ m_listEntries' = StableSort(m_listEntries, Clicked(column))
  /\ UNCHANGED <<protocol, m_stats, listView, disk, pristine>>

\* getMarkedFilesForDeletion()
Marked == {i \in selected \cap DOMAIN m_listEntries :
             m_listEntries[i].status \in {Ok, FailedMismatch}}

\* std::find_if() by original_position
Found(list, position) ==
  SelectInSeq(list, LAMBDA l : l.original_position = position)

\* Mutant: the entry is looked for by where it was before the first erase.
DeleteOneByIndex(left, i, locked) ==
  IF i > Len(left.list) \/ Path(left.list[i]) \cap (left.disk \ locked) = {} THEN left
  ELSE [list |-> RemoveAt(left.list, left.list[i].original_position + 1),
        disk |-> left.disk \ Path(left.list[i])]

\* One round of the loop.  What was marked is remembered as a pointer to an
\* element of the vector, which names another entry once one before it has
\* been erased, or a destroyed one, with an empty path, behind the new end.
DeleteOne(left, i, locked) ==
  IF i > Len(left.list) \/ Path(left.list[i]) \cap (left.disk \ locked) = {} THEN left
  ELSE [list |-> RemoveAt(left.list, Found(left.list, left.list[i].original_position)),
        disk |-> left.disk \ Path(left.list[i])]

\* A loop over some items of the list by index, as getSelectedListViewItems() has
\* them: Step takes the result of the rounds so far and the next item.
InTurn(items, start, Step(_, _)) ==
  LET result[i \in 0 .. Len(m_listEntries)] ==
        IF i = 0 THEN start
        ELSE IF i \in items THEN Step(result[i - 1], i) ELSE result[i - 1]
  IN result[Len(m_listEntries)]

\* What the loop leaves in the list and on disk
Remaining(locked) ==
  InTurn(Marked, [list |-> m_listEntries, disk |-> disk],
         LAMBDA left, i : DeleteOne(left, i, locked))

\* Mutant: the list view is not told that it has fewer items.
DeleteWithoutCount(locked) ==
  LET left == Remaining(locked) IN
  /\ Marked # {}
  /\ m_listEntries' = left.list /\ disk' = left.disk
  /\ pristine' = (pristine /\ left.list = m_listEntries)
  /\ UNCHANGED <<protocol, m_listSort, m_stats, listView>>

\* The user said yes; DeleteFile() fails for the locked files.
doDeleteMarkedFiles(locked) ==
  LET left == Remaining(locked) IN
  /\ Marked # {}
  /\ Show(left.list) /\ disk' = left.disk
  /\ selected' = selected \cap DOMAIN left.list
  /\ pristine' = (pristine /\ left.list = m_listEntries)
  /\ UNCHANGED <<protocol, m_listSort, m_stats>>

Next ==
  \/ \E op \in Verifies \cup Creates :
       (\E n \in 0 .. MaxFiles : onOperationStarted(op, n)) \/ onError(op)
  \/ shown.file < MaxFiles /\ onFileStarted
  \/ \E status \in DOMAIN EntryStatus : onFileCompleted(status)
  \/ onCanceled \/ onOperationCompleted
  \/ \E items \in SUBSET (1 .. itemCount) : Select(items)
  \/ doMarkBadFiles
  \/ \E column \in 0 .. 2 : ColumnClick(column)
  \/ \E locked \in SUBSET disk : doDeleteMarkedFiles(locked)

Spec == Init /\ [][Next]_vars

-----------------------------------------------------------------------------
(* doCopySelectionToClipboard() writes each name and a line break of two   *)
(* units into a zeroed buffer, but moves on by two bytes, one unit, behind *)
(* the line break.                                                         *)

\* The stretches written, in UTF-16 units from the start of the buffer
CopyOne(text, e) ==
  LET at == text.offset
      end == at + NameLength[e.name]
  IN [offset |-> end + 1,
      names |-> Append(text.names, [name |-> e.name, from |-> at, to |-> end]),
      written |-> end + 2]

doCopySelectionToClipboard ==
  InTurn(selected, [offset |-> 0, names |-> <<>>, written |-> 0],
         LAMBDA text, i : CopyOne(text, m_listEntries[i]))
TotalLength ==
  InTurn(selected, 1, LAMBDA n, i : n + NameLength[m_listEntries[i].name] + 2)

-----------------------------------------------------------------------------
(* Properties                                                              *)

\* The types, and what the list view asks for exists: populateListView() says
\* "Should never happen" of an item beyond the entries.
ListTypeOK ==
  /\ \A i \in DOMAIN m_listEntries :
       /\ m_listEntries[i].name \in Names \cup {MessageName}
       /\ m_listEntries[i].original_position \in Nat
  /\ itemCount = Len(m_listEntries)
  /\ selected \subseteq 1 .. itemCount
  /\ disk \subseteq Names

EntriesWith(status) == {i \in DOMAIN m_listEntries : m_listEntries[i].status = status}

\* The numbers above the list are those of the entries in it, however it is
\* sorted and whatever ended the operation, until the user deletes entries.
CountsMatchList ==
  pristine /\ reported # <<>> =>
    /\ m_stats.ok = Cardinality(EntriesWith(Ok))
    /\ m_stats.bad = Cardinality(EntriesWith(FailedMismatch))
    /\ m_stats.missing = Cardinality(EntriesWith(FailedMissing))

\* Back in the original order, the entries are in the order they came in,
\* those added while the list was sorted otherwise included.
OriginalOrder ==
  pristine /\ m_listSort.order = "Original" =>
    \A i \in DOMAIN m_listEntries : m_listEntries[i].original_position = i - 1

\* "All files OK" is said only if each file the verification was to check was
\* reported Ok, unless it was canceled.
AllFilesOK ==
  EventHandler!In("Completed") /\ EntriesWith(MessageOk) # {} /\ EventHandler!ByVerify
    => shown.was_canceled \/ m_stats.ok = m_stats.total

\* Deleting a single marked file deletes this file and takes its entry, and no
\* other, off the list in any sort order, as long as positions are distinct.
DistinctPositions ==
  \A i, j \in DOMAIN m_listEntries :
    i # j => m_listEntries[i].original_position # m_listEntries[j].original_position
SingleDeletion ==
  [][disk' # disk /\ Cardinality(Marked) = 1 /\ DistinctPositions
       => \A i \in Marked : /\ m_listEntries' = RemoveAt(m_listEntries, i)
                            /\ disk \ disk' = Path(m_listEntries[i])]_vars

\* The names on the clipboard do not overwrite each other and end within the
\* buffer, with room for the final zero.
ClipboardFits ==
  LET text == doCopySelectionToClipboard IN
  /\ text.written < TotalLength
  /\ \A k \in 1 .. Len(text.names) - 1 : text.names[k].to < text.names[k + 1].from

\* "%d files will be deleted from disk": what is deleted was marked.  The code
\* breaks this with two marked files: the pointer to the second one names the
\* entry behind it once the first one has been erased.
OnlyMarkedAreDeleted ==
  [][disk \ disk' \subseteq UNION {Path(m_listEntries[i]) : i \in Marked}]_vars
=============================================================================
