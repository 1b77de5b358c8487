------------------------------- MODULE NVault -------------------------------
(***************************************************************************)
(* One vault of the nvault module (dlls/nvault/NVault.cpp, Journal.cpp): a  *)
(* table in memory, the vault file it is read from by Open and saved to by  *)
(* Close, and the journal of the changes in between, which Open replays     *)
(* when the last process did not get to Close.  The process may crash       *)
(* between any two file operations; what stdio has buffered is lost then.   *)
(***************************************************************************)
EXTENDS Naturals, Sequences

CONSTANTS
  Keys, Vals,
  EmptyVal,  \* the empty string, which Touch stores
  Ranges,    \* <<start, end>> given to Prune
  MaxTime,   \* bound: the clock
  MaxOps     \* bound: changes made

Times == 0..MaxTime + 1

ASSUME ValAssumption == EmptyVal \notin Vals
ASSUME KeyAssumption == Keys # {}
ASSUME TimeAssumption == MaxTime \in Nat \ {0} /\ MaxOps \in Nat
ASSUME RangeAssumption == Ranges \subseteq Times \X Times

VARIABLES
  m_Hash,     \* the table
  m_Journal,  \* the pointer is not NULL: the journal file is open
  pc,         \* where the process is in Open, Close or between them
  file,       \* disk: the table _ReadFromFile gets from the vault file
  journal,    \* disk: the records Replay gets from the journal file
  buffer,     \* records written to m_fp and not yet on the disk
  now,        \* time(NULL)
  ops,        \* changes made
  seen,       \* history: the tables since the last Open
  gaps        \* history: what came between the files and the table, see below

diskVars == <<file, journal>>
vars == <<m_Hash, m_Journal, pc, diskVars, buffer, now, ops, seen, gaps>>

\* A table maps every key to its entry or to Absent.
Absent == [stamp |-> MaxTime + 2]
Entry == [val : Vals \union {EmptyVal}, stamp : Times] \union {Absent}
Table == [Keys -> Entry]
Empty == [k \in Keys |-> Absent]

\* Records of the journal; fields an operation does not have are fixed.
Op == [op : {"clear", "prune", "insert", "remove"}, key : Keys,
       entry : Entry, range : Times \X Times]
anyKey == CHOOSE k \in Keys : TRUE
insertOp(k, v, t) == [op |-> "insert", key |-> k, entry |-> [val |-> v, stamp |-> t], range |-> <<0, 0>>]
removeOp(k) == [op |-> "remove", key |-> k, entry |-> Absent, range |-> <<0, 0>>]
clearOp == [op |-> "clear", key |-> anyKey, entry |-> Absent, range |-> <<0, 0>>]
pruneOp(r) == [op |-> "prune", key |-> anyKey, entry |-> Absent, range |-> r]

\* The ways in which the two files stop telling the whole story.
Gap == {"touch",       \* Touch is not journaled
        "tick",        \* time(NULL) differs between the journal and the table
        "restored",    \* Open erased the journal and has not saved the table
        "no_journal",  \* Begin failed and changes were made
        "torn",        \* crash while the vault file was being written
        "save_failed", \* the vault file could not be written
        "unflushed"}   \* crash with the table saved and the journal cut short

TypeOK == /\ m_Hash \in Table
          /\ m_Journal \in BOOLEAN
          /\ pc \in {"down", "read", "erased", "open", "saving", "saved", "ended"}
          /\ file \in Table
          /\ journal \in Seq(Op) /\ buffer \in Seq(Op)
          /\ now \in 1..MaxTime
          /\ ops \in 0..MaxOps
          /\ seen \subseteq Table
          /\ gaps \subseteq Gap

\* No vault file yet: the constructor makes an empty one.
Init == /\ m_Hash = Empty
        /\ m_Journal = FALSE
        /\ pc = "down"
        /\ file = Empty
        /\ journal = <<>> /\ buffer = <<>>
        /\ now = 1
        /\ ops = 0
        /\ seen = {Empty}
        /\ gaps = {}

-----------------------------------------------------------------------------
(* The table (THash) and the replay of the journal.                         *)

\* THash::Prune; permanent entries have stamp 0.
pruned(table, r) ==
  [k \in Keys |-> IF table[k] # Absent /\ table[k].stamp # 0
                     /\ \/ r = <<0, 0>>
                        \/ r[1] = 0 /\ table[k].stamp < r[2]
                        \/ r[2] = 0 /\ table[k].stamp > r[1]
                        \/ table[k].stamp > r[1] /\ table[k].stamp < r[2]
                  THEN Absent ELSE table[k]]

apply(table, o) == CASE o.op = "insert" -> [table EXCEPT ![o.key] = o.entry]
                     [] o.op = "remove" -> [table EXCEPT ![o.key] = Absent]
                     [] o.op = "clear"  -> Empty
                     [] o.op = "prune"  -> pruned(table, o.range)

\* Journal::Replay: a record that was cut off ends it.
Replay(table, records) ==
  LET done[n \in 0..Len(records)] ==
        IF n = 0 THEN table ELSE apply(done[n - 1], records[n])
  IN  done[Len(records)]

-----------------------------------------------------------------------------
(* Open.                                                                    *)

\* _ReadFromFile, whose result is ignored, and Replay.
OpenRead == /\ pc = "down"
            /\ m_Hash' = Replay(file, journal)
            /\ pc' = "read"
            /\ UNCHANGED <<m_Journal, diskVars, buffer, now, ops, seen, gaps>>

OpenErase == /\ pc = "read"
             /\ journal' = <<>>
             /\ pc' = "erased"
             /\ seen' = {m_Hash}
             /\ gaps' = IF m_Hash = file THEN {} ELSE {"restored"}
             /\ UNCHANGED <<m_Hash, m_Journal, file, buffer, now, ops>>

\* Begin creates the journal file, or m_Journal is set to NULL.
OpenBegin == /\ pc = "erased"
             /\ m_Journal' \in BOOLEAN
             /\ pc' = "open"
             /\ UNCHANGED <<m_Hash, diskVars, buffer, now, ops, seen, gaps>>

-----------------------------------------------------------------------------
(* Changes.                                                                 *)

\* The journal gets its record, then the table becomes table.
Change(record, table, gap) ==
  /\ pc = "open"
  /\ ops < MaxOps
  /\ ops' = ops + 1
  /\ buffer' = IF m_Journal THEN Append(buffer, record) ELSE buffer
  /\ m_Hash' = table
  /\ seen' = seen \union {table}
  /\ gaps' = gaps \union gap \union IF m_Journal THEN {} ELSE {"no_journal"}
  /\ UNCHANGED <<m_Journal, pc, diskVars>>

\* SetValue(key, val): time(NULL) for the journal, and again in Insert.
SetValue(k, v) ==
  \E t \in {now, now + 1} \cap 1..MaxTime :
    /\ Change(insertOp(k, v, now), [m_Hash EXCEPT ![k] = [val |-> v, stamp |-> t]],
              IF t = now THEN {} ELSE {"tick"})
    /\ now' = t

\* SetValue(key, val, 0), for nvault_pset.
SetPermanent(k, v) ==
  /\ Change(insertOp(k, v, 0), [m_Hash EXCEPT ![k] = [val |-> v, stamp |-> 0]], {})
  /\ UNCHANGED now

\* Fault: the removal is not journaled.
Remove_NoJournal(k) ==
  /\ pc = "open"
  /\ ops < MaxOps
  /\ ops' = ops + 1
  /\ m_Hash' = [m_Hash EXCEPT ![k] = Absent]
  /\ seen' = seen \union {m_Hash'}
  /\ UNCHANGED <<m_Journal, pc, diskVars, buffer, now, gaps>>

Remove(k) == /\ Change(removeOp(k), [m_Hash EXCEPT ![k] = Absent], {})
             /\ UNCHANGED now

Clear == Change(clearOp, Empty, {}) /\ UNCHANGED now

Prune(r) == Change(pruneOp(r), pruned(m_Hash, r), {}) /\ UNCHANGED now

\* Fault: a missing key is not set first.
Touch_NoInsert(k, t) ==
  /\ pc = "open"
  /\ ops < MaxOps
  /\ ops' = ops + 1
  /\ m_Hash' = [m_Hash EXCEPT ![k].stamp = t]
  /\ seen' = seen \union {m_Hash'}
  /\ gaps' = gaps \union {"touch"}
  /\ UNCHANGED <<m_Journal, pc, diskVars, buffer, now>>

\* A missing key is set to the empty string first, with time(NULL).
Touch(k, t) ==
  /\ \/ /\ m_Hash[k] = Absent
        /\ Change(insertOp(k, EmptyVal, now),
                  [m_Hash EXCEPT ![k] = [val |-> EmptyVal, stamp |-> t]], {"touch"})
     \/ /\ m_Hash[k] # Absent
        /\ pc = "open"
        /\ ops < MaxOps
        /\ ops' = ops + 1
        /\ m_Hash' = [m_Hash EXCEPT ![k].stamp = t]
        /\ seen' = seen \union {m_Hash'}
        /\ gaps' = gaps \union {"touch"}
        /\ UNCHANGED <<m_Journal, pc, diskVars, buffer>>
  /\ UNCHANGED now

Tick == /\ pc = "open" /\ now < MaxTime
        /\ now' = now + 1
        /\ UNCHANGED <<m_Hash, m_Journal, pc, diskVars, buffer, ops, seen, gaps>>

-----------------------------------------------------------------------------
(* Close.  The result of _SaveToFile is ignored.                            *)

\* What a vault file that was not written to its end is read as.
Partial == {[k \in Keys |-> IF k \in K THEN m_Hash[k] ELSE Absent] : K \in SUBSET Keys}

\* fopen truncates the file, or fails.
SaveBegin == /\ pc = "open"
             /\ \/ file' = Empty /\ pc' = "saving" /\ UNCHANGED gaps
                \/ pc' = "saved" /\ gaps' = gaps \union {"save_failed"} /\ UNCHANGED file
             /\ UNCHANGED <<m_Hash, m_Journal, journal, buffer, now, ops, seen>>

SaveEnd == /\ pc = "saving"
           /\ \/ file' = m_Hash /\ UNCHANGED gaps
              \/ file' \in Partial /\ gaps' = gaps \union {"save_failed"}
           /\ pc' = "saved"
           /\ UNCHANGED <<m_Hash, m_Journal, journal, buffer, now, ops, seen>>

\* Journal::End; with m_Journal NULL the process dies here, see Crash.
CloseEnd == /\ pc = "saved"
            /\ m_Journal
            /\ journal' = journal \o buffer
            /\ buffer' = <<>>
            /\ pc' = "ended"
            /\ UNCHANGED <<m_Hash, m_Journal, file, now, ops, seen, gaps>>

\* After a save that went well the table is the one to come back.
CloseErase == /\ pc = "ended"
              /\ journal' = <<>>
              /\ seen' = {m_Hash}
              /\ gaps' = gaps \cap {"save_failed"}
              /\ m_Hash' = Empty
              /\ m_Journal' = FALSE
              /\ pc' = "down"
              /\ UNCHANGED <<file, buffer, now, ops>>

-----------------------------------------------------------------------------
\* The process dies.  A first part of what was buffered is on the disk.
Crash ==
  /\ pc # "down"
  /\ \E n \in 0..Len(buffer) :
       /\ journal' = journal \o SubSeq(buffer, 1, n)
       /\ gaps' = gaps \union (IF pc = "saving" THEN {"torn"} ELSE {})
                       \union (IF pc = "saved" /\ n < Len(buffer) THEN {"unflushed"} ELSE {})
  /\ IF pc = "saving" THEN file' \in Partial ELSE UNCHANGED file
  /\ buffer' = <<>>
  /\ m_Hash' = Empty
  /\ m_Journal' = FALSE
  /\ pc' = "down"
  /\ UNCHANGED <<now, ops, seen>>

Next == \/ OpenRead \/ OpenErase \/ OpenBegin
        \/ \E k \in Keys, v \in Vals : SetValue(k, v) \/ SetPermanent(k, v)
        \/ \E k \in Keys : Remove(k)
        \/ Clear
        \/ \E r \in Ranges : Prune(r)
        \/ \E k \in Keys, t \in 0..MaxTime : Touch(k, t)
        \/ Tick
        \/ SaveBegin \/ SaveEnd \/ CloseEnd \/ CloseErase
        \/ Crash

Spec == Init /\ [][Next]_vars

-----------------------------------------------------------------------------
(* Properties.                                                              *)

\* Open brings back a table the vault had since the last Open, and the last one
\* after a Close, wherever in Open, Close or between them the process died:
\* also when the journal is replayed again on a table that has its changes.
\* The gaps are the only exceptions.
RecoversTable == [][(OpenRead /\ gaps = {}) => m_Hash' \in seen]_vars

\* "it will read the file automatically, as well as begin/restore journaling":
\* what a replayed journal restored survives the next crash as well.
RestoredSurvives == [][(OpenRead /\ gaps \subseteq {"restored"}) => m_Hash' \in seen]_vars
=============================================================================
