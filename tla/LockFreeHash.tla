---------------------------- MODULE LockFreeHash ----------------------------
(***************************************************************************)
(* TGrowOnlyLockFreeHash (GrowOnlyLockFreeHash.h): an open-addressed table *)
(* that only grows.  A table is a value here; who may see which table, and *)
(* when, is CallstackTracer's business.                                    *)
(*                                                                         *)
(* A key is its own hash, as in FEncounteredCallstackSetEntry::KeyHash,    *)
(* and 0 is the key of an empty entry.                                     *)
(***************************************************************************)
EXTENDS Naturals, FiniteSets, FiniteSetsExt

NoKey == 0

\* EntryType::ClearEntries on Count entries.
EmptyTable(count) ==
  [used |-> 0, entry |-> [i \in 0 .. count - 1 |-> [key |-> NoKey, value |-> 0]]]

TableSize(table) == Cardinality(DOMAIN table.entry)

\* TableIndex after that many turns of a probing loop.
Probe(table, key, turns) == (key + turns) % TableSize(table)

\* The turns at which the loop of Find would stop: {} if it never does.
Stops(table, key) ==
  {d \in 0 .. TableSize(table) - 1 : table.entry[Probe(table, key, d)].key \in {NoKey, key}}

\* The entry at which the loop of Find stops.
Entry(table, key) == Probe(table, key, Min(Stops(table, key)))

\* A slip: does not probe.
FreeEntrySlip(table, key) == Probe(table, key, 0)

\* The one at which that of HashInsertInternal does: the first empty one.
FreeEntry(table, key) ==
  Probe(table, key, Min({d \in 0 .. TableSize(table) - 1 :
                           table.entry[Probe(table, key, d)].key = NoKey}))

(***************************************************************************)
(* Slips: likely mistakes, used by no specification.                       *)
(***************************************************************************)
\* Lets the table fill up by one more.
MustGrowSlip(table) == table.used > TableSize(table) \div 2

(***************************************************************************)
(* Operations.                                                             *)
(***************************************************************************)
\* bIsAlreadyInTable of Find, for a table that exists.
Holds(table, key) == Stops(table, key) # {} /\ table.entry[Entry(table, key)].key = key

\* OutValue of Find.
ValueOf(table, key) == table.entry[Entry(table, key)].value

\* HashInsertInternal.
HashInsert(table, key, value) ==
  [used  |-> table.used + 1,
   entry |-> [table.entry EXCEPT ![FreeEntry(table, key)] = [key |-> key, value |-> value]]]

\* Half full or more.
MustGrow(table) == table.used >= TableSize(table) \div 2

\* The table of twice the size into which Emplace copies the entries, one after the other.
Grown(table) ==
  LET copied[n \in 0 .. TableSize(table)] ==
        IF n = 0 THEN EmptyTable(2 * TableSize(table))
        ELSE IF table.entry[n - 1].key = NoKey THEN copied[n - 1]
        ELSE HashInsert(copied[n - 1], table.entry[n - 1].key, table.entry[n - 1].value)
  IN copied[TableSize(table)]
=============================================================================
