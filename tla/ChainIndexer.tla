----------------------------- MODULE ChainIndexer -----------------------------
(***************************************************************************)
(* The mirror of the contract's events in the chain_events table.  A poll  *)
(* asks the RPC node for a page of events and upserts them one by one, in  *)
(* awaited calls; polls and POST /ingest requests interleave.  The table   *)
(* has one row per transaction, so an event can be overwritten by another  *)
(* of the same transaction, by an older poll, or by a client.              *)
(***************************************************************************)
EXTENDS Integers, Sequences

CONSTANTS
  Pollers,    \* clients that call POST /indexer/poll
  Batches,    \* the events a ledger may hold, each with its transaction's number
  Window,     \* 50: how far back a poll looks that gives no startLedger
  Limit,      \* 100: the size of a page
  Spellings,  \* ways to write a transaction hash: case, white space
  Plain,      \* the trimmed, lower-case one
  MaxLedger,  \* bound: the chain stops at this ledger
  MaxFaults   \* bound: how many calls fail or processes die in one behaviour

ASSUME IndexerAssumption ==
  /\ Batches \subseteq Seq([n : Nat, named : BOOLEAN])
  /\ Window \in Nat /\ Limit \in Nat \ {0}
  /\ Plain \in Spellings
  /\ MaxLedger \in Nat /\ MaxFaults \in Nat

VARIABLES
  chain,    \* the contract's events, oldest first
  head,     \* the latest ledger
  rows,     \* the chain_events table: which event the row of a hash shows
  polls,    \* what each client's poll is doing, and the ledgers its polls went through
  faults    \* failures so far

indexerVars == <<chain, head, rows, polls, faults>>

\* An event with no readable topic symbol is not `named`.
Event == [ledger : Nat, tx : Nat \X Nat, named : BOOLEAN]
Hash == [tx : Nat \X Nat, spelling : Spellings]
NoEvent == 0    \* a row with a client's content

\* Faulty Normalise: hashes are taken as they come.
NormaliseNot(hash) == hash

\* normalizeTxHash
Normalise(hash) == [hash EXCEPT !.spelling = Plain]

HashOf(i) == [tx |-> chain[i].tx, spelling |-> Plain]

\* A poll reads the events first..last from ledger `from` on, and is at `next`.  The
\* client's polls that returned went through the ledgers since..upto (0: none did).
Poll == [pc : {"idle", "latest", "events", "ingest"}, from : Nat, first : Nat, next : Nat,
         last : Nat, since : Nat, upto : Nat]
Returned(since, upto) ==
  [pc |-> "idle", from |-> 0, first |-> 0, next |-> 0, last |-> 0, since |-> since, upto |-> upto]

At(p, pc) == polls[p].pc = pc

IndexerInit ==
  /\ chain = << >> /\ head = 1
  /\ rows = [hash \in {} |-> NoEvent]
  /\ polls = [p \in Pollers |-> Returned(0, 0)]
  /\ faults = 0

\* Faulty Upsert: a row that exists is left as it is.
InsertOnly(hash, i) ==
  rows' = [h \in DOMAIN rows \cup {Normalise(hash)} |-> IF h \in DOMAIN rows THEN rows[h] ELSE i]

\* ingestChainEvent
Upsert(hash, i) ==
  rows' = [h \in DOMAIN rows \cup {Normalise(hash)} |-> IF h = Normalise(hash) THEN i ELSE rows[h]]

-----------------------------------------------------------------------------
(* pollSorobanEvents.                                                       *)

\* start = 0: no startLedger was given.
StartPoll(p, start) ==
  /\ At(p, "idle")
  /\ polls' = [polls EXCEPT ![p] =
       [@ EXCEPT !.pc = IF start = 0 THEN "latest" ELSE "events", !.from = start]]
  /\ UNCHANGED <<chain, head, rows, faults>>

GetLatest(p) ==
  /\ At(p, "latest")
  /\ polls' = [polls EXCEPT ![p] =
       [@ EXCEPT !.pc = "events", !.from = IF head - Window < 1 THEN 1 ELSE head - Window]]
  /\ UNCHANGED <<chain, head, rows, faults>>

\* first..last are the first events from ledger `from` on, at most Limit of them.
IsPage(from, first, last) ==
  /\ \A i \in 1 .. Len(chain) : chain[i].ledger >= from <=> i >= first
  /\ last = IF first + Limit - 1 < Len(chain) THEN first + Limit - 1 ELSE Len(chain)

GetEvents(p) ==
  /\ At(p, "events") /\ polls[p].from <= head
  /\ \E first \in 1 .. Len(chain) + 1, last \in 0 .. Len(chain) :
       /\ IsPage(polls[p].from, first, last)
       /\ polls' = [polls EXCEPT ![p] =
            [@ EXCEPT !.pc = "ingest", !.first = first, !.next = first, !.last = last]]
  /\ UNCHANGED <<chain, head, rows, faults>>

\* The node refuses a start after its latest ledger: polled is false.
GetEventsRefused(p) ==
  /\ At(p, "events") /\ polls[p].from > head
  /\ polls' = [polls EXCEPT ![p] = Returned(polls[p].since, polls[p].upto)]
  /\ UNCHANGED <<chain, head, rows, faults>>

\* Faulty Ingest: the loop ends at an event it cannot read.
IngestBreaks(p) ==
  /\ At(p, "ingest") /\ polls[p].next <= polls[p].last
  /\ IF chain[polls[p].next].named
       THEN Upsert(HashOf(polls[p].next), polls[p].next) ELSE UNCHANGED rows
  /\ polls' = [polls EXCEPT ![p].next = IF chain[@].named THEN @ + 1 ELSE polls[p].last + 1]
  /\ UNCHANGED <<chain, head, faults>>

\* One turn of the loop.
Ingest(p) ==
  /\ At(p, "ingest") /\ polls[p].next <= polls[p].last
  /\ IF chain[polls[p].next].named
       THEN Upsert(HashOf(polls[p].next), polls[p].next) ELSE UNCHANGED rows
  /\ polls' = [polls EXCEPT ![p].next = @ + 1]
  /\ UNCHANGED <<chain, head, faults>>

\* Faulty LatestLedger: the ledger after the last event of the page.
LatestLedgerPast(p) ==
  IF polls[p].first <= polls[p].last THEN chain[polls[p].last].ledger + 1 ELSE polls[p].from

\* What the poll answers; clients can pass it as the next startLedger.
LatestLedger(p) ==
  IF polls[p].first <= polls[p].last THEN chain[polls[p].last].ledger ELSE polls[p].from

\* The poll returns.  One that started where the client had got to goes on from there.
Finish(p) ==
  /\ At(p, "ingest") /\ polls[p].next > polls[p].last
  /\ polls' = [polls EXCEPT ![p] =
       Returned(IF polls[p].from = polls[p].upto THEN polls[p].since ELSE polls[p].from,
                LatestLedger(p))]
  /\ UNCHANGED <<chain, head, rows, faults>>

\* An RPC call fails, an upsert is rejected, or the process dies.
Abort(p) ==
  /\ faults < MaxFaults /\ faults' = faults + 1
  /\ ~At(p, "idle")
  /\ polls' = [polls EXCEPT ![p] = Returned(polls[p].since, polls[p].upto)]
  /\ UNCHANGED <<chain, head, rows>>

-----------------------------------------------------------------------------

\* POST /indexer/ingest: a client writes a row, for any hash and in its own words.
ClientIngest(hash) ==
  /\ Upsert(hash, NoEvent)
  /\ UNCHANGED <<chain, head, polls, faults>>

\* The network closes a ledger with a batch of events.
CloseLedger(batch) ==
  /\ head < MaxLedger /\ head' = head + 1
  /\ chain' = chain \o [k \in 1 .. Len(batch) |->
       [ledger |-> head + 1, tx |-> <<head + 1, batch[k].n>>, named |-> batch[k].named]]
  /\ UNCHANGED <<rows, polls, faults>>

\* The transactions clients know of; <<0, 0>> is not one of the contract's.
KnownTxs == {chain[i].tx : i \in 1 .. Len(chain)} \cup {<<0, 0>>}

IndexerNext ==
  \/ \E p \in Pollers :
       \/ \E start \in 0 .. MaxLedger : StartPoll(p, start)
       \/ GetLatest(p) \/ GetEvents(p) \/ GetEventsRefused(p)
       \/ Ingest(p) \/ Finish(p) \/ Abort(p)
  \/ \E tx \in KnownTxs, spelling \in Spellings : ClientIngest([tx |-> tx, spelling |-> spelling])
  \/ \E batch \in Batches : CloseLedger(batch)

IndexerSpec == IndexerInit /\ [][IndexerNext]_indexerVars

-----------------------------------------------------------------------------

\* Every variable has the type of the code's rows and locals; the rows' keys are
\* normalised hashes, one row to a transaction.
IndexerTypeOK ==
  /\ chain \in Seq(Event)
  /\ head \in Nat
  /\ DOMAIN rows \subseteq {hash \in Hash : hash.spelling = Plain}
  /\ \A hash \in DOMAIN rows : rows[hash] \in 0 .. Len(chain)
  /\ polls \in [Pollers -> Poll]
  /\ faults \in Nat

Mirrored(i) == HashOf(i) \in DOMAIN rows

\* A client that goes on from each latestLedger it was given has missed nothing: every
\* readable event of the ledgers before it has a row, whatever failed, was cut off at
\* the page limit, overlapped or arrived in between.
NothingSkipped ==
  \A p \in Pollers, i \in 1 .. Len(chain) :
    /\ chain[i].named
    /\ polls[p].since <= chain[i].ledger /\ chain[i].ledger < polls[p].upto
    => Mirrored(i)

\* A row does not stay behind at an earlier event of its transaction: as long as nothing
\* failed and no page was full, an overlapping poll that wrote it back brings the later
\* event too.
NothingHidden ==
  faults = 0 /\ Len(chain) <= Limit =>
    \A i, j \in 1 .. Len(chain) :
      /\ i < j /\ chain[i].tx = chain[j].tx /\ chain[j].named
      /\ Mirrored(i) /\ rows[HashOf(i)] = i
      => \E p \in Pollers : At(p, "ingest") /\ polls[p].next <= j /\ j <= polls[p].last

-----------------------------------------------------------------------------
(* The invariants the proofs of the above rest on.                         *)

\* The chain is in the order of its ledgers, and a transaction is in one of them.
InOrder ==
  /\ \A i \in 1 .. Len(chain) : chain[i].ledger <= head /\ chain[i].tx[1] = chain[i].ledger
  /\ \A i, j \in 1 .. Len(chain) : i <= j => chain[i].ledger <= chain[j].ledger

\* A poll in its loop has mirrored what it is past.
PollSound(p) ==
  /\ polls[p].upto <= head
  /\ At(p, "ingest") =>
       /\ 1 <= polls[p].first /\ polls[p].first <= polls[p].next
       /\ polls[p].next <= polls[p].last + 1 /\ polls[p].last <= Len(chain)
       /\ polls[p].from <= head
       /\ \A i \in 1 .. polls[p].last : chain[i].ledger >= polls[p].from => i >= polls[p].first
       /\ \A i \in polls[p].first .. polls[p].next - 1 : chain[i].named => Mirrored(i)

\* A page that was not full ends with the last event of its transaction.
PageWhole(p) ==
  At(p, "ingest") /\ Len(chain) <= Limit =>
    \A i \in 1 .. polls[p].last, j \in 1 .. Len(chain) :
      chain[i].tx = chain[j].tx => j <= polls[p].last

IndexerInv == InOrder /\ \A p \in Pollers : PollSound(p) /\ PageWhole(p)
=============================================================================
