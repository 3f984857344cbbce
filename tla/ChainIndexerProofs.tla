-------------------------- MODULE ChainIndexerProofs --------------------------
(***************************************************************************)
(* The mirror misses no event that its clients were told of, and shows no  *)
(* event that a later one of the transaction replaced, for any number of   *)
(* clients, ledgers, events and failures, any window and any page size.    *)
(***************************************************************************)
EXTENDS ChainIndexer, SequenceTheorems, TLAPS

Pcs == {"idle", "latest", "events", "ingest"}

LEMMA ChainFacts ==
  ASSUME IndexerTypeOK
  PROVE  /\ Len(chain) \in Nat
         /\ \A i \in 1 .. Len(chain) : /\ chain[i] \in Event
                                       /\ chain[i].ledger \in Nat
                                       /\ HashOf(i) \in Hash /\ HashOf(i).spelling = Plain
<1>1. chain \in Seq(Event)
  BY DEF IndexerTypeOK
<1>2. Len(chain) \in Nat /\ \A i \in 1 .. Len(chain) : chain[i] \in Event
  BY <1>1, LenProperties, ElementOfSeq
<1>3. QED
  BY <1>2, IndexerAssumption DEF Event, HashOf, Hash

LEMMA PollFacts ==
  ASSUME IndexerTypeOK, NEW p \in Pollers
  PROVE  /\ polls[p] \in Poll /\ polls[p].pc \in Pcs
         /\ polls[p].from \in Nat /\ polls[p].first \in Nat /\ polls[p].next \in Nat
         /\ polls[p].last \in Nat /\ polls[p].since \in Nat /\ polls[p].upto \in Nat
BY DEF IndexerTypeOK, Poll, Pcs

LEMMA OnePoll ==
  ASSUME IndexerTypeOK, NEW p \in Pollers, NEW new \in Poll, polls' = [polls EXCEPT ![p] = new]
  PROVE  /\ polls' \in [Pollers -> Poll] /\ polls'[p] = new
         /\ \A q \in Pollers \ {p} : polls'[q] = polls[q]
BY DEF IndexerTypeOK

LEMMA ReturnedFacts ==
  ASSUME NEW since \in Nat, NEW upto \in Nat
  PROVE  /\ Returned(since, upto) \in Poll /\ Returned(since, upto).pc = "idle"
         /\ Returned(since, upto).since = since /\ Returned(since, upto).upto = upto
BY DEF Returned, Poll

\* The poll before its page is read: only where it starts changes.
LEMMA Started ==
  ASSUME IndexerTypeOK, NEW p \in Pollers, NEW pc \in {"latest", "events"}, NEW from \in Nat,
         polls' = [polls EXCEPT ![p] = [@ EXCEPT !.pc = pc, !.from = from]]
  PROVE  /\ polls' \in [Pollers -> Poll] /\ polls'[p].pc = pc
         /\ polls'[p].since = polls[p].since /\ polls'[p].upto = polls[p].upto
         /\ \A q \in Pollers \ {p} : polls'[q] = polls[q]
<1> DEFINE new == [polls[p] EXCEPT !.pc = pc, !.from = from]
<1>1. polls[p] \in Poll /\ polls \in [Pollers -> Poll]
  BY DEF IndexerTypeOK
<1>2. new \in Poll
  BY <1>1, Zenon DEF Poll
<1>3. new.pc = pc /\ new.since = polls[p].since /\ new.upto = polls[p].upto
  BY <1>1 DEF Poll
<1>4. polls' = [polls EXCEPT ![p] = new]
  BY <1>1
<1> HIDE DEF new
<1>5. QED
  BY <1>2, <1>3, <1>4, OnePoll

LEMMA StartedAt ==
  ASSUME IndexerTypeOK, NEW p \in Pollers,
         (\E start \in 0 .. MaxLedger : StartPoll(p, start)) \/ GetLatest(p)
  PROVE  /\ polls' \in [Pollers -> Poll] /\ polls'[p].pc # "ingest"
         /\ polls'[p].since = polls[p].since /\ polls'[p].upto = polls[p].upto
         /\ \A q \in Pollers \ {p} : polls'[q] = polls[q]
<1>1. ASSUME NEW start \in 0 .. MaxLedger, StartPoll(p, start)
      PROVE  \E pc \in {"latest", "events"}, from \in Nat :
               polls' = [polls EXCEPT ![p] = [@ EXCEPT !.pc = pc, !.from = from]]
  <2>1. start \in Nat
    BY <1>1, IndexerAssumption
  <2>2. CASE start = 0
    BY <1>1, <2>1, <2>2 DEF StartPoll
  <2>3. CASE start # 0
    BY <1>1, <2>1, <2>3 DEF StartPoll
  <2>4. QED
    BY <2>2, <2>3
<1>2. ASSUME GetLatest(p)
      PROVE  \E pc \in {"latest", "events"}, from \in Nat :
               polls' = [polls EXCEPT ![p] = [@ EXCEPT !.pc = pc, !.from = from]]
  <2>1. (IF head - Window < 1 THEN 1 ELSE head - Window) \in Nat
    BY IndexerAssumption DEF IndexerTypeOK
  <2>2. QED
    BY <1>2, <2>1 DEF GetLatest
<1>3. PICK pc \in {"latest", "events"}, from \in Nat :
        polls' = [polls EXCEPT ![p] = [@ EXCEPT !.pc = pc, !.from = from]]
  BY <1>1, <1>2
<1>4. QED
  BY <1>3, Started

\* The poll after its page is read.
LEMMA PageRead ==
  ASSUME IndexerTypeOK, NEW p \in Pollers, GetEvents(p)
  PROVE  /\ polls' \in [Pollers -> Poll] /\ polls'[p].pc = "ingest"
         /\ polls'[p].from = polls[p].from /\ polls'[p].next = polls'[p].first
         /\ polls'[p].first \in 1 .. Len(chain) + 1 /\ polls'[p].last \in 0 .. Len(chain)
         /\ IsPage(polls[p].from, polls'[p].first, polls'[p].last)
         /\ polls'[p].since = polls[p].since /\ polls'[p].upto = polls[p].upto
         /\ \A q \in Pollers \ {p} : polls'[q] = polls[q]
<1>1. PICK first \in 1 .. Len(chain) + 1, last \in 0 .. Len(chain) :
        /\ IsPage(polls[p].from, first, last)
        /\ polls' = [polls EXCEPT ![p] =
             [@ EXCEPT !.pc = "ingest", !.first = first, !.next = first, !.last = last]]
  BY DEF GetEvents
<1> DEFINE new == [polls[p] EXCEPT !.pc = "ingest", !.first = first, !.next = first, !.last = last]
<1>2. first \in Nat /\ last \in Nat /\ polls[p] \in Poll /\ polls \in [Pollers -> Poll]
  BY ChainFacts DEF IndexerTypeOK
<1>3. new \in Poll
  BY <1>2, Zenon DEF Poll
<1>4. /\ new.pc = "ingest" /\ new.from = polls[p].from /\ new.next = first /\ new.first = first
      /\ new.last = last /\ new.since = polls[p].since /\ new.upto = polls[p].upto
  BY <1>2 DEF Poll
<1>5. polls' = [polls EXCEPT ![p] = new]
  BY <1>1, <1>2
<1> HIDE DEF new
<1>6. polls' \in [Pollers -> Poll] /\ polls'[p] = new /\ \A q \in Pollers \ {p} : polls'[q] = polls[q]
  BY <1>3, <1>5, OnePoll
<1>7. QED
  BY <1>1, <1>4, <1>6

\* The poll after one turn of its loop.
LEMMA TurnTaken ==
  ASSUME IndexerTypeOK, NEW p \in Pollers, Ingest(p)
  PROVE  /\ polls' \in [Pollers -> Poll] /\ polls'[p].pc = "ingest"
         /\ polls'[p].next = polls[p].next + 1
         /\ polls'[p].from = polls[p].from /\ polls'[p].first = polls[p].first
         /\ polls'[p].last = polls[p].last
         /\ polls'[p].since = polls[p].since /\ polls'[p].upto = polls[p].upto
         /\ \A q \in Pollers \ {p} : polls'[q] = polls[q]
<1> DEFINE new == [polls[p] EXCEPT !.next = polls[p].next + 1]
<1>1. polls[p] \in Poll /\ polls \in [Pollers -> Poll] /\ polls[p].next + 1 \in Nat
      /\ polls[p].pc = "ingest"
  BY PollFacts DEF IndexerTypeOK, Ingest, At
<1>2. new \in Poll
  BY <1>1, Zenon DEF Poll
<1>3. /\ new.pc = "ingest" /\ new.next = polls[p].next + 1 /\ new.from = polls[p].from
      /\ new.first = polls[p].first /\ new.last = polls[p].last /\ new.since = polls[p].since
      /\ new.upto = polls[p].upto
  BY <1>1 DEF Poll
<1>4. polls' = [polls EXCEPT ![p] = new]
  BY <1>1 DEF Ingest
<1> HIDE DEF new
<1>5. polls' \in [Pollers -> Poll] /\ polls'[p] = new /\ \A q \in Pollers \ {p} : polls'[q] = polls[q]
  BY <1>2, <1>4, OnePoll
<1>6. QED
  BY <1>3, <1>5

\* The poll after it returned, was refused or died.
LEMMA Ended ==
  ASSUME IndexerTypeOK, NEW p \in Pollers, NEW since \in Nat, NEW upto \in Nat,
         polls' = [polls EXCEPT ![p] = Returned(since, upto)]
  PROVE  /\ polls' \in [Pollers -> Poll] /\ polls'[p].pc = "idle"
         /\ polls'[p].since = since /\ polls'[p].upto = upto
         /\ \A q \in Pollers \ {p} : polls'[q] = polls[q]
<1>1. Returned(since, upto) \in Poll
  BY ReturnedFacts
<1>2. polls' \in [Pollers -> Poll] /\ polls'[p] = Returned(since, upto)
      /\ \A q \in Pollers \ {p} : polls'[q] = polls[q]
  BY <1>1, OnePoll
<1>3. QED
  BY <1>2, ReturnedFacts

\* What Upsert does to the rows.
LEMMA Upserted ==
  ASSUME IndexerTypeOK, NEW hash \in Hash, NEW i \in 0 .. Len(chain), Upsert(hash, i)
  PROVE  /\ Normalise(hash) \in Hash /\ Normalise(hash).spelling = Plain
         /\ Normalise(hash).tx = hash.tx
         /\ DOMAIN rows' = DOMAIN rows \cup {Normalise(hash)}
         /\ rows'[Normalise(hash)] = i
         /\ \A h \in DOMAIN rows : h # Normalise(hash) => rows'[h] = rows[h]
         /\ \A h \in DOMAIN rows' : h.spelling = Plain /\ h \in Hash
         /\ \A h \in DOMAIN rows' : rows'[h] \in 0 .. Len(chain)
<1>1. Normalise(hash) \in Hash /\ Normalise(hash).spelling = Plain /\ Normalise(hash).tx = hash.tx
  BY IndexerAssumption DEF Normalise, Hash
<1> HIDE DEF Normalise
<1>2. QED
  BY <1>1 DEF Upsert, IndexerTypeOK

\* A poll's own hashes are normal already.
LEMMA OwnHash ==
  ASSUME IndexerTypeOK, NEW i \in 1 .. Len(chain)
  PROVE  Normalise(HashOf(i)) = HashOf(i)
BY DEF Normalise, HashOf

\* The chain after a ledger is closed.
LEMMA Closed ==
  ASSUME IndexerTypeOK, NEW batch \in Batches, CloseLedger(batch)
  PROVE  /\ chain' \in Seq(Event)
         /\ Len(chain') \in Nat /\ Len(chain) <= Len(chain')
         /\ \A i \in 1 .. Len(chain) : chain'[i] = chain[i]
         /\ \A i \in 1 .. Len(chain') :
              i > Len(chain) => chain'[i].ledger = head + 1 /\ chain'[i].tx[1] = head + 1
<1> DEFINE E(k) == [ledger |-> head + 1, tx |-> <<head + 1, batch[k].n>>, named |-> batch[k].named]
<1> DEFINE new == [k \in 1 .. Len(batch) |-> E(k)]
<1>1. batch \in Seq([n : Nat, named : BOOLEAN]) /\ Len(batch) \in Nat
  BY IndexerAssumption, LenProperties
<1>2. \A k \in 1 .. Len(batch) : batch[k] \in [n : Nat, named : BOOLEAN]
  BY <1>1, ElementOfSeq
<1>3. \A k \in 1 .. Len(batch) : E(k) \in Event /\ E(k).ledger = head + 1 /\ E(k).tx[1] = head + 1
  BY <1>2 DEF Event, IndexerTypeOK
<1> HIDE DEF E
<1>4. new \in Seq(Event) /\ Len(new) = Len(batch) /\ \A k \in 1 .. Len(batch) : new[k] = E(k)
  BY <1>1, <1>3
<1>5. chain' = chain \o new /\ chain \in Seq(Event)
  BY DEF CloseLedger, IndexerTypeOK, E
<1> HIDE DEF new
<1>6. /\ chain \o new \in Seq(Event) /\ Len(chain \o new) = Len(chain) + Len(new)
      /\ \A i \in 1 .. Len(chain) + Len(new) :
           (chain \o new)[i] = IF i <= Len(chain) THEN chain[i] ELSE new[i - Len(chain)]
  BY <1>4, <1>5, ConcatProperties
<1>7. Len(chain) \in Nat
  BY ChainFacts
<1>8. ASSUME NEW i \in 1 .. Len(chain'), i > Len(chain)
      PROVE  chain'[i].ledger = head + 1 /\ chain'[i].tx[1] = head + 1
  <2>1. i - Len(chain) \in 1 .. Len(batch) /\ chain'[i] = new[i - Len(chain)]
    BY <1>1, <1>4, <1>5, <1>6, <1>7, <1>8
  <2>2. QED
    BY <1>3, <1>4, <2>1
<1>9. QED
  BY <1>1, <1>4, <1>5, <1>6, <1>7, <1>8

-----------------------------------------------------------------------------
(* Types.                                                                   *)

\* The upsert of a turn of the loop is of an event of the chain.
LEMMA TurnWrites ==
  ASSUME IndexerTypeOK, NEW p \in Pollers, PollSound(p), Ingest(p)
  PROVE  /\ polls[p].next \in 1 .. Len(chain) /\ UNCHANGED <<chain, head, faults>>
         /\ DOMAIN rows \subseteq DOMAIN rows'
         /\ \A h \in DOMAIN rows' : h.spelling = Plain /\ h \in Hash
         /\ \A h \in DOMAIN rows' : rows'[h] \in 0 .. Len(chain)
         /\ \A h \in DOMAIN rows' : \/ h \in DOMAIN rows /\ rows'[h] = rows[h]
                                    \/ h = HashOf(polls[p].next) /\ rows'[h] = polls[p].next
         /\ chain[polls[p].next].named =>
              HashOf(polls[p].next) \in DOMAIN rows' /\ rows'[HashOf(polls[p].next)] = polls[p].next
<1> DEFINE k == polls[p].next
<1>1. /\ k \in 1 .. Len(chain) /\ UNCHANGED <<chain, head, faults>>
      /\ IF chain[k].named THEN Upsert(HashOf(k), k) ELSE UNCHANGED rows
  BY PollFacts, ChainFacts DEF Ingest, PollSound
<1> HIDE DEF k
<1>2. CASE UNCHANGED rows /\ ~chain[k].named
  BY <1>1, <1>2 DEF k, IndexerTypeOK
<1>3. CASE Upsert(HashOf(k), k)
  <2>1. HashOf(k) \in Hash /\ k \in 0 .. Len(chain) /\ Normalise(HashOf(k)) = HashOf(k)
    BY <1>1, ChainFacts, OwnHash
  <2>2. /\ DOMAIN rows' = DOMAIN rows \cup {HashOf(k)}
        /\ rows'[HashOf(k)] = k
        /\ \A h \in DOMAIN rows : h # HashOf(k) => rows'[h] = rows[h]
        /\ \A h \in DOMAIN rows' : h.spelling = Plain /\ h \in Hash
        /\ \A h \in DOMAIN rows' : rows'[h] \in 0 .. Len(chain)
    BY <1>3, <2>1, Upserted
  <2>3. QED
    BY <1>1, <2>2 DEF k
<1>4. QED
  BY <1>1, <1>2, <1>3

\* A client's own row: it shows no event of the chain.
LEMMA ClientWrites ==
  ASSUME IndexerTypeOK, NEW tx \in KnownTxs, NEW spelling \in Spellings,
         ClientIngest([tx |-> tx, spelling |-> spelling])
  PROVE  /\ DOMAIN rows \subseteq DOMAIN rows'
         /\ \A h \in DOMAIN rows' : h.spelling = Plain /\ h \in Hash
         /\ \A h \in DOMAIN rows' : rows'[h] \in 0 .. Len(chain)
         /\ \A h \in DOMAIN rows' : \/ h \in DOMAIN rows /\ rows'[h] = rows[h]
                                    \/ rows'[h] = 0
<1> DEFINE hash == [tx |-> tx, spelling |-> spelling]
<1>1. tx \in Nat \X Nat
  BY ChainFacts DEF KnownTxs, Event
<1>2. hash \in Hash
  BY <1>1 DEF Hash
<1>3. Upsert(hash, 0) /\ 0 \in 0 .. Len(chain)
  BY ChainFacts DEF ClientIngest, NoEvent
<1> HIDE DEF hash
<1>4. QED
  BY <1>2, <1>3, Upserted

LEMMA IndexerTypeKept ==
  ASSUME IndexerTypeOK, IndexerInv, [IndexerNext]_indexerVars
  PROVE  IndexerTypeOK'
<1>1. ASSUME NEW p \in Pollers,
             (\E start \in 0 .. MaxLedger : StartPoll(p, start)) \/ GetLatest(p)
      PROVE  IndexerTypeOK'
  <2>1. polls' \in [Pollers -> Poll]
    BY <1>1, StartedAt
  <2>2. UNCHANGED <<chain, head, rows, faults>>
    BY <1>1 DEF StartPoll, GetLatest
  <2>3. QED
    BY <2>1, <2>2 DEF IndexerTypeOK
<1>2. ASSUME NEW p \in Pollers, GetEvents(p)
      PROVE  IndexerTypeOK'
  BY <1>2, PageRead DEF IndexerTypeOK, GetEvents
<1>3. ASSUME NEW p \in Pollers, Ingest(p)
      PROVE  IndexerTypeOK'
  <2>1. polls' \in [Pollers -> Poll] /\ PollSound(p)
    BY <1>3, TurnTaken DEF IndexerInv
  <2>2. /\ UNCHANGED <<chain, head, faults>>
        /\ \A h \in DOMAIN rows' : h.spelling = Plain /\ h \in Hash
        /\ \A h \in DOMAIN rows' : rows'[h] \in 0 .. Len(chain)
    BY <1>3, <2>1, TurnWrites
  <2>3. QED
    BY <2>1, <2>2 DEF IndexerTypeOK
<1>4. ASSUME NEW p \in Pollers, Finish(p) \/ GetEventsRefused(p) \/ Abort(p)
      PROVE  IndexerTypeOK'
  <2>1. PICK since \in Nat, upto \in Nat : polls' = [polls EXCEPT ![p] = Returned(since, upto)]
    <3>1. CASE GetEventsRefused(p) \/ Abort(p)
      BY <3>1, PollFacts DEF GetEventsRefused, Abort
    <3>2. CASE Finish(p)
      <4>1. /\ polls[p].last <= Len(chain) /\ 1 <= polls[p].first
            /\ polls[p].first \in Nat /\ polls[p].last \in Nat /\ Len(chain) \in Nat
        BY <3>2, PollFacts, ChainFacts DEF Finish, IndexerInv, PollSound
      <4>2. polls[p].first <= polls[p].last => chain[polls[p].last].ledger \in Nat
        BY <4>1, ChainFacts
      <4>3. LatestLedger(p) \in Nat
        BY <4>2, PollFacts DEF LatestLedger
      <4>4. QED
        BY <3>2, <4>3, PollFacts DEF Finish
    <3>3. QED
      BY <1>4, <3>1, <3>2
  <2>2. polls' \in [Pollers -> Poll]
    BY <2>1, Ended
  <2>3. UNCHANGED <<chain, head, rows>> /\ faults' \in Nat
    BY <1>4 DEF Finish, GetEventsRefused, Abort, IndexerTypeOK
  <2>4. QED
    BY <2>2, <2>3 DEF IndexerTypeOK
<1>5. ASSUME NEW tx \in KnownTxs, NEW spelling \in Spellings,
             ClientIngest([tx |-> tx, spelling |-> spelling])
      PROVE  IndexerTypeOK'
  <2>1. /\ \A h \in DOMAIN rows' : h.spelling = Plain /\ h \in Hash
        /\ \A h \in DOMAIN rows' : rows'[h] \in 0 .. Len(chain)
    BY <1>5, ClientWrites
  <2>2. UNCHANGED <<chain, head, polls, faults>>
    BY <1>5 DEF ClientIngest
  <2>3. QED
    BY <2>1, <2>2 DEF IndexerTypeOK
<1>6. ASSUME NEW batch \in Batches, CloseLedger(batch)
      PROVE  IndexerTypeOK'
  <2>1. chain' \in Seq(Event) /\ Len(chain') \in Nat /\ Len(chain) <= Len(chain') /\ Len(chain) \in Nat
    BY <1>6, Closed, ChainFacts
  <2>2. UNCHANGED <<rows, polls, faults>> /\ head' \in Nat
    BY <1>6 DEF CloseLedger, IndexerTypeOK
  <2>3. \A h \in DOMAIN rows : rows[h] \in 0 .. Len(chain')
    BY <2>1 DEF IndexerTypeOK
  <2>4. QED
    BY <2>1, <2>2, <2>3 DEF IndexerTypeOK
<1>7. CASE UNCHANGED indexerVars
  BY <1>7 DEF indexerVars, IndexerTypeOK
<1>8. QED
  BY <1>1, <1>2, <1>3, <1>4, <1>5, <1>6, <1>7 DEF IndexerNext

-----------------------------------------------------------------------------
(* The invariant.                                                           *)

\* A poll that a step leaves alone, on a chain that stays, keeps what it knows.
LEMMA PollElsewhere ==
  ASSUME NEW q \in Pollers, PollSound(q), PageWhole(q), polls'[q] = polls[q],
         UNCHANGED <<chain, head>>, DOMAIN rows \subseteq DOMAIN rows'
  PROVE  PollSound(q)' /\ PageWhole(q)'
BY DEF PollSound, PageWhole, At, Mirrored, HashOf

\* A poll outside its loop has only to know that it is not ahead of the chain.
LEMMA PollOutside ==
  ASSUME NEW q \in Pollers, polls'[q].pc # "ingest", polls'[q].upto <= head'
  PROVE  PollSound(q)' /\ PageWhole(q)'
BY DEF PollSound, PageWhole, At

LEMMA OrderKept ==
  ASSUME InOrder, UNCHANGED <<chain, head>>
  PROVE  InOrder'
BY DEF InOrder

\* A page reaches back to the first event that was asked for, and, when it is not full,
\* to the end of the chain.
LEMMA PageSound ==
  ASSUME IndexerTypeOK, IndexerInv, NEW p \in Pollers, GetEvents(p)
  PROVE  PollSound(p)' /\ PageWhole(p)'
<1>1. /\ polls'[p].pc = "ingest" /\ polls'[p].from = polls[p].from
      /\ polls'[p].next = polls'[p].first
      /\ polls'[p].first \in 1 .. Len(chain) + 1 /\ polls'[p].last \in 0 .. Len(chain)
      /\ IsPage(polls[p].from, polls'[p].first, polls'[p].last)
      /\ polls'[p].upto = polls[p].upto
  BY PageRead
<1>2. UNCHANGED <<chain, head, rows>> /\ polls[p].from <= head
  BY DEF GetEvents
<1>3. Len(chain) \in Nat /\ Limit \in Nat \ {0}
  BY ChainFacts, IndexerAssumption
<1>4. polls'[p].first <= polls'[p].last + 1
  BY <1>1, <1>3 DEF IsPage
<1>5. \A i \in 1 .. Len(chain) : chain[i].ledger >= polls[p].from => i >= polls'[p].first
  BY <1>1 DEF IsPage
<1>6. PollSound(p)'
  BY <1>1, <1>2, <1>3, <1>4, <1>5 DEF IndexerInv, PollSound, At
<1>7. Len(chain) <= Limit => polls'[p].last = Len(chain)
  BY <1>1, <1>3 DEF IsPage
<1>8. PageWhole(p)'
  BY <1>1, <1>2, <1>3, <1>7 DEF PageWhole, At
<1>9. QED
  BY <1>6, <1>8

\* One turn of the loop.
LEMMA TurnSound ==
  ASSUME IndexerTypeOK, IndexerInv, NEW p \in Pollers, Ingest(p)
  PROVE  PollSound(p)' /\ PageWhole(p)' /\ DOMAIN rows \subseteq DOMAIN rows'
<1>1. /\ polls'[p].pc = "ingest" /\ polls'[p].next = polls[p].next + 1
      /\ polls'[p].from = polls[p].from /\ polls'[p].first = polls[p].first
      /\ polls'[p].last = polls[p].last /\ polls'[p].upto = polls[p].upto
  BY TurnTaken
<1>2. PollSound(p) /\ PageWhole(p) /\ At(p, "ingest") /\ polls[p].next <= polls[p].last
  BY DEF IndexerInv, Ingest
<1>3. /\ UNCHANGED <<chain, head>> /\ DOMAIN rows \subseteq DOMAIN rows'
      /\ chain[polls[p].next].named => HashOf(polls[p].next) \in DOMAIN rows'
  BY <1>2, TurnWrites
<1>4. polls[p].next \in Nat /\ polls[p].first \in Nat /\ polls[p].last \in Nat
  BY PollFacts
<1>5. ASSUME NEW i \in polls[p].first .. polls[p].next, chain[i].named
      PROVE  HashOf(i) \in DOMAIN rows'
  <2>1. CASE i = polls[p].next
    BY <1>3, <1>5, <2>1
  <2>2. CASE i \in polls[p].first .. polls[p].next - 1
    BY <1>2, <1>3, <1>5, <2>2 DEF PollSound, Mirrored
  <2>3. QED
    BY <1>4, <2>1, <2>2
<1>6. \A i \in polls'[p].first .. polls'[p].next - 1 : chain'[i].named => Mirrored(i)'
  BY <1>1, <1>3, <1>4, <1>5 DEF Mirrored, HashOf
<1>7. PollSound(p)'
  BY <1>1, <1>2, <1>3, <1>4, <1>6 DEF PollSound, At
<1>8. PageWhole(p)'
  BY <1>1, <1>2, <1>3 DEF PageWhole, At
<1>9. QED
  BY <1>3, <1>7, <1>8

\* What a poll answers is not ahead of the chain.
LEMMA LatestBounded ==
  ASSUME IndexerTypeOK, IndexerInv, NEW p \in Pollers, At(p, "ingest")
  PROVE  LatestLedger(p) \in Nat /\ LatestLedger(p) <= head
<1>1. /\ polls[p].last <= Len(chain) /\ 1 <= polls[p].first /\ polls[p].from <= head
      /\ polls[p].first \in Nat /\ polls[p].last \in Nat /\ polls[p].from \in Nat
      /\ Len(chain) \in Nat
  BY PollFacts, ChainFacts DEF IndexerInv, PollSound
<1>2. CASE polls[p].first <= polls[p].last
  <2>1. polls[p].last \in 1 .. Len(chain)
    BY <1>1, <1>2
  <2>2. chain[polls[p].last].ledger \in Nat /\ chain[polls[p].last].ledger <= head
    BY <2>1, ChainFacts DEF IndexerInv, InOrder
  <2>3. QED
    BY <1>2, <2>2 DEF LatestLedger
<1>3. CASE ~(polls[p].first <= polls[p].last)
  BY <1>1, <1>3 DEF LatestLedger
<1>4. QED
  BY <1>2, <1>3

\* A ledger closes: its events come after all that the polls know of.
LEMMA CloseSound ==
  ASSUME IndexerTypeOK, IndexerInv, NEW batch \in Batches, CloseLedger(batch)
  PROVE  IndexerInv'
<1>1. /\ chain' \in Seq(Event)
      /\ Len(chain') \in Nat /\ Len(chain) <= Len(chain') /\ Len(chain) \in Nat
      /\ \A i \in 1 .. Len(chain) : chain'[i] = chain[i] /\ chain[i].ledger \in Nat
      /\ \A i \in 1 .. Len(chain') :
           i > Len(chain) => chain'[i].ledger = head + 1 /\ chain'[i].tx[1] = head + 1
  BY Closed, ChainFacts
<1>2. head' = head + 1 /\ head \in Nat /\ UNCHANGED <<rows, polls>>
  BY DEF CloseLedger, IndexerTypeOK
<1>3. \A i \in 1 .. Len(chain') : i <= Len(chain) => i \in 1 .. Len(chain)
  BY <1>1
<1>4. \A i \in 1 .. Len(chain) : chain[i].ledger <= head /\ chain[i].tx[1] = chain[i].ledger
  BY DEF IndexerInv, InOrder
<1>5. InOrder'
  <2>1. \A i \in 1 .. Len(chain') : chain'[i].ledger <= head' /\ chain'[i].tx[1] = chain'[i].ledger
    BY <1>1, <1>2, <1>3, <1>4
  <2>2. ASSUME NEW i \in 1 .. Len(chain'), NEW j \in 1 .. Len(chain'), i <= j
        PROVE  chain'[i].ledger <= chain'[j].ledger
    <3>1. CASE j <= Len(chain)
      BY <1>1, <1>3, <2>2, <3>1 DEF IndexerInv, InOrder
    <3>2. CASE j > Len(chain)
      BY <1>1, <1>2, <2>1, <3>2
    <3>3. QED
      BY <1>1, <3>1, <3>2
  <2>3. QED
    BY <2>1, <2>2 DEF InOrder
<1>6. ASSUME NEW p \in Pollers
      PROVE  PollSound(p)' /\ PageWhole(p)'
  <2>1. polls'[p] = polls[p] /\ PollSound(p) /\ PageWhole(p)
    BY <1>2 DEF IndexerInv
  <2>2. /\ polls[p].first \in Nat /\ polls[p].last \in Nat /\ polls[p].next \in Nat
        /\ polls[p].upto \in Nat /\ polls[p].from \in Nat
    BY PollFacts
  <2>3. CASE ~At(p, "ingest")
    BY <1>2, <2>1, <2>2, <2>3 DEF PollSound, PageWhole, At
  <2>4. CASE At(p, "ingest")
    <3>1. \A i \in 1 .. polls[p].last : i \in 1 .. Len(chain) /\ chain'[i] = chain[i]
      BY <1>1, <2>1, <2>2, <2>4 DEF PollSound
    <3>2. \A i \in polls[p].first .. polls[p].next - 1 : i \in 1 .. polls[p].last
      BY <2>1, <2>2, <2>4 DEF PollSound
    <3>3. PollSound(p)'
      <4>1. /\ polls[p].upto <= head' /\ polls[p].from <= head' /\ polls[p].last <= Len(chain')
            /\ 1 <= polls[p].first /\ polls[p].first <= polls[p].next
            /\ polls[p].next <= polls[p].last + 1
        BY <1>1, <1>2, <2>1, <2>2, <2>4 DEF PollSound
      <4>2. \A i \in 1 .. polls[p].last :
              chain'[i].ledger >= polls[p].from => i >= polls[p].first
        BY <2>1, <2>4, <3>1 DEF PollSound
      <4>3. \A i \in polls[p].first .. polls[p].next - 1 : chain'[i].named => Mirrored(i)'
        BY <1>2, <2>1, <2>4, <3>1, <3>2 DEF PollSound, Mirrored, HashOf
      <4>4. QED
        BY <2>1, <4>1, <4>2, <4>3 DEF PollSound
    <3>4. ASSUME Len(chain') <= Limit, NEW i \in 1 .. polls[p].last, NEW j \in 1 .. Len(chain'),
                 chain'[i].tx = chain'[j].tx
          PROVE  j <= polls[p].last
      <4>1. Len(chain) <= Limit
        BY <1>1, <3>4, IndexerAssumption
      <4>2. chain'[i].tx[1] <= head
        BY <1>4, <3>1
      <4>3. j <= Len(chain)
        BY <1>1, <1>2, <3>4, <4>2
      <4>4. j \in 1 .. Len(chain) /\ chain[i].tx = chain[j].tx
        BY <1>1, <1>3, <3>1, <3>4, <4>3
      <4>5. QED
        BY <2>1, <2>4, <4>1, <4>4 DEF PageWhole
    <3>5. PageWhole(p)'
      BY <2>1, <3>4 DEF PageWhole
    <3>6. QED
      BY <3>3, <3>5
  <2>5. QED
    BY <2>3, <2>4
<1>7. QED
  BY <1>5, <1>6 DEF IndexerInv

LEMMA IndexerInvKept ==
  ASSUME IndexerTypeOK, IndexerInv, [IndexerNext]_indexerVars
  PROVE  IndexerInv'
<1> DEFINE Kept(q) == PollSound(q)' /\ PageWhole(q)'
<1>1. ASSUME NEW p \in Pollers, Kept(p), UNCHANGED <<chain, head>>,
             DOMAIN rows \subseteq DOMAIN rows', \A q \in Pollers \ {p} : polls'[q] = polls[q]
      PROVE  IndexerInv'
  BY <1>1, PollElsewhere, OrderKept DEF IndexerInv
<1> HIDE DEF Kept
<1>2. ASSUME NEW p \in Pollers,
             (\E start \in 0 .. MaxLedger : StartPoll(p, start)) \/ GetLatest(p)
      PROVE  IndexerInv'
  <2>1. /\ polls'[p].pc # "ingest" /\ polls'[p].upto = polls[p].upto
        /\ \A q \in Pollers \ {p} : polls'[q] = polls[q]
    BY <1>2, StartedAt
  <2>2. UNCHANGED <<chain, head, rows>>
    BY <1>2 DEF StartPoll, GetLatest
  <2>3. Kept(p)
    BY <2>1, <2>2, PollOutside DEF IndexerInv, PollSound, Kept
  <2>4. QED
    BY <1>1, <2>1, <2>2, <2>3
<1>3. ASSUME NEW p \in Pollers, GetEvents(p)
      PROVE  IndexerInv'
  <2>1. Kept(p) /\ \A q \in Pollers \ {p} : polls'[q] = polls[q]
    BY <1>3, PageSound, PageRead DEF Kept
  <2>2. UNCHANGED <<chain, head, rows>>
    BY <1>3 DEF GetEvents
  <2>3. QED
    BY <1>1, <2>1, <2>2
<1>4. ASSUME NEW p \in Pollers, Ingest(p)
      PROVE  IndexerInv'
  <2>1. /\ Kept(p) /\ DOMAIN rows \subseteq DOMAIN rows'
        /\ \A q \in Pollers \ {p} : polls'[q] = polls[q]
    BY <1>4, TurnSound, TurnTaken DEF Kept
  <2>2. UNCHANGED <<chain, head>>
    BY <1>4 DEF Ingest
  <2>3. QED
    BY <1>1, <2>1, <2>2
<1>5. ASSUME NEW p \in Pollers, Finish(p) \/ GetEventsRefused(p) \/ Abort(p)
      PROVE  IndexerInv'
  <2>1. PICK since \in Nat, upto \in Nat :
          upto <= head /\ polls' = [polls EXCEPT ![p] = Returned(since, upto)]
    <3>1. CASE GetEventsRefused(p) \/ Abort(p)
      BY <3>1, PollFacts DEF GetEventsRefused, Abort, IndexerInv, PollSound
    <3>2. CASE Finish(p)
      <4>1. LatestLedger(p) \in Nat /\ LatestLedger(p) <= head
        BY <3>2, LatestBounded DEF Finish
      <4>2. QED
        BY <3>2, <4>1, PollFacts DEF Finish
    <3>3. QED
      BY <1>5, <3>1, <3>2
  <2>2. UNCHANGED <<chain, head, rows>>
    BY <1>5 DEF Finish, GetEventsRefused, Abort
  <2>3. /\ polls'[p].pc # "ingest" /\ polls'[p].upto <= head'
        /\ \A q \in Pollers \ {p} : polls'[q] = polls[q]
    BY <2>1, <2>2, Ended
  <2>4. Kept(p)
    BY <2>3, PollOutside DEF Kept
  <2>5. QED
    BY <1>1, <2>2, <2>3, <2>4
<1>6. ASSUME NEW tx \in KnownTxs, NEW spelling \in Spellings,
             ClientIngest([tx |-> tx, spelling |-> spelling])
      PROVE  IndexerInv'
  <2>1. DOMAIN rows \subseteq DOMAIN rows'
    BY <1>6, ClientWrites
  <2>2. UNCHANGED <<chain, head, polls>>
    BY <1>6 DEF ClientIngest
  <2>3. QED
    BY <2>1, <2>2, PollElsewhere, OrderKept DEF IndexerInv
<1>7. ASSUME NEW batch \in Batches, CloseLedger(batch)
      PROVE  IndexerInv'
  BY <1>7, CloseSound
<1>8. CASE UNCHANGED indexerVars
  BY <1>8, PollElsewhere, OrderKept DEF indexerVars, IndexerInv
<1>9. QED
  BY <1>2, <1>3, <1>4, <1>5, <1>6, <1>7, <1>8 DEF IndexerNext

LEMMA IndexerFirst == IndexerInit => IndexerTypeOK /\ IndexerInv
<1> SUFFICES ASSUME IndexerInit PROVE IndexerTypeOK /\ IndexerInv
  OBVIOUS
<1>1. Returned(0, 0) \in Poll /\ Returned(0, 0).pc = "idle" /\ Returned(0, 0).upto = 0
  BY ReturnedFacts
<1>2. chain = << >> /\ Len(chain) = 0 /\ chain \in Seq(Event) /\ head = 1 /\ DOMAIN rows = {}
  BY EmptySeq DEF IndexerInit
<1>3. \A p \in Pollers : polls[p].pc = "idle" /\ polls[p].upto = 0
  BY <1>1 DEF IndexerInit
<1>4. polls \in [Pollers -> Poll]
  BY <1>1 DEF IndexerInit
<1>5. IndexerTypeOK
  BY <1>2, <1>4 DEF IndexerInit, IndexerTypeOK
<1>6. IndexerInv
  BY <1>2, <1>3 DEF IndexerInv, InOrder, PollSound, PageWhole, At
<1>7. QED
  BY <1>5, <1>6

\* Rows stay, and so does what the events are: what was mirrored stays mirrored.
LEMMA SkippedElsewhere ==
  ASSUME NothingSkipped, UNCHANGED chain, DOMAIN rows \subseteq DOMAIN rows',
         \A p \in Pollers : polls'[p].since = polls[p].since /\ polls'[p].upto = polls[p].upto
  PROVE  NothingSkipped'
BY DEF NothingSkipped, Mirrored, HashOf

\* A poll that returns has gone through the ledgers before the one it answers.
LEMMA FinishSkipsNothing ==
  ASSUME IndexerTypeOK, IndexerInv, NothingSkipped, NEW p \in Pollers, Finish(p)
  PROVE  NothingSkipped'
<1> DEFINE since == IF polls[p].from = polls[p].upto THEN polls[p].since ELSE polls[p].from
<1> DEFINE upto == LatestLedger(p)
<1>1. /\ polls' = [polls EXCEPT ![p] = Returned(since, upto)] /\ UNCHANGED <<chain, rows>>
      /\ At(p, "ingest") /\ polls[p].next > polls[p].last
  BY DEF Finish
<1>2. /\ since \in Nat /\ upto \in Nat
      /\ polls[p].from \in Nat /\ polls[p].first \in Nat /\ polls[p].next \in Nat
      /\ polls[p].last \in Nat /\ polls[p].since \in Nat /\ polls[p].upto \in Nat
      /\ Len(chain) \in Nat /\ \A i \in 1 .. Len(chain) : chain[i].ledger \in Nat
  BY <1>1, PollFacts, ChainFacts, LatestBounded
<1>3. /\ polls'[p].since = since /\ polls'[p].upto = upto
      /\ \A q \in Pollers \ {p} : polls'[q] = polls[q]
  BY <1>1, <1>2, Ended, ZenonT(40)
<1>4. ASSUME NEW i \in 1 .. Len(chain), chain[i].named,
             polls[p].from <= chain[i].ledger, chain[i].ledger < upto
      PROVE  Mirrored(i)
  <2>1. polls[p].first <= polls[p].last /\ upto = chain[polls[p].last].ledger
    BY <1>2, <1>4 DEF LatestLedger
  <2>2. /\ 1 <= polls[p].first /\ polls[p].last <= Len(chain)
        /\ \A k \in 1 .. polls[p].last : chain[k].ledger >= polls[p].from => k >= polls[p].first
        /\ \A k \in polls[p].first .. polls[p].next - 1 : chain[k].named => Mirrored(k)
    BY <1>1 DEF IndexerInv, PollSound
  <2>3. polls[p].last \in 1 .. Len(chain)
    BY <1>2, <2>1, <2>2
  <2>4. i <= polls[p].last
    <3>1. i >= polls[p].last => chain[i].ledger >= chain[polls[p].last].ledger
      BY <1>2, <2>3 DEF IndexerInv, InOrder
    <3>2. QED
      BY <1>2, <1>4, <2>1, <2>3, <3>1
  <2>5. i >= polls[p].first
    BY <1>2, <1>4, <2>2, <2>4
  <2>6. i \in polls[p].first .. polls[p].next - 1
    BY <1>1, <1>2, <2>4, <2>5
  <2>7. QED
    BY <1>4, <2>2, <2>6
<1>5. ASSUME NEW i \in 1 .. Len(chain), chain[i].named,
             since <= chain[i].ledger, chain[i].ledger < upto
      PROVE  Mirrored(i)
  <2>1. CASE polls[p].from <= chain[i].ledger
    BY <1>4, <1>5, <2>1
  <2>2. CASE chain[i].ledger < polls[p].from
    <3>1. polls[p].from = polls[p].upto /\ since = polls[p].since
      BY <1>2, <1>5, <2>2
    <3>2. QED
      BY <1>5, <2>2, <3>1 DEF NothingSkipped
  <2>3. QED
    BY <1>2, <2>1, <2>2
<1> HIDE DEF since, upto
<1>6. ASSUME NEW q \in Pollers, NEW i \in 1 .. Len(chain), chain[i].named,
             polls'[q].since <= chain[i].ledger, chain[i].ledger < polls'[q].upto
      PROVE  Mirrored(i)
  BY <1>3, <1>5, <1>6 DEF NothingSkipped
<1>7. \A i \in 1 .. Len(chain) : chain'[i] = chain[i] /\ (Mirrored(i) => Mirrored(i)')
  BY <1>1 DEF Mirrored, HashOf
<1>8. QED
  BY <1>1, <1>6, <1>7 DEF NothingSkipped

LEMMA NothingSkippedKept ==
  ASSUME IndexerTypeOK, IndexerInv, NothingSkipped, [IndexerNext]_indexerVars
  PROVE  NothingSkipped'
<1>1. ASSUME NEW p \in Pollers,
             (\E start \in 0 .. MaxLedger : StartPoll(p, start)) \/ GetLatest(p)
      PROVE  NothingSkipped'
  <2>1. UNCHANGED <<chain, rows>>
    BY <1>1 DEF StartPoll, GetLatest
  <2>2. QED
    BY <1>1, <2>1, StartedAt, SkippedElsewhere
<1>2. ASSUME NEW p \in Pollers, GetEvents(p)
      PROVE  NothingSkipped'
  <2>1. UNCHANGED <<chain, rows>>
    BY <1>2 DEF GetEvents
  <2>2. QED
    BY <1>2, <2>1, PageRead, SkippedElsewhere
<1>3. ASSUME NEW p \in Pollers, Ingest(p)
      PROVE  NothingSkipped'
  <2>1. UNCHANGED chain /\ DOMAIN rows \subseteq DOMAIN rows'
    BY <1>3, TurnSound DEF Ingest
  <2>2. QED
    BY <1>3, <2>1, TurnTaken, SkippedElsewhere
<1>4. ASSUME NEW p \in Pollers, GetEventsRefused(p) \/ Abort(p)
      PROVE  NothingSkipped'
  <2>1. /\ UNCHANGED <<chain, rows>>
        /\ polls' = [polls EXCEPT ![p] = Returned(polls[p].since, polls[p].upto)]
    BY <1>4 DEF GetEventsRefused, Abort
  <2>2. \A q \in Pollers : polls'[q].since = polls[q].since /\ polls'[q].upto = polls[q].upto
    BY <2>1, PollFacts, Ended
  <2>3. QED
    BY <2>1, <2>2, SkippedElsewhere
<1>5. ASSUME NEW p \in Pollers, Finish(p)
      PROVE  NothingSkipped'
  BY <1>5, FinishSkipsNothing
<1>6. ASSUME NEW tx \in KnownTxs, NEW spelling \in Spellings,
             ClientIngest([tx |-> tx, spelling |-> spelling])
      PROVE  NothingSkipped'
  <2>1. DOMAIN rows \subseteq DOMAIN rows'
    BY <1>6, ClientWrites
  <2>2. UNCHANGED <<chain, polls>>
    BY <1>6 DEF ClientIngest
  <2>3. QED
    BY <2>1, <2>2, SkippedElsewhere
<1>7. ASSUME NEW batch \in Batches, CloseLedger(batch)
      PROVE  NothingSkipped'
  <2>1. /\ Len(chain') \in Nat /\ Len(chain) <= Len(chain') /\ Len(chain) \in Nat
        /\ \A i \in 1 .. Len(chain) : chain'[i] = chain[i]
        /\ \A i \in 1 .. Len(chain') : i > Len(chain) => chain'[i].ledger = head + 1
    BY <1>7, Closed, ChainFacts
  <2>2. UNCHANGED <<rows, polls>> /\ head \in Nat
    BY <1>7 DEF CloseLedger, IndexerTypeOK
  <2>3. ASSUME NEW p \in Pollers, NEW i \in 1 .. Len(chain'), chain'[i].named,
               polls[p].since <= chain'[i].ledger, chain'[i].ledger < polls[p].upto
        PROVE  Mirrored(i)'
    <3>1. polls[p].upto <= head /\ polls[p].upto \in Nat
      BY PollFacts DEF IndexerInv, PollSound
    <3>2. i \in 1 .. Len(chain)
      BY <2>1, <2>2, <2>3, <3>1
    <3>3. Mirrored(i)
      BY <2>1, <2>3, <3>2 DEF NothingSkipped
    <3>4. QED
      BY <2>1, <2>2, <3>2, <3>3 DEF Mirrored, HashOf
  <2>4. QED
    BY <2>2, <2>3 DEF NothingSkipped
<1>8. CASE UNCHANGED indexerVars
  BY <1>8, SkippedElsewhere DEF indexerVars
<1>9. QED
  BY <1>1, <1>2, <1>3, <1>4, <1>5, <1>6, <1>7, <1>8 DEF IndexerNext

\* The rows, their keys, the chain and the polls keep their types in every behaviour.
THEOREM IndexerTyped == IndexerSpec => []IndexerTypeOK
BY IndexerFirst, IndexerTypeKept, IndexerInvKept, PTL DEF IndexerSpec

\* A client that goes on from each latestLedger it was given misses no readable event,
\* for any page size, any overlap of polls and any failures.
THEOREM IndexerSkipsNothing == IndexerSpec => []NothingSkipped
<1>1. IndexerInit => NothingSkipped
  BY EmptySeq DEF IndexerInit, NothingSkipped
<1>2. QED
  BY <1>1, IndexerFirst, IndexerTypeKept, IndexerInvKept, NothingSkippedKept, PTL DEF IndexerSpec

-----------------------------------------------------------------------------
(* Rows that show an event which its transaction has outlived.             *)

\* The row of a transaction shows event i, and j came after it.
Behind(i, j) ==
  /\ i < j /\ chain[i].tx = chain[j].tx /\ chain[j].named
  /\ Mirrored(i) /\ rows[HashOf(i)] = i

Coming(p, j) == At(p, "ingest") /\ polls[p].next <= j /\ j <= polls[p].last

\* A step that shows no event anew and takes none from a poll.
LEMMA HiddenElsewhere ==
  ASSUME NothingHidden, UNCHANGED <<chain, faults>>,
         \A h \in DOMAIN rows' : (h \in DOMAIN rows /\ rows'[h] = rows[h]) \/ rows'[h] = 0,
         \A p \in Pollers, j \in 1 .. Len(chain) : Coming(p, j) => Coming(p, j)'
  PROVE  NothingHidden'
<1> SUFFICES ASSUME faults = 0, Len(chain) <= Limit,
                    NEW i \in 1 .. Len(chain), NEW j \in 1 .. Len(chain), Behind(i, j)'
             PROVE  \E p \in Pollers : Coming(p, j)'
  BY DEF NothingHidden, Behind, Coming
<1>1. Behind(i, j)
  BY DEF Behind, Mirrored, HashOf
<1>2. PICK p \in Pollers : Coming(p, j)
  BY <1>1 DEF NothingHidden, Behind, Coming
<1>3. QED
  BY <1>2

\* A poll that a step moves had no event to come, or has it still.
LEMMA HiddenByOthers ==
  ASSUME IndexerTypeOK, NothingHidden, NEW p \in Pollers, UNCHANGED <<chain, rows, faults>>,
         \A q \in Pollers \ {p} : polls'[q] = polls[q],
         ~At(p, "ingest") \/ polls[p].next > polls[p].last
  PROVE  NothingHidden'
<1>1. \A j \in 1 .. Len(chain) : ~Coming(p, j)
  BY PollFacts, ChainFacts DEF Coming
<1>2. \A q \in Pollers, j \in 1 .. Len(chain) : Coming(q, j) => Coming(q, j)'
  BY <1>1 DEF Coming, At
<1>3. QED
  BY <1>2, HiddenElsewhere

\* One turn of a loop: if it shows an earlier event, its own page brings the later one.
LEMMA TurnHidesNothing ==
  ASSUME IndexerTypeOK, IndexerInv, NothingHidden, NEW p \in Pollers, Ingest(p)
  PROVE  NothingHidden'
<1> DEFINE k == polls[p].next
<1>1. /\ k \in 1 .. Len(chain) /\ UNCHANGED <<chain, head, faults>>
      /\ \A h \in DOMAIN rows' : \/ h \in DOMAIN rows /\ rows'[h] = rows[h]
                                 \/ h = HashOf(k) /\ rows'[h] = k
      /\ chain[k].named => HashOf(k) \in DOMAIN rows' /\ rows'[HashOf(k)] = k
  BY TurnWrites DEF IndexerInv
<1>2. /\ polls'[p].pc = "ingest" /\ polls'[p].next = k + 1 /\ polls'[p].last = polls[p].last
      /\ \A q \in Pollers \ {p} : polls'[q] = polls[q]
  BY TurnTaken
<1>3. k \in Nat /\ polls[p].last \in Nat /\ Len(chain) \in Nat /\ k <= polls[p].last /\ At(p, "ingest")
  BY PollFacts, ChainFacts DEF Ingest
<1> HIDE DEF k
<1> SUFFICES ASSUME faults = 0, Len(chain) <= Limit,
                    NEW i \in 1 .. Len(chain), NEW j \in 1 .. Len(chain), Behind(i, j)'
             PROVE  \E q \in Pollers : Coming(q, j)'
  BY <1>1 DEF NothingHidden, Behind, Coming
<1>4. /\ i < j /\ chain[i].tx = chain[j].tx /\ chain[j].named
      /\ HashOf(i) \in DOMAIN rows' /\ rows'[HashOf(i)] = i /\ HashOf(i) = HashOf(j)
  BY <1>1 DEF Behind, Mirrored, HashOf
<1>5. CASE i = k
  <2>1. PageWhole(p)
    BY DEF IndexerInv
  <2>2. j <= polls[p].last
    BY <1>3, <1>4, <1>5, <2>1 DEF PageWhole
  <2>3. Coming(p, j)'
    BY <1>2, <1>3, <1>4, <1>5, <2>2 DEF Coming, At
  <2>4. QED
    BY <2>3
<1>6. CASE i # k
  <2>1. HashOf(i) \in DOMAIN rows /\ rows[HashOf(i)] = i
    BY <1>1, <1>4, <1>6
  <2>2. Behind(i, j)
    BY <1>4, <2>1 DEF Behind, Mirrored
  <2>3. PICK q \in Pollers : Coming(q, j)
    BY <2>2 DEF NothingHidden, Behind, Coming
  <2>4. j # k
    BY <1>1, <1>4, <1>6
  <2>5. Coming(q, j)'
    <3>1. CASE q = p
      BY <1>2, <1>3, <2>3, <2>4, <3>1 DEF Coming, At, k
    <3>2. CASE q # p
      BY <1>2, <2>3, <3>2 DEF Coming, At
    <3>3. QED
      BY <3>1, <3>2
  <2>6. QED
    BY <2>5
<1>7. QED
  BY <1>5, <1>6

LEMMA NothingHiddenKept ==
  ASSUME IndexerTypeOK, IndexerInv, NothingHidden, [IndexerNext]_indexerVars
  PROVE  NothingHidden'
<1>1. ASSUME NEW p \in Pollers,
             (\E start \in 0 .. MaxLedger : StartPoll(p, start)) \/ GetLatest(p)
      PROVE  NothingHidden'
  <2>1. UNCHANGED <<chain, rows, faults>> /\ ~At(p, "ingest")
    BY <1>1 DEF StartPoll, GetLatest, At
  <2>2. QED
    BY <1>1, <2>1, StartedAt, HiddenByOthers
<1>2. ASSUME NEW p \in Pollers, GetEvents(p)
      PROVE  NothingHidden'
  <2>1. UNCHANGED <<chain, rows, faults>> /\ ~At(p, "ingest")
    BY <1>2 DEF GetEvents, At
  <2>2. QED
    BY <1>2, <2>1, PageRead, HiddenByOthers
<1>3. ASSUME NEW p \in Pollers, Ingest(p)
      PROVE  NothingHidden'
  BY <1>3, TurnHidesNothing
<1>4. ASSUME NEW p \in Pollers, GetEventsRefused(p) \/ Finish(p)
      PROVE  NothingHidden'
  <2>1. /\ UNCHANGED <<chain, rows, faults>>
        /\ ~At(p, "ingest") \/ polls[p].next > polls[p].last
    BY <1>4 DEF GetEventsRefused, Finish, At
  <2>2. PICK since \in Nat, upto \in Nat : polls' = [polls EXCEPT ![p] = Returned(since, upto)]
    <3>1. CASE GetEventsRefused(p)
      BY <3>1, PollFacts DEF GetEventsRefused
    <3>2. CASE Finish(p)
      BY <3>2, PollFacts, LatestBounded DEF Finish
    <3>3. QED
      BY <1>4, <3>1, <3>2
  <2>3. QED
    BY <2>1, <2>2, Ended, HiddenByOthers
<1>5. ASSUME NEW p \in Pollers, Abort(p)
      PROVE  NothingHidden'
  BY <1>5 DEF Abort, NothingHidden, IndexerTypeOK
<1>6. ASSUME NEW tx \in KnownTxs, NEW spelling \in Spellings,
             ClientIngest([tx |-> tx, spelling |-> spelling])
      PROVE  NothingHidden'
  <2>1. \A h \in DOMAIN rows' : (h \in DOMAIN rows /\ rows'[h] = rows[h]) \/ rows'[h] = 0
    BY <1>6, ClientWrites
  <2>2. UNCHANGED <<chain, polls, faults>>
    BY <1>6 DEF ClientIngest
  <2>3. QED
    BY <2>1, <2>2, HiddenElsewhere DEF Coming, At
<1>7. ASSUME NEW batch \in Batches, CloseLedger(batch)
      PROVE  NothingHidden'
  <2>1. /\ Len(chain') \in Nat /\ Len(chain) <= Len(chain') /\ Len(chain) \in Nat
        /\ \A i \in 1 .. Len(chain) : chain'[i] = chain[i]
        /\ \A i \in 1 .. Len(chain') : i > Len(chain) => chain'[i].tx[1] = head + 1
    BY <1>7, Closed, ChainFacts
  <2>2. UNCHANGED <<rows, polls, faults>> /\ head \in Nat
    BY <1>7 DEF CloseLedger, IndexerTypeOK
  <2>3. SUFFICES ASSUME faults = 0, Len(chain') <= Limit,
                        NEW i \in 1 .. Len(chain'), NEW j \in 1 .. Len(chain'), Behind(i, j)'
                 PROVE  \E p \in Pollers : Coming(p, j)'
    BY <2>2 DEF NothingHidden, Behind, Coming
  <2>4. i <= Len(chain)
    BY <2>1, <2>2, <2>3 DEF Behind, Mirrored, IndexerTypeOK
  <2>5. i \in 1 .. Len(chain) /\ chain'[i] = chain[i] /\ chain[i].tx[1] <= head
    BY <2>1, <2>4 DEF IndexerInv, InOrder
  <2>6. j \in 1 .. Len(chain) /\ chain'[j] = chain[j]
    BY <2>1, <2>2, <2>3, <2>5 DEF Behind
  <2>7. Behind(i, j)
    BY <2>2, <2>3, <2>5, <2>6 DEF Behind, Mirrored, HashOf
  <2>8. Len(chain) <= Limit
    BY <2>1, <2>3, IndexerAssumption
  <2>9. PICK p \in Pollers : Coming(p, j)
    BY <2>3, <2>5, <2>6, <2>7, <2>8 DEF NothingHidden, Behind, Coming
  <2>10. QED
    BY <2>2, <2>9 DEF Coming, At
<1>8. CASE UNCHANGED indexerVars
  BY <1>8, HiddenElsewhere DEF indexerVars, Coming, At
<1>9. QED
  BY <1>1, <1>2, <1>3, <1>4, <1>5, <1>6, <1>7, <1>8 DEF IndexerNext

\* While nothing fails and no page is full, a row that shows an earlier event of its
\* transaction is about to be brought up to date, however polls overlap.
THEOREM IndexerHidesNothing == IndexerSpec => []NothingHidden
<1>1. IndexerInit => NothingHidden
  BY EmptySeq DEF IndexerInit, NothingHidden
<1>2. QED
  BY <1>1, IndexerFirst, IndexerTypeKept, IndexerInvKept, NothingHiddenKept, PTL DEF IndexerSpec
=============================================================================
