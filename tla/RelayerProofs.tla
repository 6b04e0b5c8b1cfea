--------------------------- MODULE RelayerProofs ----------------------------
(***************************************************************************)
(* Proofs about the relayer's object (MCServices), for any number of       *)
(* requests, operations, faults and ticks.                                 *)
(*                                                                         *)
(* The inductive invariant is RelayerInv.  A transaction that can still    *)
(* take effect, or has, is the one its record stands for (SoleHolds): the  *)
(* lock in memory, the nonce the chain has passed and the block hash that  *)
(* is too old are each what lets a handler sign again.                     *)
(***************************************************************************)
EXTENDS MCServices, FiniteSetTheorems, TLAPS

Whos == Identities \cup {0, 1}

TxRecords ==
    [state : {"none", "BROADCAST", "SUCCESS", "FAILED", "STUCK"}, n : Nat, to : Whos, age : Nat,
     bytes : BOOLEAN, value : {"none", "ok", "empty"}]

Results == {"ok", "failed", "empty"}

BookStates ==
    {"none", "new", "ready", "open", "reserved", "paid", "signing", "relaying", "submitted",
     "failed", "submitting", "listed"}

HandlerRecords ==
    [pc : {"idle", "begin", "next", "advance", "relay", "ended", "submit", "sign", "poll",
           "reconcile", "recover", "after"},
     who : Whos, key : Keys, rec : TxRecords,
     out : {"none", "not_found", "unknown"} \cup Results, polls : Nat, again : BOOLEAN, fresh : BOOLEAN]

Books == [state : BookStates, who : Whos, retry : BOOLEAN, token : BOOLEAN]

RelayerTypes ==
    /\ kind \in Operations
    /\ book \in Books
    /\ tx \in [Keys -> TxRecords]
    /\ signed \subseteq [key : Keys \cup {"other"}, n : Nat]
    /\ mempool \subseteq signed /\ stale \subseteq signed
    /\ landed \subseteq [key : Keys \cup {"other"}, n : Nat, res : Results]
    /\ worker \in [Threads -> HandlerRecords]
    /\ held \in Threads \cup {Free}
    /\ lastNonce \in Nat /\ keyNonce \in Nat
    /\ listedBy \in BOOLEAN

\* Who signs or recovers holds the lock.
LockHolds == \A h \in Threads : worker[h].pc \in {"sign", "recover"} => held = h

\* Every nonce handed out is at most the stored one.
NoncesGiven ==
    /\ \A t \in signed : t.n <= lastNonce
    /\ RelayerNonces

\* What landed was signed, has a nonce the chain has passed, and landed once; what is too old
\* is not in the network.
ChainHolds ==
    /\ mempool \cap stale = {}
    /\ \A l \in landed : [key |-> l.key, n |-> l.n] \in signed /\ l.n <= keyNonce
    /\ \A l, m \in landed : l.n = m.n => l = m
    /\ \A l \in landed : l.res = "empty" => l.key \in {"sign", "ckd"}

\* The transactions of a key that can still land, or have taken effect.
CanLand(t) == t.n > keyNonce /\ t \notin stale
Done(t) == [key |-> t.key, n |-> t.n, res |-> "ok"] \in landed
Ahead(k) == {t \in signed : t.key = k /\ (CanLand(t) \/ Done(t))}

\* They are the one the record stands for; none, if the record is free to be signed.
Sole == {"invite", "fund", "usdc", "device"}
SoleHolds ==
    \A k \in Sole :
        /\ Ahead(k) \subseteq {tx_of(k, tx[k])}
        /\ tx[k].state \in {"none", "FAILED"} => Ahead(k) = {}
        /\ \A h \in Threads : worker[h].pc = "sign" /\ worker[h].key = k => Ahead(k) = {}

\* What a handler has read of the chain, the chain has shown; the record it recovers is the stored one.
Rewritten == {"ckd", "sign"}
ReadHolds ==
    /\ \A k \in Keys : tx[k].state = "BROADCAST" => tx_of(k, tx[k]) \in signed
    /\ \A h \in Threads :
         LET w == worker[h]
         IN  /\ w.pc = "reconcile" /\ w.out \in Results =>
                   [key |-> w.key, n |-> w.rec.n, res |-> w.out] \in landed
             /\ w.pc = "recover" =>
                   /\ tx_of(w.key, w.rec) \in signed
                   /\ w.key \notin Rewritten => tx[w.key].n = w.rec.n /\ tx[w.key].state = "BROADCAST"

\* A success that is reported is an effect on the chain.
DoneHolds ==
    /\ \A k \in Keys \ Rewritten : tx[k].state = "SUCCESS" => effectDone(k)
    /\ \A h \in Threads : worker[h].key \notin Rewritten /\ worker[h].rec.state = "SUCCESS" =>
                              effectDone(worker[h].key)

\* A behaviour follows one operation: its keys, its steps, its record.
KeysOf ==
    [account |-> {"fund", "usdc"}, ckd |-> {"ckd"}, invite |-> {"invite"},
     purchase |-> {"sign", "relay"}, device |-> {"device"}]
BooksOf ==
    [account |-> {"none", "new", "ready"}, ckd |-> {"none"}, invite |-> {"open", "reserved", "paid"},
     purchase |-> {"none", "signing", "relaying", "submitted", "failed"},
     device |-> {"none", "submitting", "submitted", "failed", "listed"}]
KindHolds ==
    /\ book.state \in BooksOf[kind.kind]
    /\ \A h \in Threads :
         /\ worker[h].pc \in {"submit", "sign", "poll", "reconcile", "recover", "after"} =>
                worker[h].key \in KeysOf[kind.kind]
         /\ worker[h].pc \in {"advance", "relay"} => kind.kind = "purchase"
         /\ worker[h].pc = "next" => kind.kind = "account"

RelayerInv ==
    /\ RelayerTypes /\ LockHolds /\ NoncesGiven /\ ChainHolds /\ SoleHolds /\ ReadHolds /\ DoneHolds
    /\ KindHolds /\ ReportedOnChain

-----------------------------------------------------------------------------
(* A quiet step signs nothing and lets nothing land: it moves handlers, settles records of which it *)
(* knows the end, and sends again what was signed.                                                  *)

\* How the record of a key may move.
Moves(k) ==
    \/ tx'[k].n = tx[k].n /\ tx'[k].state = tx[k].state
    \/ k \in Rewritten /\ tx'[k].state # "BROADCAST"
    \/ k = "invite" /\ tx[k].state = "FAILED" /\ tx'[k] = NoTx
    \/ /\ tx'[k].n = tx[k].n /\ tx'[k].state \in {"SUCCESS", "FAILED", "STUCK"}
       /\ tx'[k].state = "SUCCESS" => effectDone(k)
       /\ tx'[k].state = "FAILED" /\ k \in Sole => Ahead(k) = {}
       /\ \A g \in Threads : worker'[g].pc = "recover" => worker'[g].key # k

\* What a handler that moves must know.
Knows(w) ==
    /\ w.pc = "sign" /\ w.key \in Sole => Ahead(w.key) = {}
    /\ w.pc = "reconcile" /\ w.out \in Results => [key |-> w.key, n |-> w.rec.n, res |-> w.out] \in landed
    /\ w.pc = "recover" =>
          /\ tx_of(w.key, w.rec) \in signed
          /\ w.key \notin Rewritten => tx'[w.key].n = w.rec.n /\ tx'[w.key].state = "BROADCAST"
    /\ w.key \notin Rewritten /\ w.rec.state = "SUCCESS" => effectDone(w.key)
    /\ w.pc \in {"submit", "sign", "poll", "reconcile", "recover", "after"} => w.key \in KeysOf[kind.kind]
    /\ w.pc \in {"advance", "relay"} => kind.kind = "purchase"
    /\ w.pc = "next" => kind.kind = "account"

\* What a record that moves must say.
Says(b) ==
    /\ b.state \in BooksOf[kind.kind]
    /\ b.state = "paid" => effectDone("invite")
    /\ b.state = "ready" => effectDone("fund") /\ effectDone("usdc")
    /\ kind.kind = "purchase" /\ b.state = "submitted" => effectDone("relay")
    /\ b.state = "listed" \/ (kind.kind = "device" /\ b.state = "submitted") => effectDone("device")

Quiet ==
    /\ UNCHANGED <<kind, signed, lastNonce, keyNonce, stale, landed, listedBy>>
    /\ mempool' \subseteq mempool \cup (signed \ stale)
    /\ book' \in Books /\ (book' = book \/ Says(book'))
    /\ tx' \in [Keys -> TxRecords] /\ (tx' = tx \/ \A k \in Keys : Moves(k))
    /\ worker' \in [Threads -> HandlerRecords]
    /\ \A h \in Threads : worker'[h] = worker[h] \/ Knows(worker'[h])
    /\ held' \in Threads \cup {Free} /\ LockHolds'

\* Quiet steps keep the invariant.
LEMMA QuietKeeps ==
    ASSUME RelayerInv, Quiet
    PROVE  RelayerInv'
  <1>1. \A k : Ahead(k)' = Ahead(k) /\ effectDone(k)' = effectDone(k)
    BY DEF Quiet, Ahead, CanLand, Done, effectDone
  <1>2. \A k \in Keys : Moves(k)
    BY DEF Quiet, Moves, RelayerInv, RelayerTypes
  <1>3. RelayerTypes'
    BY DEF RelayerInv, RelayerTypes, Quiet
  <1>4. NoncesGiven' /\ ChainHolds'
    BY DEF RelayerInv, NoncesGiven, ChainHolds, RelayerNonces, Quiet
  <1>5. SoleHolds'
    <2>1. ASSUME NEW k \in Sole
          PROVE  Ahead(k) \subseteq {tx_of(k, tx'[k])} /\ (tx'[k].state \in {"none", "FAILED"} => Ahead(k) = {})
      <3>1. k \in Keys /\ k \notin Rewritten
        BY DEF Sole, Keys, Rewritten
      <3>2. Moves(k)
        BY <1>2, <3>1
      <3>3. /\ Ahead(k) \subseteq {tx_of(k, tx[k])}
            /\ tx[k].state \in {"none", "FAILED"} => Ahead(k) = {}
        BY DEF RelayerInv, SoleHolds
      <3>4. CASE tx'[k].n = tx[k].n /\ tx'[k].state = tx[k].state
        BY <3>3, <3>4 DEF tx_of
      <3>5. CASE tx[k].state = "FAILED"
        BY <3>3, <3>5
      <3>6. CASE /\ tx'[k].n = tx[k].n /\ tx'[k].state \in {"SUCCESS", "FAILED", "STUCK"}
                 /\ tx'[k].state = "FAILED" => Ahead(k) = {}
        BY <3>3, <3>6 DEF tx_of
      <3>. QED BY <3>1, <3>2, <3>4, <3>5, <3>6 DEF Moves
    <2>2. ASSUME NEW k \in Sole, NEW h \in Threads, worker'[h].pc = "sign", worker'[h].key = k
          PROVE  Ahead(k) = {}
      BY <2>2 DEF RelayerInv, SoleHolds, Quiet, Knows
    <2>. QED BY <1>1, <2>1, <2>2 DEF SoleHolds, tx_of
  <1>6. ReadHolds'
    <2>1. ASSUME NEW k \in Keys, tx'[k].state = "BROADCAST"
          PROVE  tx_of(k, tx'[k]) \in signed
      <3>1. tx'[k].n = tx[k].n /\ tx[k].state = "BROADCAST"
        BY <1>2, <2>1 DEF Moves, NoTx
      <3>. QED BY <3>1 DEF RelayerInv, ReadHolds, tx_of
    <2>2. ASSUME NEW h \in Threads, worker'[h].pc = "reconcile", worker'[h].out \in Results
          PROVE  [key |-> worker'[h].key, n |-> worker'[h].rec.n, res |-> worker'[h].out] \in landed
      BY <2>2 DEF RelayerInv, ReadHolds, Quiet, Knows
    <2>3. ASSUME NEW h \in Threads, worker'[h].pc = "recover"
          PROVE  /\ tx_of(worker'[h].key, worker'[h].rec) \in signed
                 /\ worker'[h].key \notin Rewritten =>
                      tx'[worker'[h].key].n = worker'[h].rec.n /\ tx'[worker'[h].key].state = "BROADCAST"
      <3>1. CASE Knows(worker'[h])
        BY <2>3, <3>1 DEF Knows
      <3>2. CASE worker'[h] = worker[h]
        <4>1. /\ tx_of(worker[h].key, worker[h].rec) \in signed
              /\ worker[h].key \notin Rewritten =>
                   tx[worker[h].key].n = worker[h].rec.n /\ tx[worker[h].key].state = "BROADCAST"
          BY <2>3, <3>2 DEF RelayerInv, ReadHolds
        <4>2. worker[h].key \in Keys
          BY DEF RelayerInv, RelayerTypes, HandlerRecords
        <4>3. Moves(worker[h].key)
          BY <1>2, <4>2
        <4>. QED BY <2>3, <3>2, <4>1, <4>3 DEF Moves
      <3>. QED BY <3>1, <3>2 DEF Quiet
    <2>. QED BY <2>1, <2>2, <2>3 DEF ReadHolds, Quiet, tx_of
  <1>7. DoneHolds'
    <2>1. ASSUME NEW k \in Keys \ Rewritten, tx'[k].state = "SUCCESS"
          PROVE  effectDone(k)
      BY <1>2, <2>1 DEF Moves, NoTx, RelayerInv, DoneHolds
    <2>2. ASSUME NEW h \in Threads, worker'[h].key \notin Rewritten, worker'[h].rec.state = "SUCCESS"
          PROVE  effectDone(worker'[h].key)
      BY <2>2 DEF RelayerInv, DoneHolds, Quiet, Knows
    <2>. QED BY <1>1, <2>1, <2>2 DEF DoneHolds
  <1>8. KindHolds'
    <2>1. book'.state \in BooksOf[kind'.kind]
      BY DEF RelayerInv, KindHolds, Quiet, Says
    <2>2. ASSUME NEW h \in Threads
          PROVE  /\ worker'[h].pc \in {"submit", "sign", "poll", "reconcile", "recover", "after"} =>
                        worker'[h].key \in KeysOf[kind'.kind]
                 /\ worker'[h].pc \in {"advance", "relay"} => kind'.kind = "purchase"
                 /\ worker'[h].pc = "next" => kind'.kind = "account"
      BY DEF RelayerInv, KindHolds, Quiet, Knows
    <2>. QED BY <2>1, <2>2 DEF KindHolds
  <1>9. ReportedOnChain'
    BY <1>1 DEF RelayerInv, ReportedOnChain, Quiet, Says
  <1>. QED BY <1>3, <1>4, <1>5, <1>6, <1>7, <1>8, <1>9 DEF RelayerInv, Quiet

-----------------------------------------------------------------------------
(* Handlers, records and operations as the proofs use them. *)

\* The lock is free or held by a thread.
LEMMA ThreadNumbers == Threads \subseteq Nat /\ Free \notin Threads
  BY RelayerAssumption DEF Threads, Free

\* One of five operations.
LEMMA KindCases ==
    RelayerTypes => kind.kind \in {"account", "ckd", "invite", "purchase", "device"}
  BY RelayerAssumption DEF RelayerTypes

\* The empty record and the unused handler are records and handlers.
LEMMA NothingYet ==
    /\ NoTx \in TxRecords /\ NoTx.state = "none"
    /\ Unused \in HandlerRecords /\ Unused.rec = NoTx /\ Unused.key = "fund" /\ Unused.pc = "idle"
  BY DEF NoTx, TxRecords, Unused, HandlerRecords, Whos, Keys

\* A record says what the invariant says of it.
LEMMA BookSays == RelayerInv => Says(book)
  BY DEF RelayerInv, KindHolds, ReportedOnChain, Says

\* A handler that moves to a step of its operation has forgotten what it read.
LEMMA GotoMoves ==
    ASSUME RelayerTypes, NEW h \in Threads, NEW pc \in {"idle", "begin", "next", "advance", "relay", "ended"},
           Goto(h, pc)
    PROVE  /\ worker' \in [Threads -> HandlerRecords]
           /\ worker'[h].pc = pc /\ worker'[h].rec = NoTx
           /\ \A g \in Threads : g # h => worker'[g] = worker[g]
  <1>1. [Unused EXCEPT !.pc = pc, !.who = worker[h].who] \in HandlerRecords
    BY NothingYet DEF RelayerTypes, HandlerRecords
  <1>. QED BY <1>1 DEF Goto, RelayerTypes, Unused

\* The same for a request that ends.
LEMMA EndMoves ==
    ASSUME RelayerTypes, NEW h \in Threads, End(h)
    PROVE  /\ worker' \in [Threads -> HandlerRecords]
           /\ worker'[h].pc = "idle" /\ worker'[h].rec = NoTx
           /\ \A g \in Threads : g # h => worker'[g] = worker[g]
  BY NothingYet DEF End, RelayerTypes

\* And for one that submits a transaction.
LEMMA SubmitsMoves ==
    ASSUME RelayerTypes, NEW h \in Threads, NEW k \in Keys, NEW who \in Whos, Submits(h, k, who)
    PROVE  /\ worker' \in [Threads -> HandlerRecords]
           /\ worker'[h].pc = "submit" /\ worker'[h].rec = NoTx /\ worker'[h].key = k
           /\ \A g \in Threads : g # h => worker'[g] = worker[g]
  <1>1. [Unused EXCEPT !.pc = "submit", !.key = k, !.who = who] \in HandlerRecords
    BY NothingYet DEF HandlerRecords
  <1>. QED BY <1>1 DEF Submits, RelayerTypes, Unused

\* What a handler that has forgotten what it read must know.
LEMMA KnowsLittle ==
    ASSUME NEW w \in HandlerRecords, w.rec = NoTx,
           \/ w.pc \in {"idle", "begin", "ended"}
           \/ w.pc \in {"advance", "relay"} /\ kind.kind = "purchase"
           \/ w.pc = "next" /\ kind.kind = "account"
           \/ w.pc = "submit" /\ w.key \in KeysOf[kind.kind]
    PROVE  Knows(w)
  BY NothingYet DEF Knows

\* A handler moves between two awaits without the lock.
LEMMA CalmStep ==
    ASSUME RelayerInv, NEW h \in Threads, UNCHANGED <<kind, signed, lastNonce, held, chain>>,
           worker' \in [Threads -> HandlerRecords], worker'[h].pc \notin {"sign", "recover"},
           \A g \in Threads : g # h => worker'[g] = worker[g], Knows(worker'[h]),
           book' \in Books, Says(book'),
           tx' \in [Keys -> TxRecords], tx' = tx \/ \A k \in Keys : Moves(k)
    PROVE  Quiet
  <1>1. LockHolds' /\ held' \in Threads \cup {Free}
    BY DEF RelayerInv, LockHolds, RelayerTypes
  <1>. QED BY <1>1 DEF Quiet, chain

-----------------------------------------------------------------------------
(* The operations, up to their submits. *)

\* A step that leaves the records alone.
LEMMA OperationStep ==
    ASSUME RelayerInv, NEW h \in Threads, UNCHANGED <<kind, signed, lastNonce, held, chain>>,
           worker' \in [Threads -> HandlerRecords], worker'[h].rec = NoTx,
           \/ worker'[h].pc \in {"idle", "begin", "ended"}
           \/ worker'[h].pc \in {"advance", "relay"} /\ kind.kind = "purchase"
           \/ worker'[h].pc = "next" /\ kind.kind = "account"
           \/ worker'[h].pc = "submit" /\ worker'[h].key \in KeysOf[kind.kind],
           \A g \in Threads : g # h => worker'[g] = worker[g],
           book' \in Books, Says(book'),
           tx' \in [Keys -> TxRecords], tx' = tx \/ \A k \in Keys : Moves(k)
    PROVE  Quiet
  <1>1. Knows(worker'[h])
    BY KnowsLittle
  <1>2. worker'[h].pc \notin {"sign", "recover"}
    OBVIOUS
  <1>. QED BY <1>1, <1>2, CalmStep

Apart == <<kind, signed, lastNonce, held, chain>>

\* ensureAccount opens the record, and calls it ready when the chain shows both transfers.
LEMMA AccountQuiet ==
    ASSUME RelayerInv, NEW h \in Threads, ensureAccount(h), UNCHANGED Apart
    PROVE  Quiet
  <1>1. RelayerTypes /\ kind.kind = "account" /\ book \in Books /\ tx \in [Keys -> TxRecords] /\ tx' = tx
    BY DEF RelayerInv, RelayerTypes, ensureAccount
  <1>2. book' \in Books /\ Says(book')
    <2>1. book' = [book EXCEPT !.state = "new"] \/ book' = book
          \/ (book' = [book EXCEPT !.state = "ready"] /\ effectDone("fund") /\ effectDone("usdc"))
      BY <1>1 DEF ensureAccount, Books
    <2>2. BooksOf["account"] = {"none", "new", "ready"}
      BY DEF BooksOf
    <2>. QED BY <1>1, <2>1, <2>2, BookSays DEF Books, BookStates, Says
  <1>3. {"fund", "usdc"} \subseteq KeysOf[kind.kind] /\ {"fund", "usdc"} \subseteq Keys /\ 1 \in Whos
    BY <1>1 DEF KeysOf, Keys, Whos
  <1>4. \/ \E k \in {"fund", "usdc"} : Submits(h, k, 1)
        \/ End(h)
    BY DEF ensureAccount
  <1>5. /\ worker' \in [Threads -> HandlerRecords] /\ worker'[h].rec = NoTx
        /\ \A g \in Threads : g # h => worker'[g] = worker[g]
        /\ worker'[h].pc = "idle" \/ (worker'[h].pc = "submit" /\ worker'[h].key \in KeysOf[kind.kind])
    BY <1>1, <1>3, <1>4, EndMoves, SubmitsMoves
  <1>. QED BY <1>1, <1>2, <1>5, OperationStep DEF Apart

\* requestCkd submits, or ends at its replay marker.
LEMMA CkdQuiet ==
    ASSUME RelayerInv, NEW h \in Threads, requestCkd(h), UNCHANGED Apart
    PROVE  Quiet
  <1>1. /\ RelayerTypes /\ kind.kind = "ckd" /\ book \in Books /\ tx \in [Keys -> TxRecords]
        /\ tx' = tx /\ book' = book
    BY DEF RelayerInv, RelayerTypes, requestCkd
  <1>2. "ckd" \in KeysOf[kind.kind] /\ "ckd" \in Keys /\ 1 \in Whos
    BY <1>1 DEF KeysOf, Keys, Whos
  <1>3. End(h) \/ Submits(h, "ckd", 1)
    BY DEF requestCkd
  <1>4. /\ worker' \in [Threads -> HandlerRecords] /\ worker'[h].rec = NoTx
        /\ \A g \in Threads : g # h => worker'[g] = worker[g]
        /\ worker'[h].pc = "idle" \/ (worker'[h].pc = "submit" /\ worker'[h].key \in KeysOf[kind.kind])
    BY <1>1, <1>2, <1>3, EndMoves, SubmitsMoves
  <1>. QED BY <1>1, <1>4, BookSays, OperationStep DEF Apart

\* redeemInvite reserves an open code; a paid one stays paid.
LEMMA InviteQuiet ==
    ASSUME RelayerInv, NEW h \in Threads, redeemInvite(h), UNCHANGED Apart
    PROVE  Quiet
  <1>1. /\ RelayerTypes /\ kind.kind = "invite" /\ book \in Books /\ tx \in [Keys -> TxRecords]
        /\ tx' = tx /\ worker[h].who \in Whos
    BY DEF RelayerInv, RelayerTypes, redeemInvite, HandlerRecords
  <1>2. "invite" \in KeysOf[kind.kind] /\ "invite" \in Keys /\ BooksOf["invite"] = {"open", "reserved", "paid"}
    BY <1>1 DEF KeysOf, Keys, BooksOf
  <1>3. book' \in Books /\ Says(book')
    <2>1. book' = book \/ book' = [book EXCEPT !.state = "reserved", !.who = worker[h].who]
      BY DEF redeemInvite
    <2>. QED BY <1>1, <1>2, <2>1, BookSays DEF Books, BookStates, Says
  <1>4. End(h) \/ Submits(h, "invite", worker[h].who)
    BY DEF redeemInvite
  <1>5. /\ worker' \in [Threads -> HandlerRecords] /\ worker'[h].rec = NoTx
        /\ \A g \in Threads : g # h => worker'[g] = worker[g]
        /\ worker'[h].pc = "idle" \/ (worker'[h].pc = "submit" /\ worker'[h].key \in KeysOf[kind.kind])
    BY <1>1, <1>2, <1>4, EndMoves, SubmitsMoves
  <1>. QED BY <1>1, <1>3, <1>5, OperationStep DEF Apart

\* relayDelegate writes the record with its charge and signs nothing yet.
LEMMA DelegateQuiet ==
    ASSUME RelayerInv, NEW h \in Threads, relayDelegate(h), UNCHANGED Apart
    PROVE  Quiet
  <1>1. /\ RelayerTypes /\ kind.kind = "purchase" /\ book \in Books /\ tx \in [Keys -> TxRecords]
        /\ tx' = tx /\ worker[h] \in HandlerRecords /\ worker[h].pc = "begin"
    BY DEF RelayerInv, RelayerTypes, relayDelegate
  <1>2. BooksOf["purchase"] = {"none", "signing", "relaying", "submitted", "failed"}
    BY DEF BooksOf
  <1>3. book' \in Books /\ Says(book')
    <2>1. \/ book' = [book EXCEPT !.token = TRUE] \/ book' = book
          \/ book' = [state |-> "signing", who |-> 1, retry |-> FALSE, token |-> TRUE]
      BY DEF relayDelegate
    <2>2. CASE book' = [book EXCEPT !.token = TRUE] \/ book' = book
      BY <1>1, <1>2, <2>2, BookSays DEF Books, BookStates, Says
    <2>3. CASE book' = [state |-> "signing", who |-> 1, retry |-> FALSE, token |-> TRUE]
      <3>1. book'.state = "signing"
        BY <2>3
      <3>2. book' \in Books
        BY <2>3 DEF Books, BookStates, Whos
      <3>. QED BY <1>1, <1>2, <3>1, <3>2 DEF Says
    <2>. QED BY <2>1, <2>2, <2>3
  <1>4. /\ worker' \in [Threads -> HandlerRecords]
        /\ \A g \in Threads : g # h => worker'[g] = worker[g]
        /\ worker'[h].pc = "advance" /\ worker'[h].rec = worker[h].rec /\ worker'[h].key = worker[h].key
    BY <1>1 DEF relayDelegate, RelayerTypes, HandlerRecords
  <1>5. Knows(worker'[h])
    BY <1>1, <1>4 DEF Knows, RelayerInv, DoneHolds
  <1>. QED BY <1>1, <1>3, <1>4, <1>5, CalmStep DEF Apart

\* advancePurchase goes from the stored record to its next step.
LEMMA AdvanceQuiet ==
    ASSUME RelayerInv, NEW h \in Threads, advancePurchase(h), UNCHANGED Apart
    PROVE  Quiet
  <1>1. /\ RelayerTypes /\ kind.kind = "purchase" /\ book \in Books /\ tx \in [Keys -> TxRecords]
        /\ tx' = tx /\ book' = book
    BY DEF RelayerInv, RelayerTypes, advancePurchase
  <1>2. "sign" \in KeysOf[kind.kind] /\ "sign" \in Keys /\ 1 \in Whos
    BY <1>1 DEF KeysOf, Keys, Whos
  <1>3. Goto(h, "ended") \/ Submits(h, "sign", 1) \/ Goto(h, "relay")
    BY DEF advancePurchase
  <1>4. /\ worker' \in [Threads -> HandlerRecords] /\ worker'[h].rec = NoTx
        /\ \A g \in Threads : g # h => worker'[g] = worker[g]
        /\ \/ worker'[h].pc \in {"ended", "relay"}
           \/ worker'[h].pc = "submit" /\ worker'[h].key \in KeysOf[kind.kind]
    BY <1>1, <1>2, <1>3, GotoMoves, SubmitsMoves
  <1>. QED BY <1>1, <1>4, BookSays, OperationStep DEF Apart

\* A purchase that failed has no record of its signing.
LEMMA FailMoves ==
    ASSUME RelayerInv, NEW r \in BOOLEAN, kind.kind = "purchase", failPurchase(r)
    PROVE  /\ book' \in Books /\ Says(book')
           /\ tx' \in [Keys -> TxRecords] /\ (tx' = tx \/ \A k \in Keys : Moves(k))
  <1>1. RelayerTypes /\ book \in Books /\ tx \in [Keys -> TxRecords] /\ Says(book)
    BY BookSays DEF RelayerInv, RelayerTypes
  <1>2. CASE UNCHANGED <<book, tx>>
    BY <1>1, <1>2 DEF Says
  <1>3. CASE /\ book' = [book EXCEPT !.state = "failed", !.retry = r, !.token = FALSE]
             /\ tx' = [tx EXCEPT !["sign"] = NoTx]
    <2>1. book' \in Books /\ Says(book')
      <3>1. book'.state = "failed" /\ book' \in Books
        BY <1>1, <1>3 DEF Books, BookStates
      <3>2. "failed" \in BooksOf["purchase"]
        BY DEF BooksOf
      <3>. QED BY <3>1, <3>2 DEF Says
    <2>2. tx' \in [Keys -> TxRecords] /\ \A k \in Keys : k # "sign" => tx'[k] = tx[k]
      BY <1>1, <1>3, NothingYet
    <2>3. tx'["sign"].state = "none" /\ "sign" \in Rewritten
      BY <1>1, <1>3, NothingYet DEF Keys, Rewritten
    <2>4. \A k \in Keys : Moves(k)
      BY <2>2, <2>3 DEF Moves
    <2>. QED BY <2>1, <2>2, <2>4
  <1>. QED BY <1>2, <1>3 DEF failPurchase

\* Relaying starts with its submit, or fails the purchase whose signature expired.
LEMMA RelayQuiet ==
    ASSUME RelayerInv, NEW h \in Threads, relays(h), UNCHANGED Apart
    PROVE  Quiet
  <1>1. /\ RelayerTypes /\ kind.kind = "purchase" /\ book \in Books /\ tx \in [Keys -> TxRecords]
    BY DEF RelayerInv, RelayerTypes, KindHolds, relays
  <1>2. "relay" \in KeysOf[kind.kind] /\ "relay" \in Keys /\ 1 \in Whos
    BY <1>1 DEF KeysOf, Keys, Whos
  <1>3. CASE failPurchase(FALSE) /\ Goto(h, "ended")
    <2>1. /\ worker' \in [Threads -> HandlerRecords] /\ worker'[h].rec = NoTx
          /\ \A g \in Threads : g # h => worker'[g] = worker[g]
          /\ worker'[h].pc = "ended"
      BY <1>1, <1>3, GotoMoves
    <2>. QED BY <1>1, <1>3, <2>1, FailMoves, OperationStep DEF Apart
  <1>4. CASE Submits(h, "relay", 1) /\ UNCHANGED <<book, tx>>
    <2>1. /\ worker' \in [Threads -> HandlerRecords] /\ worker'[h].rec = NoTx
          /\ \A g \in Threads : g # h => worker'[g] = worker[g]
          /\ worker'[h].pc = "submit" /\ worker'[h].key \in KeysOf[kind.kind]
      BY <1>1, <1>2, <1>4, SubmitsMoves
    <2>. QED BY <1>1, <1>4, <2>1, BookSays, OperationStep DEF Apart
  <1>. QED BY <1>3, <1>4 DEF relays

\* linkDevice opens its record and submits while the approval is valid.
LEMMA LinkQuiet ==
    ASSUME RelayerInv, NEW h \in Threads, linkDevice(h), UNCHANGED Apart
    PROVE  Quiet
  <1>1. /\ RelayerTypes /\ kind.kind = "device" /\ book \in Books /\ tx \in [Keys -> TxRecords] /\ tx' = tx
    BY DEF RelayerInv, RelayerTypes, linkDevice
  <1>2. /\ "device" \in KeysOf[kind.kind] /\ "device" \in Keys /\ 1 \in Whos
        /\ BooksOf["device"] = {"none", "submitting", "submitted", "failed", "listed"}
    BY <1>1 DEF KeysOf, Keys, Whos, BooksOf
  <1>3. book' \in Books /\ Says(book')
    <2>1. \/ book' = book \/ book' = [book EXCEPT !.state = "submitting"]
          \/ book' = [book EXCEPT !.state = "failed"]
          \/ book' = [[book EXCEPT !.state = "submitting"] EXCEPT !.state = "failed"]
      BY DEF linkDevice
    <2>. QED BY <1>1, <1>2, <2>1, BookSays DEF Books, BookStates, Says
  <1>4. Goto(h, "ended") \/ Submits(h, "device", 1)
    BY DEF linkDevice
  <1>5. /\ worker' \in [Threads -> HandlerRecords] /\ worker'[h].rec = NoTx
        /\ \A g \in Threads : g # h => worker'[g] = worker[g]
        /\ worker'[h].pc = "ended" \/ (worker'[h].pc = "submit" /\ worker'[h].key \in KeysOf[kind.kind])
    BY <1>1, <1>2, <1>4, GotoMoves, SubmitsMoves
  <1>. QED BY <1>1, <1>3, <1>5, OperationStep DEF Apart

-----------------------------------------------------------------------------
(* The operations, after their submits. *)

\* A key under way tells the operation.
LEMMA KeyKind ==
    ASSUME RelayerTypes, NEW k \in Keys, k \in KeysOf[kind.kind]
    PROVE  /\ k \in {"fund", "usdc"} => kind.kind = "account"
           /\ k = "ckd" => kind.kind = "ckd"
           /\ k = "invite" => kind.kind = "invite"
           /\ k \in {"sign", "relay"} => kind.kind = "purchase"
           /\ k = "device" => kind.kind = "device"
  BY KindCases DEF KeysOf

\* The record of one key is dropped.
LEMMA DropMoves ==
    ASSUME RelayerInv, NEW k \in Keys, tx' = [tx EXCEPT ![k] = NoTx],
           k \in Rewritten \/ (k = "invite" /\ tx[k].state = "FAILED")
    PROVE  tx' \in [Keys -> TxRecords] /\ \A j \in Keys : Moves(j)
  <1>1. tx \in [Keys -> TxRecords]
    BY DEF RelayerInv, RelayerTypes
  <1>2. tx' \in [Keys -> TxRecords] /\ tx'[k] = NoTx /\ \A j \in Keys : j # k => tx'[j] = tx[j]
    BY <1>1, NothingYet
  <1>3. ASSUME NEW j \in Keys PROVE Moves(j)
    BY <1>2, NothingYet DEF Moves
  <1>. QED BY <1>2, <1>3

\* What a handler knows when its submit is over.
AfterSubmit(h) ==
    /\ worker[h].key \in Keys /\ worker[h].key \in KeysOf[kind.kind] /\ worker[h].rec \in TxRecords
    /\ worker[h].who \in Whos
    /\ worker[h].key \notin Rewritten /\ worker[h].rec.state = "SUCCESS" => effectDone(worker[h].key)

\* The key of a finished submit belongs to the operation, and its success is on the chain.
LEMMA AfterKnows ==
    ASSUME RelayerInv, NEW h \in Threads, worker[h].pc = "after"
    PROVE  AfterSubmit(h)
  BY DEF RelayerInv, RelayerTypes, KindHolds, DoneHolds, HandlerRecords, AfterSubmit

\* A CKD record that is not out any more becomes a marker.
LEMMA AfterCkdQuiet ==
    ASSUME RelayerInv, NEW h \in Threads, after_ckd(h, worker[h].rec), UNCHANGED Apart
    PROVE  Quiet
  <1>1. /\ RelayerTypes /\ tx \in [Keys -> TxRecords] /\ book \in Books /\ book' = book /\ Says(book)
    BY BookSays DEF RelayerInv, RelayerTypes, after_ckd
  <1>2. tx' \in [Keys -> TxRecords] /\ (tx' = tx \/ \A k \in Keys : Moves(k))
    BY <1>1, DropMoves DEF after_ckd, finishCkd, Keys, Rewritten
  <1>3. /\ worker' \in [Threads -> HandlerRecords] /\ worker'[h].rec = NoTx
        /\ \A g \in Threads : g # h => worker'[g] = worker[g]
        /\ worker'[h].pc = "ended"
    BY <1>1, GotoMoves DEF after_ckd
  <1>. QED BY <1>1, <1>2, <1>3, OperationStep DEF Apart

\* A paid invite was paid; only a failed record gives the code back.
LEMMA AfterInviteQuiet ==
    ASSUME RelayerInv, NEW h \in Threads, AfterSubmit(h), worker[h].key = "invite",
           after_invite(h, worker[h].rec), UNCHANGED Apart
    PROVE  Quiet
  <1>1. /\ RelayerTypes /\ tx \in [Keys -> TxRecords] /\ book \in Books /\ Says(book)
    BY BookSays DEF RelayerInv, RelayerTypes
  <1>2. kind.kind = "invite" /\ BooksOf["invite"] = {"open", "reserved", "paid"}
    BY <1>1, KeyKind DEF AfterSubmit, BooksOf
  <1>3. /\ worker' \in [Threads -> HandlerRecords] /\ worker'[h].rec = NoTx
        /\ \A g \in Threads : g # h => worker'[g] = worker[g]
        /\ worker'[h].pc = "idle"
    BY <1>1, EndMoves DEF after_invite
  <1>4. CASE UNCHANGED <<book, tx>>
    BY <1>1, <1>3, <1>4, OperationStep DEF Apart
  <1>5. CASE /\ tx["invite"].state = "FAILED"
             /\ book' = [book EXCEPT !.state = "open", !.who = 0]
             /\ tx' = [tx EXCEPT !["invite"] = NoTx]
    <2>1. book' \in Books /\ Says(book')
      <3>1. book' \in Books /\ book'.state = "open"
        BY <1>1, <1>5 DEF Books, BookStates, Whos
      <3>. QED BY <1>2, <3>1 DEF Says
    <2>2. tx' \in [Keys -> TxRecords] /\ \A k \in Keys : Moves(k)
      BY <1>5, DropMoves DEF Keys
    <2>. QED BY <1>3, <2>1, <2>2, OperationStep DEF Apart
  <1>6. CASE /\ worker[h].rec.state = "SUCCESS"
             /\ book' = [book EXCEPT !.state = "paid", !.who = worker[h].who]
             /\ tx' = tx
    <2>1. book' \in Books /\ book'.state = "paid"
      BY <1>1, <1>6 DEF Books, BookStates, AfterSubmit
    <2>2. Says(book')
      BY <1>2, <1>6, <2>1 DEF Says, AfterSubmit, Rewritten
    <2>. QED BY <1>1, <1>3, <1>6, <2>1, <2>2, OperationStep DEF Apart
  <1>. QED BY <1>4, <1>5, <1>6 DEF after_invite, releaseFailedInvite

\* The end of a sign request: the purchase goes on to its relay, or fails.
LEMMA AfterSignQuiet ==
    ASSUME RelayerInv, NEW h \in Threads, AfterSubmit(h), worker[h].key = "sign",
           after_sign(h, worker[h].rec), UNCHANGED Apart
    PROVE  Quiet
  <1>1. /\ RelayerTypes /\ tx \in [Keys -> TxRecords] /\ book \in Books /\ Says(book)
    BY BookSays DEF RelayerInv, RelayerTypes
  <1>2. kind.kind = "purchase"
    BY <1>1, KeyKind DEF AfterSubmit
  <1>3. Goto(h, "ended") \/ Goto(h, "relay")
    BY DEF after_sign
  <1>4. /\ worker' \in [Threads -> HandlerRecords] /\ worker'[h].rec = NoTx
        /\ \A g \in Threads : g # h => worker'[g] = worker[g]
        /\ worker'[h].pc \in {"ended", "relay"}
    BY <1>1, <1>3, GotoMoves
  <1>5. CASE UNCHANGED <<book, tx>>
    BY <1>1, <1>2, <1>4, <1>5, OperationStep DEF Apart
  <1>6. CASE failPurchase(TRUE)
    BY <1>2, <1>4, <1>6, FailMoves, OperationStep DEF Apart
  <1>7. CASE /\ book.state = "signing"
             /\ book' = [book EXCEPT !.state = "relaying", !.token = FALSE]
             /\ tx' = [tx EXCEPT !["sign"] = NoTx]
    <2>1. book' \in Books /\ Says(book')
      <3>1. book' \in Books /\ book'.state = "relaying" /\ "relaying" \in BooksOf["purchase"]
        BY <1>1, <1>7 DEF Books, BookStates, BooksOf
      <3>. QED BY <1>2, <3>1 DEF Says
    <2>2. tx' \in [Keys -> TxRecords] /\ \A k \in Keys : Moves(k)
      BY <1>7, DropMoves DEF Keys, Rewritten
    <2>. QED BY <1>2, <1>4, <2>1, <2>2, OperationStep DEF Apart
  <1>. QED BY <1>5, <1>6, <1>7 DEF after_sign

\* A purchase is submitted by a relay the chain shows.
LEMMA AfterRelayQuiet ==
    ASSUME RelayerInv, NEW h \in Threads, AfterSubmit(h), worker[h].key = "relay",
           after_relay(h, worker[h].rec), UNCHANGED Apart
    PROVE  Quiet
  <1>1. /\ RelayerTypes /\ tx \in [Keys -> TxRecords] /\ book \in Books /\ Says(book)
    BY BookSays DEF RelayerInv, RelayerTypes
  <1>2. kind.kind = "purchase" /\ "submitted" \in BooksOf["purchase"]
    BY <1>1, KeyKind DEF AfterSubmit, BooksOf
  <1>3. /\ worker' \in [Threads -> HandlerRecords] /\ worker'[h].rec = NoTx
        /\ \A g \in Threads : g # h => worker'[g] = worker[g]
        /\ worker'[h].pc = "ended"
    BY <1>1, GotoMoves DEF after_relay
  <1>4. CASE UNCHANGED <<book, tx>>
    BY <1>1, <1>3, <1>4, OperationStep DEF Apart
  <1>5. CASE failPurchase(FALSE)
    BY <1>2, <1>3, <1>5, FailMoves, OperationStep DEF Apart
  <1>6. CASE /\ worker[h].rec.state = "SUCCESS"
             /\ book' = [book EXCEPT !.state = "submitted"] /\ tx' = tx
    <2>1. book' \in Books /\ book'.state = "submitted"
      BY <1>1, <1>6 DEF Books, BookStates
    <2>2. Says(book')
      BY <1>2, <1>6, <2>1 DEF Says, AfterSubmit, Rewritten
    <2>. QED BY <1>1, <1>3, <1>6, <2>1, <2>2, OperationStep DEF Apart
  <1>. QED BY <1>4, <1>5, <1>6 DEF after_relay

\* A link is submitted or listed when the chain shows it.
LEMMA AfterDeviceQuiet ==
    ASSUME RelayerInv, NEW h \in Threads, AfterSubmit(h), worker[h].key = "device",
           after_device(h, worker[h].rec), UNCHANGED Apart
    PROVE  Quiet
  <1>1. /\ RelayerTypes /\ tx \in [Keys -> TxRecords] /\ tx' = tx /\ book \in Books /\ Says(book)
    BY BookSays DEF RelayerInv, RelayerTypes, after_device
  <1>2. kind.kind = "device" /\ {"submitted", "listed", "failed"} \subseteq BooksOf["device"]
    BY <1>1, KeyKind DEF AfterSubmit, BooksOf
  <1>3. /\ worker' \in [Threads -> HandlerRecords] /\ worker'[h].rec = NoTx
        /\ \A g \in Threads : g # h => worker'[g] = worker[g]
        /\ worker'[h].pc = "ended"
    BY <1>1, GotoMoves DEF after_device
  <1>4. book' \in Books /\ Says(book')
    <2>1. CASE book' = book
      BY <1>1, <2>1
    <2>2. CASE worker[h].rec.state = "SUCCESS" /\ book' = [book EXCEPT !.state = "submitted"]
      <3>1. book' \in Books /\ book'.state = "submitted"
        BY <1>1, <2>2 DEF Books, BookStates
      <3>2. effectDone("device")
        BY <2>2 DEF AfterSubmit, Rewritten
      <3>. QED BY <1>2, <3>1, <3>2 DEF Says
    <2>3. CASE effectDone("device") /\ book' = [book EXCEPT !.state = "listed"]
      <3>1. book' \in Books /\ book'.state = "listed"
        BY <1>1, <2>3 DEF Books, BookStates
      <3>. QED BY <1>2, <2>3, <3>1 DEF Says
    <2>4. CASE book' = [book EXCEPT !.state = "failed"]
      <3>1. book' \in Books /\ book'.state = "failed"
        BY <1>1, <2>4 DEF Books, BookStates
      <3>. QED BY <1>2, <3>1 DEF Says
    <2>. QED BY <2>1, <2>2, <2>3, <2>4 DEF after_device
  <1>. QED BY <1>1, <1>3, <1>4, OperationStep DEF Apart

\* A step of an account is followed by the next, or by the answer.
LEMMA AfterAccountQuiet ==
    ASSUME RelayerInv, NEW h \in Threads, AfterSubmit(h), worker[h].key \in {"fund", "usdc"},
           after_account(h, worker[h].rec), UNCHANGED Apart
    PROVE  Quiet
  <1>1. /\ RelayerTypes /\ tx \in [Keys -> TxRecords] /\ book \in Books /\ Says(book)
        /\ UNCHANGED <<book, tx>>
    BY BookSays DEF RelayerInv, RelayerTypes, after_account
  <1>2. kind.kind = "account"
    BY <1>1, KeyKind DEF AfterSubmit
  <1>3. Goto(h, "next") \/ End(h)
    BY DEF after_account
  <1>4. /\ worker' \in [Threads -> HandlerRecords] /\ worker'[h].rec = NoTx
        /\ \A g \in Threads : g # h => worker'[g] = worker[g]
        /\ worker'[h].pc \in {"next", "idle"}
    BY <1>1, <1>3, GotoMoves, EndMoves
  <1>. QED BY <1>1, <1>2, <1>4, OperationStep DEF Apart

\* Every stretch of an operation.
LEMMA OperationQuiet ==
    ASSUME RelayerInv, NEW h \in Threads, Operation(h)
    PROVE  Quiet
  <1>1. UNCHANGED Apart
    BY DEF Operation, Apart
  <1>2. CASE after(h)
    <2>1. AfterSubmit(h)
      BY <1>2, AfterKnows DEF after
    <2>. QED BY <1>1, <1>2, <2>1, AfterAccountQuiet, AfterCkdQuiet, AfterInviteQuiet, AfterSignQuiet,
                AfterRelayQuiet, AfterDeviceQuiet DEF after
  <1>. QED BY <1>1, <1>2, AccountQuiet, CkdQuiet, InviteQuiet, DelegateQuiet, AdvanceQuiet, RelayQuiet,
              LinkQuiet DEF Operation

-----------------------------------------------------------------------------
(* Requests, the alarm, restarts. *)

\* The end of a request or alarm: a purchase unsigned for too long fails, an old CKD record loses its token.
LEMMA EndedQuiet ==
    ASSUME RelayerInv, NEW h \in Threads, Ended(h)
    PROVE  Quiet
  <1>1. /\ RelayerTypes /\ tx \in [Keys -> TxRecords] /\ book \in Books /\ Says(book) /\ UNCHANGED Apart
    BY BookSays DEF RelayerInv, RelayerTypes, Ended, Apart
  <1>2. /\ worker' \in [Threads -> HandlerRecords] /\ worker'[h].rec = NoTx
        /\ \A g \in Threads : g # h => worker'[g] = worker[g]
        /\ worker'[h].pc = "idle"
    BY <1>1, EndMoves DEF Ended
  <1>3. CASE UNCHANGED <<book, tx>>
    BY <1>1, <1>2, <1>3, OperationStep DEF Apart
  <1>4. CASE kind.kind = "purchase" /\ failPurchase(FALSE)
    BY <1>1, <1>2, <1>4, FailMoves, OperationStep DEF Apart
  <1>5. CASE tx' = [tx EXCEPT !["ckd"].bytes = FALSE] /\ book' = book
    <2>1. tx["ckd"] \in TxRecords /\ "ckd" \in Keys
      BY <1>1 DEF Keys
    <2>2. [tx["ckd"] EXCEPT !.bytes = FALSE] \in TxRecords
      BY <2>1 DEF TxRecords
    <2>3. tx' \in [Keys -> TxRecords] /\ \A k \in Keys : tx'[k].n = tx[k].n /\ tx'[k].state = tx[k].state
      BY <1>1, <1>5, <2>1, <2>2 DEF TxRecords
    <2>4. \A k \in Keys : Moves(k)
      BY <2>3 DEF Moves
    <2>. QED BY <1>1, <1>2, <1>5, <2>3, <2>4, OperationStep DEF Apart
  <1>. QED BY <1>3, <1>4, <1>5 DEF Ended

\* A request that arrives has read nothing.
LEMMA ArriveQuiet ==
    ASSUME RelayerInv, NEW h \in Threads, Arrive(h)
    PROVE  Quiet
  <1>1. /\ RelayerTypes /\ tx \in [Keys -> TxRecords] /\ book \in Books /\ Says(book) /\ UNCHANGED Apart
        /\ UNCHANGED <<book, tx>>
    BY BookSays DEF RelayerInv, RelayerTypes, Arrive, Apart
  <1>2. PICK who \in Identities, fresh \in BOOLEAN :
          worker' = [worker EXCEPT ![h] = [Unused EXCEPT !.pc = "begin", !.who = who, !.fresh = fresh]]
    BY DEF Arrive
  <1>3. [Unused EXCEPT !.pc = "begin", !.who = who, !.fresh = fresh] \in HandlerRecords
    BY NothingYet DEF HandlerRecords, Whos
  <1>4. /\ worker' \in [Threads -> HandlerRecords] /\ worker'[h].rec = NoTx
        /\ \A g \in Threads : g # h => worker'[g] = worker[g]
        /\ worker'[h].pc = "begin"
    BY <1>1, <1>2, <1>3 DEF RelayerTypes, Unused
  <1>. QED BY <1>1, <1>4, OperationStep DEF Apart

\* The alarm starts its one record again, or drops a CKD record that is settled.
LEMMA AlarmQuiet ==
    ASSUME RelayerInv, alarm
    PROVE  Quiet
  <1>1. /\ RelayerTypes /\ tx \in [Keys -> TxRecords] /\ book \in Books /\ Says(book) /\ UNCHANGED Apart
        /\ book' = book /\ Alarmer \in Threads
    BY BookSays DEF RelayerInv, RelayerTypes, alarm, Apart, Threads
  <1>2. tx' \in [Keys -> TxRecords] /\ (tx' = tx \/ \A k \in Keys : Moves(k))
    BY <1>1, DropMoves DEF alarm, finishCkd, Keys, Rewritten
  <1>3. /\ worker' \in [Threads -> HandlerRecords] /\ worker'[Alarmer].rec = NoTx
        /\ \A g \in Threads : g # Alarmer => worker'[g] = worker[g]
        /\ worker'[Alarmer].pc \in {"begin", "ended"}
    <2>1. CASE Goto(Alarmer, "ended")
      BY <1>1, <2>1, GotoMoves
    <2>2. CASE worker' = [worker EXCEPT ![Alarmer] = [Unused EXCEPT !.pc = "begin", !.who = 1]]
      <3>1. [Unused EXCEPT !.pc = "begin", !.who = 1] \in HandlerRecords
        BY NothingYet DEF HandlerRecords, Whos
      <3>. QED BY <1>1, <2>2, <3>1 DEF RelayerTypes, Unused
    <2>. QED BY <2>1, <2>2 DEF alarm
  <1>. QED BY <1>1, <1>2, <1>3, OperationStep DEF Apart

\* A handler that throws frees its lock and forgets.
LEMMA ThrowsQuiet ==
    ASSUME RelayerInv, NEW h \in Threads, Throws(h), worker[h].pc \in {"sign", "recover"}
    PROVE  Quiet
  <1>1. /\ RelayerTypes /\ tx \in [Keys -> TxRecords] /\ book \in Books /\ Says(book)
        /\ UNCHANGED <<kind, signed, lastNonce, chain, book, tx>>
    BY BookSays DEF RelayerInv, RelayerTypes, Throws
  <1>2. held = h /\ held' = Free
    BY DEF RelayerInv, LockHolds, Throws
  <1>3. Goto(h, "ended") \/ End(h)
    BY DEF Throws
  <1>4. /\ worker' \in [Threads -> HandlerRecords] /\ worker'[h].rec = NoTx
        /\ \A g \in Threads : g # h => worker'[g] = worker[g]
        /\ worker'[h].pc \in {"ended", "idle"}
    BY <1>1, <1>3, GotoMoves, EndMoves
  <1>5. Knows(worker'[h])
    BY <1>4, KnowsLittle
  <1>6. LockHolds'
    BY <1>2, <1>4 DEF RelayerInv, LockHolds
  <1>. QED BY <1>1, <1>2, <1>4, <1>5, <1>6 DEF Quiet, chain

\* A restart forgets the handlers and the lock; the outbox and the chain stay.
LEMMA RestartQuiet ==
    ASSUME RelayerInv, Restart
    PROVE  Quiet
  <1>1. /\ tx \in [Keys -> TxRecords] /\ book \in Books /\ Says(book)
        /\ UNCHANGED <<kind, signed, lastNonce, chain, book, tx>> /\ held' = Free
    BY BookSays DEF RelayerInv, RelayerTypes, Restart
  <1>2. worker' \in [Threads -> HandlerRecords] /\ \A h \in Threads : worker'[h] = Unused
    BY NothingYet DEF Restart
  <1>3. Knows(Unused)
    BY NothingYet, KnowsLittle
  <1>4. LockHolds'
    BY <1>2, NothingYet DEF LockHolds
  <1>. QED BY <1>1, <1>2, <1>3, <1>4 DEF Quiet, chain

-----------------------------------------------------------------------------
(* The outbox: submit, poll, reconcile, recover. *)

\* A handler moves by itself, and takes, keeps or frees the lock.
LEMMA HandlerStep ==
    ASSUME RelayerInv, NEW h \in Threads,
           UNCHANGED <<kind, book, signed, lastNonce, keyNonce, stale, landed, listedBy>>,
           mempool' \subseteq mempool \cup (signed \ stale),
           worker' \in [Threads -> HandlerRecords],
           \A g \in Threads : g # h => worker'[g] = worker[g],
           Knows(worker'[h]),
           tx' \in [Keys -> TxRecords], tx' = tx \/ \A k \in Keys : Moves(k),
           \/ held' = held /\ worker'[h].pc \notin {"sign", "recover"}
           \/ held' = h /\ held \in {Free, h}
           \/ held' = Free /\ held = h /\ worker'[h].pc \notin {"sign", "recover"}
    PROVE  Quiet
  <1>1. LockHolds'
    BY ThreadNumbers DEF RelayerInv, LockHolds
  <1>2. held' \in Threads \cup {Free}
    BY DEF RelayerInv, RelayerTypes
  <1>3. book \in Books
    BY DEF RelayerInv, RelayerTypes
  <1>. QED BY <1>1, <1>2, <1>3 DEF Quiet

\* What a handler keeps of a record.
LEMMA Kept ==
    ASSUME NEW rec \in TxRecords
    PROVE  kept(rec) \in TxRecords /\ kept(rec).n = rec.n /\ kept(rec).state = rec.state
  BY DEF kept, TxRecords

\* A record with its outcome.
LEMMA Settled ==
    ASSUME NEW rec \in TxRecords, NEW out, NEW value \in {"none", "ok", "empty"} \cup Results,
           out # "failed" => value \in {"none", "ok", "empty"}
    PROVE  /\ settle(rec, out, value) \in TxRecords /\ settle(rec, out, value).n = rec.n
           /\ settle(rec, out, value).state = IF out = "failed" THEN "FAILED" ELSE "SUCCESS"
  BY DEF settle, TxRecords

\* A handler that polls.
LEMMA PolledMoves ==
    ASSUME RelayerTypes, NEW h \in Threads, NEW rec \in TxRecords, polled(h, rec)
    PROVE  /\ worker' \in [Threads -> HandlerRecords]
           /\ \A g \in Threads : g # h => worker'[g] = worker[g]
           /\ worker'[h].pc \in {"poll", "after"} /\ worker'[h].key = worker[h].key
           /\ worker'[h].rec.state = rec.state
  <1>1. next_poll(h, rec) \in {"poll", "after"} /\ worker[h] \in HandlerRecords
    BY DEF next_poll, RelayerTypes
  <1>2. kept(rec) \in TxRecords /\ kept(rec).state = rec.state
    BY Kept
  <1>. QED BY <1>1, <1>2 DEF polled, RelayerTypes, HandlerRecords

\* What it must know.
LEMMA PolledKnows ==
    ASSUME RelayerInv, NEW h \in Threads, NEW rec \in TxRecords, polled(h, rec),
           worker[h].key \in KeysOf[kind.kind],
           worker[h].key \notin Rewritten /\ rec.state = "SUCCESS" => effectDone(worker[h].key)
    PROVE  Knows(worker'[h])
  <1>1. RelayerTypes
    BY DEF RelayerInv
  <1>. QED BY <1>1, PolledMoves DEF Knows

\* submit signs only when there is no record, or a failed one that may be retried: nothing of it can land.
LEMMA SubmitQuiet ==
    ASSUME RelayerInv, NEW h \in Threads, submit(h)
    PROVE  Quiet
  <1>1. /\ RelayerTypes /\ tx \in [Keys -> TxRecords] /\ book \in Books /\ tx' = tx /\ book' = book
        /\ UNCHANGED <<kind, signed, lastNonce, chain>>
        /\ worker[h] \in HandlerRecords /\ worker[h].key \in Keys /\ worker[h].pc = "submit"
    BY DEF RelayerInv, RelayerTypes, submit, HandlerRecords
  <1>2. worker[h].key \in KeysOf[kind.kind] /\ tx[worker[h].key] \in TxRecords
    BY <1>1 DEF RelayerInv, KindHolds
  <1>3. CASE End(h) /\ held' = held
    <2>1. /\ worker' \in [Threads -> HandlerRecords] /\ worker'[h].rec = NoTx
          /\ \A g \in Threads : g # h => worker'[g] = worker[g]
          /\ worker'[h].pc = "idle"
      BY <1>1, <1>3, EndMoves
    <2>2. Knows(worker'[h])
      BY <2>1, KnowsLittle
    <2>. QED BY <1>1, <1>3, <2>1, <2>2, HandlerStep DEF chain
  <1>4. CASE /\ worker' = [worker EXCEPT ![h].pc = "poll", ![h].rec = kept(tx[worker[h].key])]
             /\ held' = held
    <2>1. kept(tx[worker[h].key]) \in TxRecords /\ kept(tx[worker[h].key]).state = tx[worker[h].key].state
      BY <1>2, Kept
    <2>2. /\ worker' \in [Threads -> HandlerRecords]
          /\ \A g \in Threads : g # h => worker'[g] = worker[g]
          /\ worker'[h].pc = "poll" /\ worker'[h].key = worker[h].key
          /\ worker'[h].rec.state = tx[worker[h].key].state
      BY <1>1, <1>4, <2>1 DEF RelayerTypes, HandlerRecords
    <2>3. Knows(worker'[h])
      BY <1>1, <1>2, <2>2 DEF Knows, RelayerInv, DoneHolds
    <2>. QED BY <1>1, <1>4, <2>2, <2>3, HandlerStep DEF chain
  <1>5. CASE /\ tx[worker[h].key].state \in {"none", "FAILED"}
             /\ held = Free /\ held' = h
             /\ worker' = [worker EXCEPT ![h].pc = "sign"]
    <2>1. /\ worker' \in [Threads -> HandlerRecords]
          /\ \A g \in Threads : g # h => worker'[g] = worker[g]
          /\ worker'[h].pc = "sign" /\ worker'[h].key = worker[h].key /\ worker'[h].rec = worker[h].rec
      BY <1>1, <1>5 DEF RelayerTypes, HandlerRecords
    <2>2. worker[h].key \in Sole => Ahead(worker[h].key) = {}
      BY <1>5 DEF RelayerInv, SoleHolds
    <2>3. Knows(worker'[h])
      BY <1>2, <2>1, <2>2 DEF Knows, RelayerInv, DoneHolds
    <2>. QED BY <1>1, <1>5, <2>1, <2>3, HandlerStep DEF chain
  <1>. QED BY <1>3, <1>4, <1>5, NothingYet DEF submit, takesLock

\* txStatus reads what landed.
LEMMA StatusQuiet ==
    ASSUME RelayerInv, NEW h \in Threads, txStatus(h)
    PROVE  Quiet
  <1>1. /\ RelayerTypes /\ tx \in [Keys -> TxRecords] /\ book \in Books /\ tx' = tx /\ book' = book
        /\ UNCHANGED <<kind, signed, lastNonce, chain>> /\ held' = held
        /\ worker[h] \in HandlerRecords /\ worker[h].key \in Keys /\ worker[h].pc = "poll"
    BY DEF RelayerInv, RelayerTypes, txStatus, HandlerRecords
  <1>2. /\ worker[h].key \in KeysOf[kind.kind]
        /\ worker[h].key \notin Rewritten /\ worker[h].rec.state = "SUCCESS" => effectDone(worker[h].key)
    BY <1>1 DEF RelayerInv, KindHolds, DoneHolds
  <1>3. CASE worker' = [worker EXCEPT ![h].pc = "after", ![h].polls = 0]
    <2>1. /\ worker' \in [Threads -> HandlerRecords]
          /\ \A g \in Threads : g # h => worker'[g] = worker[g]
          /\ worker'[h].pc = "after" /\ worker'[h].key = worker[h].key /\ worker'[h].rec = worker[h].rec
      BY <1>1, <1>3 DEF RelayerTypes, HandlerRecords
    <2>2. Knows(worker'[h])
      BY <1>2, <2>1 DEF Knows
    <2>. QED BY <1>1, <2>1, <2>2, HandlerStep DEF chain
  <1>4. ASSUME NEW out \in {"not_found", "unknown"} \cup Results,
               worker' = [worker EXCEPT ![h].pc = "reconcile", ![h].out = out, ![h].polls = @ + 1],
               out \in Results => [key |-> worker[h].key, n |-> worker[h].rec.n, res |-> out] \in landed
        PROVE  Quiet
    <2>1. /\ worker' \in [Threads -> HandlerRecords]
          /\ \A g \in Threads : g # h => worker'[g] = worker[g]
          /\ worker'[h].pc = "reconcile" /\ worker'[h].key = worker[h].key /\ worker'[h].rec = worker[h].rec
          /\ worker'[h].out = out
      BY <1>1, <1>4 DEF RelayerTypes, HandlerRecords
    <2>2. Knows(worker'[h])
      BY <1>2, <1>4, <2>1 DEF Knows
    <2>. QED BY <1>1, <2>1, <2>2, HandlerStep DEF chain
  <1>5. ASSUME NEW l \in landing(tx_of(worker[h].key, worker[h].rec))
        PROVE  l.res \in Results /\ [key |-> worker[h].key, n |-> worker[h].rec.n, res |-> l.res] \in landed
    <2>1. l \in landed /\ l.key = worker[h].key /\ l.n = worker[h].rec.n
      BY DEF landing, tx_of
    <2>2. l \in [key : Keys \cup {"other"}, n : Nat, res : Results]
      BY <1>1, <2>1 DEF RelayerTypes
    <2>3. l = [key |-> worker[h].key, n |-> worker[h].rec.n, res |-> l.res]
      BY <2>1, <2>2
    <2>. QED BY <2>1, <2>2, <2>3
  <1>6. "not_found" \notin Results /\ "unknown" \notin Results
    BY DEF Results
  <1>7. \/ worker' = [worker EXCEPT ![h].pc = "after", ![h].polls = 0]
        \/ worker' = [worker EXCEPT ![h].pc = "reconcile", ![h].out = "not_found", ![h].polls = @ + 1]
        \/ worker' = [worker EXCEPT ![h].pc = "reconcile", ![h].out = "unknown", ![h].polls = @ + 1]
        \/ \E l \in landing(tx_of(worker[h].key, worker[h].rec)) :
              worker' = [worker EXCEPT ![h].pc = "reconcile", ![h].out = l.res, ![h].polls = @ + 1]
    BY DEF txStatus
  <1>. QED BY <1>3, <1>4, <1>5, <1>6, <1>7

\* A record whose transaction landed, by what the handler read of it.
LEMMA LandedMeans ==
    ASSUME RelayerInv, NEW k \in Keys, NEW n \in Nat, NEW out \in Results,
           [key |-> k, n |-> n, res |-> out] \in landed, tx[k].n = n
    PROVE  /\ out = "ok" => effectDone(k)
           /\ out = "empty" => k \in Rewritten
           /\ out = "failed" /\ k \in Sole => Ahead(k) = {}
  <1>1. out = "ok" => effectDone(k)
    BY DEF effectDone
  <1>2. out = "empty" => k \in Rewritten
    BY DEF RelayerInv, ChainHolds, Rewritten
  <1>3. ASSUME out = "failed", k \in Sole, NEW t \in Ahead(k)
        PROVE  FALSE
    <2>1. t.key = k /\ t.n = n /\ (CanLand(t) \/ Done(t))
      BY <1>3 DEF RelayerInv, SoleHolds, tx_of, Ahead
    <2>2. n <= keyNonce /\ keyNonce \in Nat
      BY DEF RelayerInv, ChainHolds, RelayerTypes
    <2>3. ~CanLand(t)
      BY <2>1, <2>2 DEF CanLand
    <2>4. [key |-> k, n |-> n, res |-> "ok"] \in landed
      BY <2>1, <2>3 DEF Done
    <2>5. [key |-> k, n |-> n, res |-> "ok"] = [key |-> k, n |-> n, res |-> out]
      BY <2>4 DEF RelayerInv, ChainHolds
    <2>. QED BY <1>3, <2>5
  <1>. QED BY <1>1, <1>2, <1>3

\* The record of one key is settled, or given up, while no other handler recovers it.
LEMMA SettleMoves ==
    ASSUME RelayerInv, NEW k \in Keys, NEW rec \in TxRecords, tx' = [tx EXCEPT ![k] = rec],
           rec.n = tx[k].n, rec.state \in {"SUCCESS", "FAILED", "STUCK"},
           rec.state = "SUCCESS" /\ k \notin Rewritten => effectDone(k),
           rec.state = "FAILED" /\ k \in Sole => Ahead(k) = {},
           \A g \in Threads : worker'[g].pc # "recover"
    PROVE  tx' \in [Keys -> TxRecords] /\ \A j \in Keys : Moves(j)
  <1>1. tx \in [Keys -> TxRecords]
    BY DEF RelayerInv, RelayerTypes
  <1>2. tx' \in [Keys -> TxRecords] /\ tx'[k] = rec /\ \A j \in Keys : j # k => tx'[j] = tx[j]
    BY <1>1
  <1>3. ASSUME NEW j \in Keys PROVE Moves(j)
    BY <1>2 DEF Moves
  <1>. QED BY <1>2, <1>3

\* reconcile settles the stored record only with what its own transaction did.
LEMMA ReconcileQuiet ==
    ASSUME RelayerInv, NEW h \in Threads, reconcile(h)
    PROVE  Quiet
  <1> DEFINE k == worker[h].key
             current == tx[k]
  <1>1. /\ RelayerTypes /\ tx \in [Keys -> TxRecords] /\ book \in Books /\ book' = book
        /\ UNCHANGED <<kind, signed, lastNonce, chain>> /\ held = Free
        /\ worker[h] \in HandlerRecords /\ k \in Keys /\ worker[h].pc = "reconcile"
        /\ worker[h].rec \in TxRecords /\ current \in TxRecords
    BY DEF RelayerInv, RelayerTypes, reconcile, HandlerRecords
  <1>2. /\ k \in KeysOf[kind.kind]
        /\ k \notin Rewritten /\ worker[h].rec.state = "SUCCESS" => effectDone(k)
        /\ k \notin Rewritten /\ current.state = "SUCCESS" => effectDone(k)
        /\ worker[h].out \in Results => [key |-> k, n |-> worker[h].rec.n, res |-> worker[h].out] \in landed
    BY <1>1 DEF RelayerInv, KindHolds, DoneHolds, ReadHolds
  <1>3. \A g \in Threads : worker[g].pc \notin {"sign", "recover"}
    BY <1>1, ThreadNumbers DEF RelayerInv, LockHolds
  <1>4. ASSUME NEW rec \in TxRecords, polled(h, rec), UNCHANGED <<tx, held>>,
               k \notin Rewritten /\ rec.state = "SUCCESS" => effectDone(k)
        PROVE  Quiet
    <2>1. /\ worker' \in [Threads -> HandlerRecords]
          /\ \A g \in Threads : g # h => worker'[g] = worker[g]
          /\ worker'[h].pc \in {"poll", "after"}
      BY <1>1, <1>4, PolledMoves
    <2>2. Knows(worker'[h])
      BY <1>2, <1>4, PolledKnows
    <2>. QED BY <1>1, <1>4, <2>1, <2>2, HandlerStep DEF chain
  <1>5. ASSUME worker[h].out \in Results, current.n = worker[h].rec.n, current.state = "BROADCAST",
               NEW rec, rec = settle(current, worker[h].out, worker[h].out),
               tx' = [tx EXCEPT ![k] = rec], polled(h, rec), held' = held
        PROVE  Quiet
    <2>1. /\ rec \in TxRecords /\ rec.n = current.n
          /\ rec.state = IF worker[h].out = "failed" THEN "FAILED" ELSE "SUCCESS"
      BY <1>1, <1>5, Settled DEF Results
    <2>2. current.n \in Nat
      BY <1>1 DEF TxRecords
    <2>3. /\ worker[h].out = "ok" => effectDone(k)
          /\ worker[h].out = "empty" => k \in Rewritten
          /\ worker[h].out = "failed" /\ k \in Sole => Ahead(k) = {}
      BY <1>1, <1>2, <1>5, <2>2, LandedMeans
    <2>4. k \notin Rewritten /\ rec.state = "SUCCESS" => effectDone(k)
      BY <1>5, <2>1, <2>3 DEF Results
    <2>5. /\ worker' \in [Threads -> HandlerRecords]
          /\ \A g \in Threads : g # h => worker'[g] = worker[g]
          /\ worker'[h].pc \in {"poll", "after"}
      BY <1>1, <1>5, <2>1, PolledMoves
    <2>6. Knows(worker'[h])
      BY <1>2, <1>5, <2>1, <2>4, PolledKnows
    <2>7. tx' \in [Keys -> TxRecords] /\ \A j \in Keys : Moves(j)
      <3>1. \A g \in Threads : worker'[g].pc # "recover"
        BY <1>3, <2>5
      <3>2. rec.state \in {"SUCCESS", "FAILED", "STUCK"} /\ (rec.state = "FAILED" /\ k \in Sole => Ahead(k) = {})
        BY <2>1, <2>3
      <3>. QED BY <1>1, <1>5, <2>1, <2>4, <3>1, <3>2, SettleMoves
    <2>. QED BY <1>1, <1>5, <2>5, <2>6, <2>7, HandlerStep DEF chain
  <1>6. ASSUME current.n = worker[h].rec.n, current.state = "BROADCAST", held' = h,
               worker' = [worker EXCEPT ![h].pc = "recover", ![h].rec = current], tx' = tx
        PROVE  Quiet
    <2>1. /\ worker' \in [Threads -> HandlerRecords]
          /\ \A g \in Threads : g # h => worker'[g] = worker[g]
          /\ worker'[h].pc = "recover" /\ worker'[h].key = k /\ worker'[h].rec = current
      BY <1>1, <1>6 DEF RelayerTypes, HandlerRecords
    <2>2. tx_of(k, current) \in signed
      BY <1>1, <1>6 DEF RelayerInv, ReadHolds
    <2>3. Knows(worker'[h])
      BY <1>2, <1>6, <2>1, <2>2 DEF Knows
    <2>. QED BY <1>1, <1>6, <2>1, <2>3, HandlerStep DEF chain
  <1>7. (IF current = NoTx THEN worker[h].rec ELSE current) \in TxRecords
    BY <1>1
  <1>. QED BY <1>1, <1>2, <1>4, <1>5, <1>6, <1>7 DEF reconcile, Results

\* Which records may be signed again, which are only looked up.
LEMMA Policies ==
    /\ \A k \in Keys : recovery[k] = "resign" => k \notin Sole
    /\ \A k \in Keys : recovery[k] = "check" => k \in Sole /\ k \notin Rewritten
    /\ recovery["invite"] = "manual"
  BY DEF recovery, Keys, Sole, Rewritten

\* A transaction whose nonce was passed without its effect, or whose block hash is too old while
\* its nonce is not passed, never lands: its record may be signed again.
LEMMA NeverLands ==
    ASSUME RelayerInv, NEW k \in Sole,
           \/ keyNonce < tx[k].n /\ tx_of(k, tx[k]) \in stale
           \/ keyNonce >= tx[k].n /\ ~effectDone(k)
    PROVE  Ahead(k) = {}
  <1>1. ASSUME NEW t \in Ahead(k)
        PROVE  FALSE
    <2>1. t = tx_of(k, tx[k]) /\ t.key = k /\ t.n = tx[k].n /\ (CanLand(t) \/ Done(t))
      BY DEF RelayerInv, SoleHolds, tx_of, Ahead
    <2>2. keyNonce \in Nat /\ tx[k].n \in Nat
      BY DEF RelayerInv, RelayerTypes, TxRecords, Sole, Keys
    <2>3. Done(t) => tx[k].n <= keyNonce /\ effectDone(k)
      BY <2>1 DEF Done, RelayerInv, ChainHolds, effectDone
    <2>. QED BY <2>1, <2>2, <2>3 DEF CanLand
  <1>. QED BY <1>1

\* recovers signs again only what never lands, and settles a checked record by its effect.
LEMMA RecoversQuiet ==
    ASSUME RelayerInv, NEW h \in Threads, recovers(h)
    PROVE  Quiet
  <1> DEFINE k == worker[h].key
             current == worker[h].rec
  <1>1. /\ RelayerTypes /\ tx \in [Keys -> TxRecords] /\ book \in Books /\ book' = book
        /\ UNCHANGED <<kind, signed, lastNonce, keyNonce, stale, landed, listedBy>>
        /\ worker[h] \in HandlerRecords /\ k \in Keys /\ worker[h].pc = "recover"
        /\ current \in TxRecords
    BY DEF RelayerInv, RelayerTypes, recovers, HandlerRecords
  <1>2. /\ k \in KeysOf[kind.kind]
        /\ k \notin Rewritten /\ current.state = "SUCCESS" => effectDone(k)
        /\ tx_of(k, current) \in signed
        /\ k \notin Rewritten => tx[k].n = current.n /\ tx[k].state = "BROADCAST"
    BY <1>1 DEF RelayerInv, KindHolds, DoneHolds, ReadHolds
  <1>3. held = h /\ \A g \in Threads : g # h => worker[g].pc \notin {"sign", "recover"}
    BY <1>1 DEF RelayerInv, LockHolds
  <1>4. ASSUME polled(h, current), held' = Free, tx' = tx,
               mempool' \subseteq mempool \cup (signed \ stale)
        PROVE  Quiet
    <2>1. /\ worker' \in [Threads -> HandlerRecords]
          /\ \A g \in Threads : g # h => worker'[g] = worker[g]
          /\ worker'[h].pc \in {"poll", "after"}
      BY <1>1, <1>4, PolledMoves
    <2>2. Knows(worker'[h])
      BY <1>1, <1>2, <1>4, PolledKnows
    <2>. QED BY <1>1, <1>3, <1>4, <2>1, <2>2, HandlerStep
  <1>5. ASSUME NEW rec \in TxRecords, polled(h, rec), held' = Free, mempool' = mempool,
               tx' = [tx EXCEPT ![k] = rec], k \notin Rewritten, rec.n = current.n,
               rec.state \in {"SUCCESS", "FAILED", "STUCK"},
               rec.state = "SUCCESS" => effectDone(k),
               rec.state = "FAILED" => Ahead(k) = {}
        PROVE  Quiet
    <2>1. /\ worker' \in [Threads -> HandlerRecords]
          /\ \A g \in Threads : g # h => worker'[g] = worker[g]
          /\ worker'[h].pc \in {"poll", "after"}
      BY <1>1, <1>5, PolledMoves
    <2>2. Knows(worker'[h])
      BY <1>2, <1>5, PolledKnows
    <2>3. \A g \in Threads : worker'[g].pc # "recover"
      BY <1>3, <2>1
    <2>4. tx' \in [Keys -> TxRecords] /\ \A j \in Keys : Moves(j)
      BY <1>1, <1>2, <1>5, <2>3, SettleMoves
    <2>. QED BY <1>1, <1>3, <1>5, <2>1, <2>2, <2>4, HandlerStep
  <1>6. ASSUME resign(h, k), mempool' = mempool, k \in Sole => Ahead(k) = {}
        PROVE  Quiet
    <2>1. CASE /\ k = "device" /\ polled(h, settle(current, "failed", "none"))
               /\ tx' = [tx EXCEPT ![k] = settle(current, "failed", "none")] /\ held' = Free
      <3>1. k \in Sole /\ k \notin Rewritten
        BY <2>1 DEF Sole, Rewritten
      <3>2. /\ settle(current, "failed", "none") \in TxRecords
            /\ settle(current, "failed", "none").n = current.n
            /\ settle(current, "failed", "none").state = "FAILED"
        BY <1>1, Settled
      <3>. QED BY <1>5, <1>6, <2>1, <3>1, <3>2
    <2>2. CASE /\ worker' = [worker EXCEPT ![h].pc = "sign", ![h].rec = NoTx, ![h].out = "none"]
               /\ UNCHANGED <<tx, held>>
      <3>1. /\ worker' \in [Threads -> HandlerRecords]
            /\ \A g \in Threads : g # h => worker'[g] = worker[g]
            /\ worker'[h].pc = "sign" /\ worker'[h].key = k /\ worker'[h].rec = NoTx
        BY <1>1, <2>2, NothingYet DEF RelayerTypes, HandlerRecords
      <3>2. Knows(worker'[h])
        BY <1>2, <1>6, <3>1, NothingYet DEF Knows
      <3>. QED BY <1>1, <1>3, <1>6, <2>2, <3>1, <3>2, HandlerStep
    <2>3. IF k = "device" /\ ~signable
          THEN /\ tx' = [tx EXCEPT ![k] = settle(current, "failed", "none")]
               /\ polled(h, settle(current, "failed", "none")) /\ held' = Free
          ELSE /\ worker' = [worker EXCEPT ![h].pc = "sign", ![h].rec = NoTx, ![h].out = "none"]
               /\ UNCHANGED <<tx, held>>
      BY <1>6 DEF resign, freesLock
    <2>4. CASE k = "device" /\ ~signable
      BY <2>1, <2>3, <2>4
    <2>5. CASE ~(k = "device" /\ ~signable)
      BY <2>2, <2>3, <2>5
    <2>. QED BY <2>4, <2>5
  <1>7. k \in Sole /\ k \notin Rewritten => tx_of(k, tx[k]) = tx_of(k, current) /\ tx[k].n = current.n
    BY <1>2 DEF tx_of
  <1>8. k \in Sole => k \notin Rewritten
    BY DEF Sole, Rewritten
  <1>9. CASE /\ tx_of(k, current) \notin stale
             /\ mempool' = mempool \cup {tx_of(k, current)} \/ mempool' = mempool
             /\ polled(h, current) /\ held' = Free /\ tx' = tx
    BY <1>2, <1>4, <1>9
  <1>10. CASE polled(h, current) /\ held' = Free /\ tx' = tx /\ mempool' = mempool
    BY <1>4, <1>10
  <1>11. CASE /\ keyNonce < current.n /\ tx_of(k, current) \in stale
              /\ resign(h, k) /\ mempool' = mempool
    BY <1>6, <1>7, <1>8, <1>11, NeverLands
  <1>12. CASE keyNonce >= current.n /\ recovery[k] = "resign" /\ resign(h, k) /\ mempool' = mempool
    BY <1>1, <1>6, <1>12, Policies
  <1>13. CASE /\ keyNonce >= current.n /\ recovery[k] = "check" /\ ~effectDone(k)
              /\ resign(h, k) /\ mempool' = mempool
    BY <1>6, <1>7, <1>8, <1>13, NeverLands
  <1>14. CASE /\ recovery[k] = "check" /\ effectDone(k) /\ mempool' = mempool /\ held' = Free
              /\ tx' = [tx EXCEPT ![k] = settle(current, "success", "none")]
              /\ polled(h, settle(current, "success", "none"))
    <2>1. /\ settle(current, "success", "none") \in TxRecords
          /\ settle(current, "success", "none").n = current.n
          /\ settle(current, "success", "none").state = "SUCCESS"
      BY <1>1, Settled
    <2>. QED BY <1>1, <1>5, <1>14, <2>1, Policies
  <1>15. CASE /\ recovery[k] = "manual" /\ mempool' = mempool /\ held' = Free
              /\ tx' = [tx EXCEPT ![k] = [current EXCEPT !.state = "STUCK"]]
              /\ polled(h, [current EXCEPT !.state = "STUCK"])
    <2>1. /\ [current EXCEPT !.state = "STUCK"] \in TxRecords
          /\ [current EXCEPT !.state = "STUCK"].n = current.n
          /\ [current EXCEPT !.state = "STUCK"].state = "STUCK"
      BY <1>1 DEF TxRecords
    <2>2. k \notin Rewritten
      BY <1>15 DEF recovery, Rewritten
    <2>. QED BY <1>5, <1>15, <2>1, <2>2
  <1>. QED BY <1>9, <1>10, <1>11, <1>12, <1>13, <1>14, <1>15 DEF recovers, freesLock

-----------------------------------------------------------------------------
(* Signing, and the chain. *)

\* The nonce of a new transaction is larger than every nonce given and every nonce passed.
LEMMA FreshNonce ==
    ASSUME RelayerInv
    PROVE  /\ next_relayer_nonce \in Nat /\ next_relayer_nonce > lastNonce /\ next_relayer_nonce > keyNonce
           /\ \A t \in signed : t.n # next_relayer_nonce /\ t.n <= next_relayer_nonce
  <1>1. lastNonce \in Nat /\ keyNonce \in Nat /\ \A t \in signed : t.n \in Nat /\ t.n <= lastNonce
    BY DEF RelayerInv, RelayerTypes, NoncesGiven
  <1>2. next_relayer_nonce \in Nat /\ next_relayer_nonce > lastNonce /\ next_relayer_nonce > keyNonce
    BY <1>1 DEF next_relayer_nonce, larger
  <1>. QED BY <1>1, <1>2

\* Signing takes a fresh nonce, and its transaction is the only one of its record that is ahead.
LEMMA SignKeeps ==
    ASSUME RelayerInv, NEW h \in Threads, signAndBroadcast(h)
    PROVE  RelayerInv'
  <1> DEFINE k == worker[h].key
             n == next_relayer_nonce
             t == [key |-> k, n |-> n]
             rec == [state |-> "BROADCAST", n |-> n, to |-> worker[h].who, age |-> 0, bytes |-> TRUE,
                     value |-> "none"]
  <1>1. /\ RelayerTypes /\ worker[h] \in HandlerRecords /\ k \in Keys /\ worker[h].who \in Whos
        /\ worker[h].pc = "sign" /\ k \in KeysOf[kind.kind] /\ held = h
        /\ \A g \in Threads : g # h => worker[g].pc \notin {"sign", "recover"}
    BY DEF RelayerInv, RelayerTypes, signAndBroadcast, HandlerRecords, KindHolds, LockHolds
  <1>2. n \in Nat /\ n > lastNonce /\ n > keyNonce /\ \A s \in signed : s.n # n /\ s.n <= n
    BY FreshNonce
  <1>3. rec \in TxRecords
    BY <1>1, <1>2 DEF TxRecords
  <1>4. /\ lastNonce' = n /\ signed' = signed \cup {t} /\ tx' = [tx EXCEPT ![k] = rec]
        /\ UNCHANGED <<kind, book, keyNonce, landed, listedBy>>
        /\ \/ mempool' = mempool \cup {t} /\ stale' = stale
           \/ mempool' = mempool /\ stale' \in {stale, stale \cup {t}}
    BY DEF signAndBroadcast
  <1>5. /\ worker' \in [Threads -> HandlerRecords]
        /\ \A g \in Threads : g # h => worker'[g] = worker[g]
        /\ worker'[h].key = k
        /\ \/ /\ stale' # stale /\ worker'[h].pc = "sign" /\ worker'[h].rec = worker[h].rec /\ held' = held
           \/ worker'[h].pc \in {"poll", "after"} /\ worker'[h].rec.state = "BROADCAST" /\ held' = Free
    <2>1. CASE stale' # stale /\ worker' = [worker EXCEPT ![h].again = TRUE] /\ held' = held
      BY <1>1, <2>1 DEF RelayerTypes, HandlerRecords
    <2>2. CASE /\ worker' = [worker EXCEPT ![h].pc = next_poll(h, rec), ![h].rec = kept(rec), ![h].again = FALSE]
               /\ held' = Free
      <3>1. next_poll(h, rec) \in {"poll", "after"}
        BY DEF next_poll
      <3>2. kept(rec) \in TxRecords /\ kept(rec).state = "BROADCAST"
        BY <1>3, Kept
      <3>. QED BY <1>1, <2>2, <3>1, <3>2 DEF RelayerTypes, HandlerRecords
    <2>. QED BY <2>1, <2>2 DEF signAndBroadcast, freesLock
  <1>6. t \notin signed /\ t \notin mempool /\ t \notin stale /\ t.key = k /\ t.n = n
    BY <1>1, <1>2 DEF RelayerTypes
  <1>7. /\ tx' \in [Keys -> TxRecords] /\ tx'[k] = rec
        /\ \A j \in Keys : j # k => tx'[j] = tx[j]
    BY <1>1, <1>3, <1>4 DEF RelayerTypes
  <1>8. RelayerTypes'
    BY <1>1, <1>2, <1>4, <1>5, <1>7 DEF RelayerTypes
  <1>9. LockHolds'
    BY <1>1, <1>5 DEF LockHolds
  <1>10. NoncesGiven'
    <2>1. \A s \in signed' : s.n <= lastNonce'
      BY <1>2, <1>4
    <2>2. RelayerNonces'
      BY <1>2, <1>4 DEF RelayerNonces, RelayerInv, NoncesGiven
    <2>. QED BY <2>1, <2>2 DEF NoncesGiven
  <1>11. ChainHolds'
    <2>1. mempool' \cap stale' = {}
      <3>1. mempool \cap stale = {}
        BY DEF RelayerInv, ChainHolds
      <3>2. CASE mempool' = mempool \cup {t} /\ stale' = stale
        BY <1>6, <3>1, <3>2
      <3>3. CASE mempool' = mempool /\ stale' \in {stale, stale \cup {t}}
        BY <1>6, <3>1, <3>3
      <3>. QED BY <1>4, <3>2, <3>3
    <2>. QED BY <1>4, <2>1 DEF RelayerInv, ChainHolds
  <1>12. \A j \in Sole : j # k => Ahead(j)' \subseteq Ahead(j)
    BY <1>4 DEF Ahead, CanLand, Done
  <1>13. k \in Sole => Ahead(k) = {}
    BY <1>1 DEF RelayerInv, SoleHolds
  <1>14. k \in Sole => Ahead(k)' \subseteq {t} /\ (stale' # stale => Ahead(k)' = {})
    <2>1. ASSUME k \in Sole, NEW s \in Ahead(k)'
          PROVE  s = t /\ stale' = stale
      <3>1. /\ s \in signed \cup {t} /\ s.key = k
            /\ (s.n > keyNonce /\ s \notin stale') \/ [key |-> s.key, n |-> s.n, res |-> "ok"] \in landed
        BY <1>4, <1>5, <2>1 DEF Ahead, CanLand, Done
      <3>2. stale \subseteq stale'
        BY <1>4
      <3>3. s \notin signed
        <4>1. SUFFICES ASSUME s \in signed
                       PROVE  s \in Ahead(k)
          BY <1>13, <2>1
        <4>. QED BY <3>1, <3>2, <4>1 DEF Ahead, CanLand, Done
      <3>4. s = t
        BY <3>1, <3>3
      <3>5. [key |-> s.key, n |-> s.n, res |-> "ok"] \notin landed
        <4>1. SUFFICES ASSUME [key |-> s.key, n |-> s.n, res |-> "ok"] \in landed
                       PROVE  FALSE
          OBVIOUS
        <4>2. [key |-> s.key, n |-> s.n, res |-> "ok"].n <= keyNonce
          BY <4>1 DEF RelayerInv, ChainHolds
        <4>3. n <= keyNonce
          BY <1>6, <3>4, <4>2
        <4>. QED BY <1>1, <1>2, <4>3 DEF RelayerTypes
      <3>6. t \notin stale'
        BY <3>1, <3>4, <3>5
      <3>. QED BY <1>4, <3>4, <3>6
    <2>. QED BY <2>1
  <1>15. SoleHolds'
    <2>1. ASSUME NEW j \in Sole, j # k
          PROVE  /\ Ahead(j)' \subseteq {tx_of(j, tx'[j])}
                 /\ tx'[j].state \in {"none", "FAILED"} => Ahead(j)' = {}
                 /\ \A g \in Threads : worker'[g].pc = "sign" /\ worker'[g].key = j => Ahead(j)' = {}
      <3>1. tx'[j] = tx[j]
        BY <1>7, <2>1 DEF Sole, Keys
      <3>2. /\ Ahead(j) \subseteq {tx_of(j, tx[j])}
            /\ tx[j].state \in {"none", "FAILED"} => Ahead(j) = {}
        BY DEF RelayerInv, SoleHolds
      <3>3. \A g \in Threads : worker'[g].pc = "sign" => worker'[g].key = k
        BY <1>1, <1>5
      <3>. QED BY <1>12, <2>1, <3>1, <3>2, <3>3
    <2>2. ASSUME k \in Sole
          PROVE  /\ Ahead(k)' \subseteq {tx_of(k, tx'[k])}
                 /\ tx'[k].state \notin {"none", "FAILED"}
                 /\ \A g \in Threads : worker'[g].pc = "sign" => Ahead(k)' = {}
      <3>1. tx_of(k, tx'[k]) = t
        BY <1>7 DEF tx_of
      <3>2. \A g \in Threads : worker'[g].pc = "sign" => stale' # stale
        BY <1>1, <1>5
      <3>. QED BY <1>7, <1>14, <2>2, <3>1, <3>2
    <2>3. \A j \in Sole :
            /\ Ahead(j)' \subseteq {tx_of(j, tx'[j])}
            /\ tx'[j].state \in {"none", "FAILED"} => Ahead(j)' = {}
            /\ \A g \in Threads : worker'[g].pc = "sign" /\ worker'[g].key = j => Ahead(j)' = {}
      BY <1>5, <2>1, <2>2
    <2>. QED BY <2>3 DEF SoleHolds, tx_of
  <1>16. ReadHolds'
    <2>1. ASSUME NEW j \in Keys, tx'[j].state = "BROADCAST"
          PROVE  tx_of(j, tx'[j]) \in signed'
      <3>1. CASE j = k
        BY <1>4, <1>7, <3>1 DEF tx_of
      <3>2. CASE j # k
        BY <1>4, <1>7, <2>1, <3>2 DEF RelayerInv, ReadHolds
      <3>. QED BY <3>1, <3>2
    <2>2. ASSUME NEW g \in Threads
          PROVE  /\ worker'[g].pc = "reconcile" /\ worker'[g].out \in Results =>
                      [key |-> worker'[g].key, n |-> worker'[g].rec.n, res |-> worker'[g].out] \in landed'
                 /\ worker'[g].pc # "recover"
      BY <1>1, <1>4, <1>5 DEF RelayerInv, ReadHolds
    <2>. QED BY <2>1, <2>2 DEF ReadHolds, tx_of
  <1>17. DoneHolds'
    <2>1. \A j \in Keys : effectDone(j)' = effectDone(j)
      BY <1>4 DEF effectDone
    <2>2. ASSUME NEW j \in Keys \ Rewritten, tx'[j].state = "SUCCESS"
          PROVE  effectDone(j)
      BY <1>7, <2>2 DEF RelayerInv, DoneHolds
    <2>3. ASSUME NEW g \in Threads, worker'[g].key \notin Rewritten, worker'[g].rec.state = "SUCCESS"
          PROVE  effectDone(worker'[g].key)
      BY <1>1, <1>5, <2>3 DEF RelayerInv, DoneHolds
    <2>4. \A g \in Threads : worker'[g].key \in Keys
      BY <1>5 DEF HandlerRecords
    <2>. QED BY <2>1, <2>2, <2>3, <2>4 DEF DoneHolds
  <1>18. KindHolds'
    BY <1>1, <1>4, <1>5 DEF RelayerInv, KindHolds
  <1>19. ReportedOnChain'
    BY <1>4 DEF RelayerInv, ReportedOnChain, effectDone
  <1>. QED BY <1>8, <1>9, <1>10, <1>11, <1>15, <1>16, <1>17, <1>18, <1>19 DEF RelayerInv

-----------------------------------------------------------------------------
(* The network and the clock. *)

\* A step of the network or the clock that moves no handler and settles no record: what is seen on
\* the chain stays, and no transaction is ahead that was not.
LEMMA WorldKeeps ==
    ASSUME RelayerInv, UNCHANGED <<kind, book, held, worker>>,
           RelayerTypes', NoncesGiven', ChainHolds',
           signed \subseteq signed', landed \subseteq landed', listedBy => listedBy',
           \A k \in Keys : tx'[k].n = tx[k].n /\ tx'[k].state = tx[k].state,
           \A k \in Sole : Ahead(k)' \subseteq Ahead(k)
    PROVE  RelayerInv'
  <1>1. \A k : effectDone(k) => effectDone(k)'
    BY DEF effectDone
  <1>2. \A h \in Threads : worker[h].key \in Keys
    BY DEF RelayerInv, RelayerTypes, HandlerRecords
  <1>3. LockHolds' /\ KindHolds'
    BY DEF RelayerInv, LockHolds, KindHolds
  <1>4. SoleHolds'
    <2>1. ASSUME NEW k \in Sole
          PROVE  /\ Ahead(k)' \subseteq {tx_of(k, tx'[k])}
                 /\ tx'[k].state \in {"none", "FAILED"} => Ahead(k)' = {}
                 /\ \A h \in Threads : worker'[h].pc = "sign" /\ worker'[h].key = k => Ahead(k)' = {}
      <3>1. tx_of(k, tx'[k]) = tx_of(k, tx[k]) /\ tx'[k].state = tx[k].state
        BY DEF tx_of, Sole, Keys
      <3>2. /\ Ahead(k) \subseteq {tx_of(k, tx[k])}
            /\ tx[k].state \in {"none", "FAILED"} => Ahead(k) = {}
            /\ \A h \in Threads : worker[h].pc = "sign" /\ worker[h].key = k => Ahead(k) = {}
        BY DEF RelayerInv, SoleHolds
      <3>3. Ahead(k)' \subseteq Ahead(k)
        OBVIOUS
      <3>. QED BY <3>1, <3>2, <3>3
    <2>. QED BY <2>1 DEF SoleHolds, tx_of
  <1>5. ReadHolds'
    BY <1>2 DEF RelayerInv, ReadHolds, tx_of
  <1>6. DoneHolds'
    BY <1>1, <1>2 DEF RelayerInv, DoneHolds
  <1>7. ReportedOnChain'
    BY <1>1 DEF RelayerInv, ReportedOnChain
  <1>. QED BY <1>3, <1>4, <1>5, <1>6, <1>7 DEF RelayerInv

\* A transaction that lands was in the network, so its block hash was not too old and its nonce not
\* passed: it was ahead before.
LEMMA ExecutesKeeps ==
    ASSUME RelayerInv, NEW t \in signed, executes(t)
    PROVE  RelayerInv'
  <1>1. /\ RelayerTypes /\ t \in mempool /\ t \notin stale /\ mempool' = mempool \ {t}
        /\ UNCHANGED <<kind, book, held, worker, tx, signed, lastNonce, stale, listedBy>>
        /\ keyNonce \in Nat /\ t.n \in Nat /\ t.key \in Keys \cup {"other"} /\ t = [key |-> t.key, n |-> t.n]
    BY DEF RelayerInv, RelayerTypes, ChainHolds, executes
  <1>2. CASE UNCHANGED <<keyNonce, landed>>
    <2>1. RelayerTypes' /\ NoncesGiven' /\ ChainHolds'
      BY <1>1, <1>2 DEF RelayerInv, RelayerTypes, NoncesGiven, RelayerNonces, ChainHolds
    <2>2. \A k \in Sole : Ahead(k)' \subseteq Ahead(k)
      BY <1>1, <1>2 DEF Ahead, CanLand, Done
    <2>. QED BY <1>1, <1>2, <2>1, <2>2, WorldKeeps
  <1>3. ASSUME t.n > keyNonce, keyNonce' = t.n, NEW res \in Results,
               res = "empty" => t.key \in {"sign", "ckd"},
               landed' = landed \cup {[key |-> t.key, n |-> t.n, res |-> res]}
        PROVE  RelayerInv'
    <2> DEFINE new == [key |-> t.key, n |-> t.n, res |-> res]
    <2>1. RelayerTypes'
      BY <1>1, <1>3 DEF RelayerTypes
    <2>2. NoncesGiven'
      BY <1>1 DEF RelayerInv, NoncesGiven, RelayerNonces
    <2>3. \A l \in landed : [key |-> l.key, n |-> l.n] \in signed
      BY DEF RelayerInv, ChainHolds
    <2>4. \A l \in landed : l.n \in Nat /\ l.n <= keyNonce
      BY DEF RelayerInv, RelayerTypes, ChainHolds
    <2>5. keyNonce \in Nat /\ t.n \in Nat
      BY <1>1
    <2>6. \A l \in landed : l.n < t.n
      BY <1>3, <2>4, <2>5
    <2>7. ChainHolds'
      <3>1. \A l \in landed' : [key |-> l.key, n |-> l.n] \in signed /\ l.n <= keyNonce'
        <4>1. \A l \in landed : l.n <= t.n
          BY <2>4, <2>5, <2>6
        <4>2. [key |-> new.key, n |-> new.n] = t /\ new.n = t.n /\ t.n <= t.n
          BY <1>1
        <4>. QED BY <1>3, <2>3, <4>1, <4>2
      <3>2. \A l, m \in landed' : l.n = m.n => l = m
        <4>1. new.n = t.n /\ \A l \in landed : l.n # t.n
          BY <2>4, <2>5, <2>6
        <4>2. \A l, m \in landed : l.n = m.n => l = m
          BY DEF RelayerInv, ChainHolds
        <4>. QED BY <1>3, <4>1, <4>2
      <3>3. \A l \in landed' : l.res = "empty" => l.key \in {"sign", "ckd"}
        BY <1>3 DEF RelayerInv, ChainHolds
      <3>4. mempool' \cap stale' = {}
        BY <1>1 DEF RelayerInv, ChainHolds
      <3>. QED BY <1>1, <3>1, <3>2, <3>3, <3>4 DEF ChainHolds
    <2>8. ASSUME NEW k \in Sole, NEW s \in Ahead(k)'
          PROVE  s \in Ahead(k)
      <3>1. /\ s \in signed /\ s.key = k /\ s.n \in Nat /\ s = [key |-> s.key, n |-> s.n]
            /\ \/ s.n > t.n /\ s \notin stale
               \/ [key |-> s.key, n |-> s.n, res |-> "ok"] \in landed'
        BY <1>1, <1>3, <2>8 DEF Ahead, CanLand, Done, RelayerTypes
      <3>2. CASE s.n > t.n /\ s \notin stale
        BY <1>1, <1>3, <3>1, <3>2 DEF Ahead, CanLand
      <3>3. CASE [key |-> s.key, n |-> s.n, res |-> "ok"] \in landed
        BY <3>1, <3>3 DEF Ahead, Done
      <3>4. CASE [key |-> s.key, n |-> s.n, res |-> "ok"] = new
        <4>1. s.key = t.key /\ s.n = t.n
          BY <3>4
        <4>2. s = t
          BY <1>1, <3>1, <4>1
        <4>. QED BY <1>1, <1>3, <3>1, <4>2 DEF Ahead, CanLand
      <3>. QED BY <1>3, <3>1, <3>2, <3>3, <3>4
    <2>. QED BY <1>1, <1>3, <2>1, <2>2, <2>7, <2>8, WorldKeeps
  <1>. QED BY <1>2, <1>3 DEF executes, Results

\* A block hash that gets too old only takes a transaction back.
LEMMA ExpiresKeeps ==
    ASSUME RelayerInv, NEW t \in signed, expires(t)
    PROVE  RelayerInv'
  <1>1. /\ UNCHANGED <<kind, book, held, worker, tx, signed, lastNonce, keyNonce, landed, listedBy>>
        /\ mempool' = mempool \ {t} /\ stale' = stale \cup {t}
    BY DEF expires
  <1>2. RelayerTypes' /\ NoncesGiven' /\ ChainHolds'
    BY <1>1 DEF RelayerInv, RelayerTypes, NoncesGiven, RelayerNonces, ChainHolds
  <1>3. \A k \in Sole : Ahead(k)' \subseteq Ahead(k)
    BY <1>1 DEF Ahead, CanLand, Done
  <1>. QED BY <1>1, <1>2, <1>3, WorldKeeps

\* A transaction of another record takes a fresh nonce; those of this one with smaller nonces can
\* no longer land.
LEMMA OtherRecordKeeps ==
    ASSUME RelayerInv, otherRecord
    PROVE  RelayerInv'
  <1> DEFINE n == next_relayer_nonce
             t == [key |-> "other", n |-> n]
  <1>1. /\ UNCHANGED <<kind, book, held, worker, tx, mempool, stale, landed, listedBy>>
        /\ lastNonce' = n /\ keyNonce' = n /\ signed' = signed \cup {t}
    BY DEF otherRecord, next_relayer_nonce
  <1>2. /\ n \in Nat /\ n > lastNonce /\ n > keyNonce /\ keyNonce \in Nat /\ lastNonce \in Nat
        /\ \A s \in signed : s.n \in Nat /\ s.n # n /\ s.n <= n
    BY FreshNonce DEF RelayerInv, RelayerTypes
  <1>3. RelayerTypes'
    BY <1>1, <1>2 DEF RelayerInv, RelayerTypes
  <1>4. NoncesGiven'
    <2>1. \A s \in signed' : s.n <= lastNonce'
      BY <1>1, <1>2
    <2>2. RelayerNonces'
      BY <1>1, <1>2 DEF RelayerNonces, RelayerInv, NoncesGiven
    <2>. QED BY <2>1, <2>2 DEF NoncesGiven
  <1>5. ChainHolds'
    <2>1. \A l \in landed : [key |-> l.key, n |-> l.n] \in signed /\ l.n \in Nat /\ l.n <= keyNonce
      BY DEF RelayerInv, RelayerTypes, ChainHolds
    <2>2. \A l \in landed' : [key |-> l.key, n |-> l.n] \in signed' /\ l.n <= keyNonce'
      BY <1>1, <1>2, <2>1
    <2>. QED BY <1>1, <2>2 DEF RelayerInv, ChainHolds
  <1>6. ASSUME NEW k \in Sole, NEW s \in Ahead(k)'
        PROVE  s \in Ahead(k)
    <2>1. /\ s \in signed \cup {t} /\ s.key = k
          /\ (s.n > n /\ s \notin stale) \/ [key |-> s.key, n |-> s.n, res |-> "ok"] \in landed
      BY <1>1, <1>6 DEF Ahead, CanLand, Done
    <2>2. s \in signed
      BY <2>1 DEF Sole
    <2>. QED BY <1>2, <2>1, <2>2 DEF Ahead, CanLand, Done
  <1>. QED BY <1>1, <1>3, <1>4, <1>5, <1>6, WorldKeeps

\* Another request that links the device adds to what is listed.
LEMMA OtherLinkKeeps ==
    ASSUME RelayerInv, otherLink
    PROVE  RelayerInv'
  <1>1. /\ UNCHANGED <<kind, book, held, worker, tx, signed, lastNonce, keyNonce, mempool, stale, landed>>
        /\ listedBy' = TRUE
    BY DEF otherLink
  <1>2. RelayerTypes' /\ NoncesGiven' /\ ChainHolds'
    BY <1>1 DEF RelayerInv, RelayerTypes, NoncesGiven, RelayerNonces, ChainHolds
  <1>3. \A k \in Sole : Ahead(k)' \subseteq Ahead(k)
    BY <1>1 DEF Ahead, CanLand, Done
  <1>. QED BY <1>1, <1>2, <1>3, WorldKeeps

\* Time makes records older, nothing else.
LEMMA TickKeeps ==
    ASSUME RelayerInv, RelayerTick
    PROVE  RelayerInv'
  <1> DEFINE ageing == {k \in Keys : tx[k].state = "BROADCAST" /\ tx[k].age < 2}
  <1>1. /\ UNCHANGED <<kind, book, held, worker, signed, lastNonce, keyNonce, mempool, stale, landed, listedBy>>
        /\ tx' = [k \in Keys |-> IF k \in ageing THEN [tx[k] EXCEPT !.age = @ + 1] ELSE tx[k]]
    BY DEF RelayerTick, chain
  <1>2. ASSUME NEW k \in Keys
        PROVE  tx'[k] \in TxRecords /\ tx'[k].n = tx[k].n /\ tx'[k].state = tx[k].state
    <2>1. tx[k] \in TxRecords
      BY DEF RelayerInv, RelayerTypes
    <2>2. /\ [tx[k] EXCEPT !.age = @ + 1] \in TxRecords
          /\ [tx[k] EXCEPT !.age = @ + 1].n = tx[k].n /\ [tx[k] EXCEPT !.age = @ + 1].state = tx[k].state
      BY <2>1 DEF TxRecords
    <2>3. tx'[k] = tx[k] \/ tx'[k] = [tx[k] EXCEPT !.age = @ + 1]
      BY <1>1
    <2>. QED BY <2>1, <2>2, <2>3
  <1>3. RelayerTypes' /\ NoncesGiven' /\ ChainHolds'
    <2>1. tx' \in [Keys -> TxRecords]
      BY <1>1, <1>2
    <2>. QED BY <1>1, <2>1 DEF RelayerInv, RelayerTypes, NoncesGiven, RelayerNonces, ChainHolds
  <1>4. \A k \in Sole : Ahead(k)' \subseteq Ahead(k)
    BY <1>1 DEF Ahead, CanLand, Done
  <1>. QED BY <1>1, <1>2, <1>3, <1>4, WorldKeeps

-----------------------------------------------------------------------------
(* The theorem. *)

\* Nothing is signed at first.
LEMMA RelayerStarts == RelayerInit => RelayerInv
  <1> SUFFICES ASSUME RelayerInit
               PROVE  RelayerInv
    OBVIOUS
  <1>1. kind.kind \in {"account", "ckd", "invite", "purchase", "device"}
    BY RelayerAssumption DEF RelayerInit
  <1>2. book \in Books /\ book.state = (IF kind.kind = "invite" THEN "open" ELSE "none")
    BY DEF RelayerInit, Books, BookStates, Whos
  <1>3. /\ tx = [k \in Keys |-> NoTx] /\ worker = [h \in Threads |-> Unused]
        /\ signed = {} /\ mempool = {} /\ stale = {} /\ landed = {}
    BY DEF RelayerInit
  <1>4. RelayerTypes
    BY <1>2, <1>3, NothingYet DEF RelayerInit, RelayerTypes
  <1>5. LockHolds /\ NoncesGiven /\ ChainHolds
    BY <1>3, NothingYet DEF LockHolds, NoncesGiven, RelayerNonces, ChainHolds
  <1>6. SoleHolds
    BY <1>3 DEF SoleHolds, Ahead
  <1>7. ReadHolds /\ DoneHolds
    BY <1>3, NothingYet DEF ReadHolds, DoneHolds
  <1>8. KindHolds
    <2>1. book.state \in BooksOf[kind.kind]
      BY <1>1, <1>2 DEF BooksOf
    <2>. QED BY <1>3, <2>1, NothingYet DEF KindHolds
  <1>9. ReportedOnChain
    BY <1>2 DEF ReportedOnChain
  <1>. QED BY <1>4, <1>5, <1>6, <1>7, <1>8, <1>9 DEF RelayerInv

\* Every step keeps the invariant.
LEMMA RelayerKeeps == RelayerInv /\ [RelayerNext]_relayerVars => RelayerInv'
  <1> SUFFICES ASSUME RelayerInv, [RelayerNext]_relayerVars
               PROVE  RelayerInv'
    OBVIOUS
  <1>1. ASSUME NEW h \in Threads, Arrive(h)
        PROVE  RelayerInv'
    BY <1>1, ArriveQuiet, QuietKeeps
  <1>2. ASSUME NEW h \in Threads, Handles(h)
        PROVE  RelayerInv'
    <2>1. CASE Operation(h)
      BY <2>1, OperationQuiet, QuietKeeps
    <2>2. CASE submit(h)
      BY <2>2, SubmitQuiet, QuietKeeps
    <2>3. CASE signAndBroadcast(h)
      BY <2>3, SignKeeps
    <2>4. CASE txStatus(h)
      BY <2>4, StatusQuiet, QuietKeeps
    <2>5. CASE reconcile(h)
      BY <2>5, ReconcileQuiet, QuietKeeps
    <2>6. CASE recovers(h)
      BY <2>6, RecoversQuiet, QuietKeeps
    <2>7. CASE Ended(h)
      BY <2>7, EndedQuiet, QuietKeeps
    <2>. QED BY <1>2, <2>1, <2>2, <2>3, <2>4, <2>5, <2>6, <2>7 DEF Handles
  <1>3. ASSUME NEW h \in Threads, worker[h].pc \in {"sign", "recover"}, Throws(h)
        PROVE  RelayerInv'
    BY <1>3, ThrowsQuiet, QuietKeeps
  <1>4. CASE alarm
    BY <1>4, AlarmQuiet, QuietKeeps
  <1>5. CASE Restart
    BY <1>5, RestartQuiet, QuietKeeps
  <1>6. CASE RelayerTick
    BY <1>6, TickKeeps
  <1>7. CASE otherRecord
    BY <1>7, OtherRecordKeeps
  <1>8. CASE otherLink
    BY <1>8, OtherLinkKeeps
  <1>9. ASSUME NEW t \in signed, executes(t)
        PROVE  RelayerInv'
    BY <1>9, ExecutesKeeps
  <1>10. ASSUME NEW t \in signed, expires(t)
         PROVE  RelayerInv'
    BY <1>10, ExpiresKeeps
  <1>11. CASE UNCHANGED relayerVars
    <2>1. UNCHANGED <<kind, book, tx, signed, lastNonce, held, worker, keyNonce, mempool, stale, landed, listedBy>>
      BY <1>11 DEF relayerVars
    <2>2. RelayerTypes' /\ NoncesGiven' /\ ChainHolds'
      BY <2>1 DEF RelayerInv, RelayerTypes, NoncesGiven, RelayerNonces, ChainHolds
    <2>3. \A k \in Sole : Ahead(k)' \subseteq Ahead(k)
      BY <2>1 DEF Ahead, CanLand, Done
    <2>. QED BY <2>1, <2>2, <2>3, WorldKeeps
  <1>. QED BY <1>1, <1>2, <1>3, <1>4, <1>5, <1>6, <1>7, <1>8, <1>9, <1>10, <1>11 DEF RelayerNext

\* An effect took place once: what took effect is the transaction the record stands for, and a
\* transaction lands once.
LEMMA OneEffect == RelayerInv => EffectOnce
  <1> SUFFICES ASSUME RelayerInv, NEW k \in Sole
               PROVE  Cardinality({l \in landed : l.key = k /\ l.res = "ok"}) <= 1
    BY DEF EffectOnce, Sole
  <1> DEFINE E == {l \in landed : l.key = k /\ l.res = "ok"}
  <1>1. ASSUME NEW l \in E
        PROVE  l.n = tx[k].n
    <2>1. /\ [key |-> l.key, n |-> l.n] \in signed /\ l.key = k
          /\ l = [key |-> l.key, n |-> l.n, res |-> "ok"]
      BY DEF RelayerInv, RelayerTypes, ChainHolds
    <2>2. [key |-> l.key, n |-> l.n] \in Ahead(k)
      BY <2>1 DEF Ahead, Done
    <2>3. [key |-> l.key, n |-> l.n] = tx_of(k, tx[k])
      BY <2>2 DEF RelayerInv, SoleHolds
    <2>. QED BY <2>3 DEF tx_of
  <1>2. \A l, m \in E : l = m
    BY <1>1 DEF RelayerInv, ChainHolds
  <1>3. E = {} \/ \E l : E = {l}
    BY <1>2
  <1>4. Cardinality(E) = 0 \/ Cardinality(E) = 1
    BY <1>3, FS_EmptySet, FS_Singleton
  <1>. QED BY <1>4

\* An invite credit, an account's funding and a device link take effect at most once, nonces are
\* never reused, and what the records report is on the chain: for any number of requests at once,
\* whatever is lost, repeated, expired or read stale, across restarts of the object.
THEOREM RelayerSafeCorrect == ServicesSpec => []RelayerSafe
  <1>1. RelayerInv => RelayerSafe
    <2>1. RelayerInv => RelayerTypeOK
      BY KindCases DEF RelayerInv, RelayerTypes, RelayerTypeOK, Books, BookStates, TxRecords, LockHolds
    <2>. QED BY <2>1, OneEffect DEF RelayerInv, NoncesGiven, RelayerSafe
  <1>. QED BY <1>1, RelayerStarts, RelayerKeeps, PTL DEF ServicesSpec
=============================================================================
