------------------------- MODULE BridgeRulesProofs -------------------------
(***************************************************************************)
(* Proofs about what the services and the browser decide on state they     *)
(* only remember (MCBridgeRules), for any number of requests, rows, tabs   *)
(* and any delays.  A behaviour moves one of the modules: the invariant of *)
(* each holds throughout, whichever one that is.                           *)
(***************************************************************************)
EXTENDS MCBridgeRules, SumTheorems

-----------------------------------------------------------------------------
(* The refund desk. *)

InboxInv ==
    /\ escrow \in {"held", "refunding", "refunded", "released"}
    /\ rows \in [RowIds -> [status : {"none", "pending", "refunded", "declined"}, expires : Nat]]
    /\ buyer \in [Buyers -> [at : {"idle", "select", "insert"}, row : {0}, expires : Nat]]
    /\ tool \in [Tools -> [at : {"idle", "confirm", "wait", "record", "mark", "decline"},
                           row : 0 .. MaxRows, expires : {0}]]
    /\ refundTx \subseteq [by : Tools, row : RowIds]
    /\ day \in Nat
    \* a run at work has a row
    /\ \A t \in Tools : tool[t].at # "idle" => tool[t].row \in RowIds
    \* the index lets no second pending row in
    /\ \A r, q \in RowIds : rows[r].status = "pending" /\ rows[q].status = "pending" => r = q
    \* what a run read of the chain, and what it wrote, the chain has shown
    /\ escrow \in {"refunding", "refunded"} => everRefunded
    /\ \A t \in Tools : tool[t].at = "mark" => everRefunded
    /\ \A r \in RowIds : rows[r].status = "refunded" => everRefunded

\* It starts with an empty table and no run.
LEMMA InitInbox == InboxInit => InboxInv
  BY InboxAssumption DEF InboxInit, InboxInv, NoRow, NoErrand

\* The holder's requests: each looks for a pending one, and the index looks again.
LEMMA BuyerInbox ==
    ASSUME InboxInv, NEW b \in Buyers,
           verifyRefundRequest(b) \/ selectPending(b) \/ storeRefundRequest(b)
    PROVE  InboxInv'
  <1>1. CASE verifyRefundRequest(b)
    <2>1. /\ buyer' = [buyer EXCEPT ![b] = [at |-> "select", row |-> 0, expires |-> day + SignatureLife]]
          /\ UNCHANGED <<escrow, rows, tool, refundTx, everRefunded, day>>
      BY <1>1 DEF verifyRefundRequest
    <2>2. day + SignatureLife \in Nat
      BY InboxAssumption DEF InboxInv
    <2>. QED BY <2>1, <2>2 DEF InboxInv
  <1>2. CASE selectPending(b)
    BY <1>2 DEF selectPending, InboxInv, NoErrand
  <1>3. CASE storeRefundRequest(b)
    <2>1. buyer' \in [Buyers -> [at : {"idle", "select", "insert"}, row : {0}, expires : Nat]]
      BY <1>3 DEF storeRefundRequest, InboxInv, NoErrand
    <2>2. CASE UNCHANGED rows
      BY <1>3, <2>1, <2>2 DEF storeRefundRequest, InboxInv
    <2>3. ASSUME insertable, NEW r \in RowIds,
                 rows' = [rows EXCEPT ![r] = [status |-> "pending", expires |-> buyer[b].expires]]
          PROVE  InboxInv'
      <3>1. buyer[b].expires \in Nat
        BY DEF InboxInv
      <3>2. \A q \in RowIds : rows[q].status # "pending"
        BY <2>3 DEF insertable, openRows
      <3>. QED BY <1>3, <2>1, <2>3, <3>1, <3>2 DEF storeRefundRequest, InboxInv
    <2>. QED BY <1>3, <2>2, <2>3 DEF storeRefundRequest
  <1>. QED BY <1>1, <1>2, <1>3

\* A run moves alone.
LEMMA ToolMoves ==
    ASSUME InboxInv, NEW t \in Tools,
           NEW x \in [at : {"idle", "confirm", "wait", "record", "mark", "decline"},
                      row : 0 .. MaxRows, expires : {0}],
           x.at # "idle" => x.row \in RowIds, x.at = "mark" => everRefunded,
           tool' = [tool EXCEPT ![t] = x], refundTx' \subseteq [by : Tools, row : RowIds],
           UNCHANGED <<escrow, rows, buyer, everRefunded, day>>
    PROVE  InboxInv'
  <1>1. tool'[t] = x /\ \A u \in Tools \ {t} : tool'[u] = tool[u]
    BY DEF InboxInv
  <1>2. tool' \in [Tools -> [at : {"idle", "confirm", "wait", "record", "mark", "decline"},
                            row : 0 .. MaxRows, expires : {0}]]
    BY DEF InboxInv
  <1>. QED BY <1>1, <1>2 DEF InboxInv

\* The operator's runs: only a run that read the refund on chain marks a row.
LEMMA ToolInbox ==
    ASSUME InboxInv, NEW t \in Tools,
           \/ \E r \in RowIds : approves(t, r) \/ approvesTakedowns(t, r) \/ records(t, r) \/ declines(t, r)
           \/ sendRefund(t) \/ awaitRefund(t) \/ readsTicket(t) \/ decideRefundRequest(t)
    PROVE  InboxInv'
  <1>. DEFINE Run == [at : {"idle", "confirm", "wait", "record", "mark", "decline"},
                      row : 0 .. MaxRows, expires : {0}]
              to(x) == [at |-> x, row |-> tool[t].row, expires |-> 0]
  <1>0. /\ NoErrand \in Run /\ NoErrand.at = "idle"
        /\ \A r \in RowIds : r \in 0 .. MaxRows
        /\ tool[t] \in Run /\ refundTx \subseteq [by : Tools, row : RowIds]
    BY InboxAssumption DEF NoErrand, RowIds, InboxInv
  <1>1. ASSUME NEW r \in RowIds,
               approves(t, r) \/ approvesTakedowns(t, r) \/ records(t, r) \/ declines(t, r)
        PROVE  InboxInv'
    <2>1. PICK x \in {"confirm", "record", "decline"} :
             /\ tool' = [tool EXCEPT ![t] = [at |-> x, row |-> r, expires |-> 0]]
             /\ UNCHANGED <<escrow, takedown, rows, buyer, refundTx, everRefunded, day, bounces>>
      BY <1>1 DEF approves, approvesTakedowns, records, declines, NoErrand
    <2>2. PICK y \in Run : y = [at |-> x, row |-> r, expires |-> 0]
      BY <1>0
    <2>. QED BY <1>0, <2>1, <2>2, ToolMoves
  <1>2. ASSUME NEW x, tool[t].at # "idle", x \in {"wait", "record", "mark"},
               x = "mark" => everRefunded,
               tool' = [tool EXCEPT ![t].at = x] \/ tool' = [tool EXCEPT ![t] = NoErrand],
               refundTx' \subseteq [by : Tools, row : RowIds],
               UNCHANGED <<escrow, rows, buyer, everRefunded, day>>
        PROVE  InboxInv'
    <2>1. tool[t].row \in RowIds
      BY <1>2 DEF InboxInv
    <2>2. [tool[t] EXCEPT !.at = x] = to(x)
      BY <1>0
    <2>3. PICK y \in Run : y = to(x)
      BY <1>0, <1>2, <2>1
    <2>4. tool' = [tool EXCEPT ![t] = y] \/ tool' = [tool EXCEPT ![t] = NoErrand]
      BY <1>2, <2>2, <2>3
    <2>5. /\ y.at # "idle" => y.row \in RowIds
          /\ y.at = "mark" => everRefunded
          /\ NoErrand.at # "mark"
      BY <1>0, <1>2, <2>1, <2>3
    <2>. HIDE DEF to, Run
    <2>6. CASE tool' = [tool EXCEPT ![t] = y]
      BY <1>2, <2>3, <2>5, <2>6, ToolMoves DEF Run
    <2>7. CASE tool' = [tool EXCEPT ![t] = NoErrand]
      BY <1>0, <1>2, <2>5, <2>7, ToolMoves DEF Run
    <2>. QED BY <2>4, <2>6, <2>7
  <1>3. CASE sendRefund(t)
    <2>1. tool[t].row \in RowIds
      BY <1>3 DEF sendRefund, InboxInv
    <2>2. refundTx' \subseteq [by : Tools, row : RowIds]
      BY <1>0, <1>3, <2>1 DEF sendRefund
    <2>. QED BY <1>2, <1>3, <2>2 DEF sendRefund
  <1>4. CASE awaitRefund(t)
    <2>1. \/ tool' = [tool EXCEPT ![t].at = "record"]
          \/ tool' = [tool EXCEPT ![t] = NoErrand]
      BY <1>4 DEF awaitRefund
    <2>. QED BY <1>0, <1>2, <1>4, <2>1 DEF awaitRefund
  <1>5. CASE readsTicket(t)
    <2>1. chainShowsRefund => everRefunded
      BY DEF chainShowsRefund, shown, InboxInv
    <2>2. \/ everRefunded /\ tool' = [tool EXCEPT ![t].at = "mark"]
          \/ tool' = [tool EXCEPT ![t] = NoErrand]
      BY <1>5, <2>1 DEF readsTicket
    <2>. QED BY <1>0, <1>2, <1>5, <2>2 DEF readsTicket
  <1>6. CASE decideRefundRequest(t)
    <2>1. PICK r \in RowIds, x \in {"refunded", "declined"} :
             /\ rows' = rows \/ rows' = [rows EXCEPT ![r].status = x]
             /\ x = "refunded" => everRefunded
      BY <1>6 DEF decideRefundRequest, InboxInv
    <2>2. /\ tool' = [tool EXCEPT ![t] = NoErrand]
          /\ UNCHANGED <<escrow, takedown, buyer, refundTx, everRefunded, day, bounces>>
      BY <1>6 DEF decideRefundRequest
    <2>3. /\ tool' \in [Tools -> Run]
          /\ \A u \in Tools : tool'[u] = tool[u] \/ tool'[u].at = "idle"
      BY <1>0, <2>2 DEF InboxInv
    <2>4. /\ rows' \in [RowIds -> [status : {"none", "pending", "refunded", "declined"}, expires : Nat]]
          /\ \A q \in RowIds : /\ rows'[q].status = "pending" => rows[q].status = "pending"
                               /\ rows'[q].status = "refunded" => rows[q].status = "refunded" \/ everRefunded
      <3>1. rows \in [RowIds -> [status : {"none", "pending", "refunded", "declined"}, expires : Nat]]
        BY DEF InboxInv
      <3>2. CASE rows' = rows
        BY <3>1, <3>2
      <3>3. CASE rows' = [rows EXCEPT ![r].status = x]
        <4>1. \A q \in RowIds \ {r} : rows'[q] = rows[q]
          BY <3>1, <3>3
        <4>2. rows'[r] = [status |-> x, expires |-> rows[r].expires]
          BY <3>1, <3>3
        <4>. QED BY <2>1, <3>1, <3>3, <4>1, <4>2
      <3>. QED BY <2>1, <3>2, <3>3
    <2>5. \A q \in RowIds : rows'[q].status = "refunded" => everRefunded
      BY <2>4 DEF InboxInv
    <2>6. \A q, p \in RowIds : rows'[q].status = "pending" /\ rows'[p].status = "pending" => q = p
      <3>1. \A q, p \in RowIds : rows[q].status = "pending" /\ rows[p].status = "pending" => q = p
        BY DEF InboxInv
      <3>. QED BY <2>4, <3>1
    <2>7. \A u \in Tools : /\ tool'[u].at # "idle" => tool'[u].row \in RowIds
                           /\ tool'[u].at = "mark" => everRefunded
      BY <2>3 DEF InboxInv
    <2>. QED BY <2>2, <2>3, <2>4, <2>5, <2>6, <2>7 DEF InboxInv
  <1>. QED BY <1>1, <1>3, <1>4, <1>5, <1>6

\* Every step of the desk and of the contract.
LEMMA NextInbox == InboxInv /\ [InboxNext]_inboxVars => InboxInv'
  <1>. SUFFICES ASSUME InboxInv, [InboxNext]_inboxVars PROVE InboxInv'
    OBVIOUS
  <1>1. CASE UNCHANGED inboxVars
    BY <1>1 DEF inboxVars, InboxInv
  <1>2. ASSUME NEW x \in refundTx, refund_ticket(x) PROVE InboxInv'
    BY <1>2 DEF refund_ticket, InboxInv
  <1>3. CASE on_ticket_refund \/ holderRefunds \/ release_expired \/ takesDown \/ InboxTick
    BY <1>3 DEF on_ticket_refund, holderRefunds, refundable, release_expired, takesDown,
       InboxTick, InboxInv
  <1>. QED BY <1>1, <1>2, <1>3, BuyerInbox, ToolInbox DEF InboxNext

\* It is what the desk promises.
LEMMA InboxMeans == InboxInv => InboxSafe
  <1>. SUFFICES ASSUME InboxInv PROVE InboxSafe
    OBVIOUS
  <1>1. InboxTypeOK
    BY DEF InboxInv, InboxTypeOK
  <1>2. Cardinality(openRows) <= 1
    <2>1. CASE openRows = {}
      BY <2>1, FS_EmptySet
    <2>2. CASE openRows # {}
      <3>1. PICK r : r \in openRows
        BY <2>2
      <3>2. openRows = {r}
        BY <3>1 DEF openRows, InboxInv
      <3>. QED BY <3>2, FS_Singleton
    <2>. QED BY <2>1, <2>2
  <1>3. MarkedAfterRefund
    BY DEF InboxInv, MarkedAfterRefund
  <1>. QED BY <1>1, <1>2, <1>3 DEF InboxSafe, OneOpenRequest

-----------------------------------------------------------------------------
(* Fee quotes. *)

\* div_ceil is the usual rounding up.
LEMMA DivCeil ==
    ASSUME NEW n \in Nat, NEW d \in Nat \ {0}
    PROVE  /\ div_ceil(n, d) = (n + d - 1) \div d
           /\ div_ceil(n, d) \in Nat
  <1>1. PICK q \in Nat, r \in 0 .. d - 1 : q = n \div d /\ r = n % d /\ n = d * q + r
    OBVIOUS
  <1>2. CASE r = 0
    <2>1. n + d - 1 = d * q + (d - 1)
      BY <1>1, <1>2
    <2>2. (n + d - 1) \div d = q
      BY <2>1
    <2>. QED BY <1>1, <1>2, <2>2 DEF div_ceil
  <1>3. CASE r # 0
    <2>1. n + d - 1 = d * (q + 1) + (r - 1)
      BY <1>1, <1>3
    <2>2. (n + d - 1) \div d = q + 1
      BY <2>1, <1>3
    <2>. QED BY <1>1, <1>3, <2>2 DEF div_ceil
  <1>. QED BY <1>2, <1>3

\* The bridge's rounding and the contract's give the same fee.
LEMMA SameFee ==
    ASSUME NEW b \in SourceSizes
    PROVE  upload_fee_usdc(b) = feeUsdMicro(b) /\ feeUsdMicro(b) \in Nat
  <1>1. /\ b \in Nat /\ Numerator \in Nat /\ MinFee \in Nat
        /\ Denominator \in Nat \ {0}
    BY FeeConstantsAssumption
  <1>2. PICK n \in Nat : n = b * Numerator
    BY <1>1
  <1>3. PICK c \in Nat : c = div_ceil(n, Denominator) /\ c = (n + Denominator - 1) \div Denominator
    BY <1>1, DivCeil
  <1>4. byteFeeUsdMicro(b) = c
    BY <1>2, <1>3 DEF byteFeeUsdMicro
  <1>5. feeUsdMicro(b) = IF c < MinFee THEN MinFee ELSE c
    BY <1>4 DEF feeUsdMicro
  <1>6. upload_fee_usdc(b) = Max({c, MinFee})
    BY <1>2, <1>3 DEF upload_fee_usdc
  <1>7. Max({c, MinFee}) = IF c < MinFee THEN MinFee ELSE c
    BY <1>1 DEF Max
  <1>. QED BY <1>1, <1>5, <1>6, <1>7

\* What was issued from a tick on.
From(f, t) == SumFunctionOnSet(f, {u \in 0 .. MaxWall : t <= u})
Counter == [0 .. MaxWall -> Nat]

\* It is a number, grows backwards, and is what was issued in between and after.
LEMMA FromType ==
    ASSUME NEW f \in Counter, NEW t \in Int
    PROVE  From(f, t) \in Nat
  <1>0. IsFiniteSet(0 .. MaxWall)
    BY FeeConstantsAssumption, FS_Interval
  <1>1. IsFiniteSet({u \in 0 .. MaxWall : t <= u})
    BY <1>0, FS_Subset
  <1>2. \A u \in {u \in 0 .. MaxWall : t <= u} : f[u] \in Nat
    BY DEF Counter
  <1>. QED BY <1>1, <1>2, SumIsNat DEF From

\* The quotes made from a time on are those made before another time and those made from it on.
LEMMA FromSplit ==
    ASSUME NEW f \in Counter, NEW t \in Int, NEW e \in Int, t <= e
    PROVE  /\ From(f, t) = SumFunctionOnSet(f, {u \in 0 .. MaxWall : t <= u /\ u < e}) + From(f, e)
           /\ From(f, e) <= From(f, t)
          /\ SumFunctionOnSet(f, {u \in 0 .. MaxWall : t <= u /\ u < e}) \in Nat
  <1>. DEFINE S == {u \in 0 .. MaxWall : t <= u /\ u < e}
              T == {u \in 0 .. MaxWall : e <= u}
  <1>0. IsFiniteSet(0 .. MaxWall)
    BY FeeConstantsAssumption, FS_Interval
  <1>1. IsFiniteSet(S) /\ IsFiniteSet(T)
    BY <1>0, FS_Subset
  <1>2. S \cap T = {} /\ S \cup T = {u \in 0 .. MaxWall : t <= u}
    BY FeeConstantsAssumption
  <1>3. (\A u \in S \cup T : f[u] \in Int) /\ (\A u \in S : f[u] \in Nat)
    BY DEF Counter
  <1>4. SumFunctionOnSet(f, S \cup T) = SumFunctionOnSet(f, S) + SumFunctionOnSet(f, T)
    <2>. HIDE DEF S, T
    <2>. QED BY <1>1, <1>2, <1>3, SumUnion
  <1>5. SumFunctionOnSet(f, S) \in Nat
    <2>. HIDE DEF S
    <2>. QED BY <1>1, <1>3, SumIsNat
  <1>6. From(f, e) \in Nat
    BY FromType
  <1>. QED BY <1>2, <1>4, <1>5, <1>6 DEF From

\* One more quote at a tick counts from every earlier tick.
LEMMA FromIssue ==
    ASSUME NEW f \in Counter, NEW w \in 0 .. MaxWall, NEW t \in Int
    PROVE  LET g == [f EXCEPT ![w] = @ + 1] IN
           /\ g \in Counter
           /\ t <= w => From(g, t) = From(f, t) + 1
           /\ t > w => From(g, t) = From(f, t)
  <1>1. PICK g : g = [f EXCEPT ![w] = @ + 1]
    OBVIOUS
  <1>2. g \in Counter /\ g[w] = f[w] + 1 /\ \A u \in (0 .. MaxWall) \ {w} : g[u] = f[u]
    BY <1>1 DEF Counter
  <1>. DEFINE T == {u \in 0 .. MaxWall : t <= u}
  <1>0. IsFiniteSet(0 .. MaxWall)
    BY FeeConstantsAssumption, FS_Interval
  <1>3. IsFiniteSet(T) /\ T \subseteq 0 .. MaxWall
    BY <1>0, FS_Subset
  <1>4. \A u \in T : f[u] \in Int /\ g[u] \in Int
    BY <1>2, <1>3 DEF Counter
  <1>5. ASSUME t <= w PROVE From(g, t) = From(f, t) + 1
    <2>1. w \in T
      BY <1>5
    <2>2. f[w] \in Int
      BY DEF Counter
    <2>3. SumFunctionOnSet(g, T) = SumFunctionOnSet(f, T) + (g[w] - f[w])
      <3>. HIDE DEF T
      <3>1. \A u \in T \ {w} : g[u] = f[u]
        BY <1>2, <1>3
      <3>2. IsFiniteSet(T)
        BY <1>3
      <3>. QED BY <1>4, <2>1, <3>1, <3>2, SumChange
    <2>4. From(f, t) \in Nat
      BY FromType
    <2>. QED BY <1>2, <2>2, <2>3, <2>4 DEF From
  <1>6. ASSUME t > w PROVE From(g, t) = From(f, t)
    <2>1. \A u \in T : f[u] = g[u]
      BY <1>2, <1>6, FeeConstantsAssumption
    <2>2. SumFunctionOnSet(f, T) = SumFunctionOnSet(g, T)
      <3>. HIDE DEF T
      <3>. QED BY <1>3, <2>1, SumSame
    <2>. QED BY <2>2 DEF From
  <1>. QED BY <1>1, <1>2, <1>5, <1>6

\* The record of the creator's object, and what it says of the quotes issued: those
\* of its window are counted, none was issued after it, and the window before it, or
\* the last one forgotten, kept the limit as well.
WindowInv(w, r, f) ==
    /\ r \in [start : 0 .. w, count : 0 .. RateLimit]
    /\ f \in Counter
    /\ From(f, w + 1) = 0
    /\ r.count > 0 =>
          /\ From(f, r.start) <= r.count
          /\ From(f, r.start + RateWindow) = 0
          /\ \A t \in Int : r.start - RateWindow < t /\ t <= r.start
                               => From(f, t) - From(f, r.start) <= RateLimit
    /\ r.count = 0 =>
          /\ From(f, w) = 0
          /\ \A t \in Int : w - RateWindow < t => From(f, t) <= RateLimit
    /\ \A t \in Int : From(f, t) - From(f, t + RateWindow) <= 2 * RateLimit

\* A quote is counted in the window, or opens a new one.
LEMMA WindowCounts ==
    ASSUME NEW w \in 0 .. MaxWall, NEW r, NEW f, WindowInv(w, r, f), NEW n,
           n = IF r.count = 0 \/ w - r.start >= RateWindow
               THEN [start |-> w, count |-> 1] ELSE [r EXCEPT !.count = @ + 1],
           n.count <= RateLimit, NEW g, g = f \/ g = [f EXCEPT ![w] = @ + 1]
    PROVE  WindowInv(w, n, g)
  <1>1. /\ RateWindow \in Nat \ {0} /\ RateLimit \in Nat /\ w \in Nat /\ MaxWall \in Nat
        /\ f \in Counter /\ r.start \in 0 .. w /\ r.count \in 0 .. RateLimit
        /\ From(f, w + 1) = 0
    BY FeeConstantsAssumption DEF WindowInv
  <1>2. \A t \in Int : From(f, t) \in Nat
    BY <1>1, FromType
  <1>3. \A t, e \in Int : t <= e => From(f, e) <= From(f, t)
    BY <1>1, FromSplit
  <1>4. /\ g \in Counter
        /\ \A t \in Int : From(g, t) \in Nat
        /\ \A t \in Int : t > w => From(g, t) = From(f, t)
        /\ \/ \A t \in Int : t <= w => From(g, t) = From(f, t)
           \/ \A t \in Int : t <= w => From(g, t) = From(f, t) + 1
    BY <1>1, <1>2, FromIssue
  <1>5. \A t, e \in Int : t <= e => From(g, e) <= From(g, t)
    BY <1>4, FromSplit
  <1>6. \A t \in Int : From(f, t) - From(f, t + RateWindow) <= 2 * RateLimit
    BY DEF WindowInv
  <1>7. CASE r.count > 0 /\ w - r.start < RateWindow
    <2>1. /\ n = [start |-> r.start, count |-> r.count + 1]
          /\ n.start = r.start /\ n.count = r.count + 1
      BY <1>1, <1>7 DEF WindowInv
    <2>2. /\ From(f, r.start) <= r.count
          /\ From(f, r.start + RateWindow) = 0
          /\ \A t \in Int : r.start - RateWindow < t /\ t <= r.start
                               => From(f, t) - From(f, r.start) <= RateLimit
      BY <1>7 DEF WindowInv
    <2>3. n \in [start : 0 .. w, count : 0 .. RateLimit]
      BY <1>1, <2>1
    <2>4. From(g, r.start) <= n.count /\ From(g, r.start + RateWindow) = 0
      BY <1>1, <1>2, <1>4, <1>7, <2>1, <2>2
    <2>5. \A t \in Int : r.start - RateWindow < t /\ t <= r.start
                            => From(g, t) - From(g, r.start) <= RateLimit
      BY <1>1, <1>2, <1>4, <2>2
    <2>6. From(g, w + 1) = 0
      BY <1>1, <1>4
    <2>7. ASSUME NEW t \in Int PROVE From(g, t) - From(g, t + RateWindow) <= 2 * RateLimit
      <3>1. CASE t > w \/ t + RateWindow <= w
        BY <1>1, <1>2, <1>4, <1>6, <3>1
      <3>2. CASE r.start <= t /\ t <= w
        BY <1>1, <1>4, <1>5, <2>1, <2>4, <3>2
      <3>3. CASE t < r.start /\ w < t + RateWindow
        BY <1>1, <1>4, <2>1, <2>4, <2>5, <3>3
      <3>. QED BY <1>1, <3>1, <3>2, <3>3
    <2>. QED BY <1>4, <2>1, <2>3, <2>4, <2>5, <2>6, <2>7 DEF WindowInv
  <1>8. CASE r.count = 0 \/ w - r.start >= RateWindow
    <2>1. n = [start |-> w, count |-> 1] /\ n.start = w /\ n.count = 1 /\ 1 <= RateLimit
      BY <1>8
    <2>2. From(f, w) = 0 /\ \A t \in Int : w - RateWindow < t => From(f, t) <= RateLimit
      <3>1. CASE r.count = 0
        BY <3>1 DEF WindowInv
      <3>2. CASE r.count > 0
        <4>1. From(f, r.start) <= r.count /\ From(f, r.start + RateWindow) = 0
          BY <3>2 DEF WindowInv
        <4>2. From(f, w) = 0
          BY <1>1, <1>2, <1>3, <1>8, <3>2, <4>1
        <4>3. ASSUME NEW t \in Int, w - RateWindow < t PROVE From(f, t) <= RateLimit
          BY <1>1, <1>2, <1>3, <1>8, <3>2, <4>1, <4>3
        <4>. QED BY <4>2, <4>3
      <3>. QED BY <1>1, <3>1, <3>2
    <2>3. n \in [start : 0 .. w, count : 0 .. RateLimit]
      BY <1>1, <2>1
    <2>4. From(g, w) <= 1 /\ From(g, w + 1) = 0
      BY <1>1, <1>4, <2>2
    <2>5. From(g, w + RateWindow) = 0
      BY <1>1, <1>4, <1>5, <2>4
    <2>6. \A t \in Int : w - RateWindow < t /\ t <= w => From(g, t) - From(g, w) <= RateLimit
      BY <1>1, <1>2, <1>4, <2>2
    <2>7. ASSUME NEW t \in Int PROVE From(g, t) - From(g, t + RateWindow) <= 2 * RateLimit
      <3>1. CASE t > w \/ t + RateWindow <= w
        BY <1>1, <1>2, <1>4, <1>6, <3>1
      <3>2. CASE t <= w /\ w < t + RateWindow
        BY <1>1, <1>2, <1>4, <2>1, <2>2, <3>2
      <3>. QED BY <1>1, <3>1, <3>2
    <2>. QED BY <1>4, <2>1, <2>3, <2>4, <2>5, <2>6, <2>7 DEF WindowInv
  <1>. QED BY <1>1, <1>7, <1>8

\* The alarm forgets a window that is over.
LEMMA WindowForgotten ==
    ASSUME NEW w \in 0 .. MaxWall, NEW r, NEW f, WindowInv(w, r, f),
           r.count > 0, w - r.start >= RateWindow
    PROVE  WindowInv(w, NoWindow, f)
  <1>1. /\ RateWindow \in Nat \ {0} /\ RateLimit \in Nat /\ w \in Nat
        /\ f \in Counter /\ r.start \in 0 .. w /\ r.count \in 0 .. RateLimit
    BY FeeConstantsAssumption DEF WindowInv
  <1>2. From(f, r.start) <= r.count /\ From(f, r.start + RateWindow) = 0
    BY DEF WindowInv
  <1>3. \A t \in Int : From(f, t) \in Nat
    BY <1>1, FromType
  <1>4. \A t, e \in Int : t <= e => From(f, e) <= From(f, t)
    BY <1>1, FromSplit
  <1>5. From(f, w) = 0
    BY <1>1, <1>2, <1>3, <1>4
  <1>6. ASSUME NEW t \in Int, w - RateWindow < t PROVE From(f, t) <= RateLimit
    BY <1>1, <1>2, <1>3, <1>4, <1>6
  <1>7. /\ NoWindow.start = 0 /\ NoWindow.count = 0
        /\ NoWindow \in [start : 0 .. w, count : 0 .. RateLimit]
    BY <1>1 DEF NoWindow
  <1>. QED BY <1>5, <1>6, <1>7 DEF WindowInv

\* Time passes.
LEMMA WindowTicks ==
    ASSUME NEW w \in 0 .. MaxWall, NEW r, NEW f, WindowInv(w, r, f)
    PROVE  WindowInv(w + 1, r, f)
  <1>1. /\ RateWindow \in Nat \ {0} /\ RateLimit \in Nat /\ w \in Nat
        /\ f \in Counter /\ r \in [start : 0 .. w, count : 0 .. RateLimit]
        /\ From(f, w + 1) = 0
    BY FeeConstantsAssumption DEF WindowInv
  <1>2. \A t \in Int : From(f, t) \in Nat
    BY <1>1, FromType
  <1>3. \A t, e \in Int : t <= e => From(f, e) <= From(f, t)
    BY <1>1, FromSplit
  <1>4. From(f, w + 2) = 0
    <2>1. From(f, w + 2) \in Nat /\ From(f, w + 2) <= From(f, w + 1)
      BY <1>1, <1>2, <1>3
    <2>. QED BY <1>1, <2>1
  <1>5. \A t \in Int : (w + 1) - RateWindow < t => w - RateWindow < t
    BY <1>1
  <1>6. r \in [start : 0 .. w + 1, count : 0 .. RateLimit] /\ (w + 1) + 1 = w + 2
    BY <1>1
  <1>. QED BY <1>1, <1>4, <1>5, <1>6 DEF WindowInv

-----------------------------------------------------------------------------
\* A quote is what the bridge computes from the source's size and the rate it read.
FeeInv ==
    /\ wall \in 0 .. MaxWall /\ block \in [time : 0 .. wall, height : Nat]
    /\ oracle \in [price : Rates, at : 0 .. block.time]
    /\ bridgeKey \in {1, 2} /\ contractKey \in {1, 2} /\ bridgeKey <= contractKey
    /\ WindowInv(wall, rateRecord, issued)
    /\ quote.kind \in {"none", "near", "sponsored"}
    /\ quote.kind = "near" =>
          /\ quote.bytes \in SourceSizes /\ quote.rate \in Rates
          /\ quote.usd = feeUsdMicro(quote.bytes)
          /\ quote.amount = (feeUsdMicro(quote.bytes) * Yocto + quote.rate - 1) \div quote.rate
          /\ quote.at \in 0 .. block.time /\ quote.expires = quote.at + Lifetime
    /\ quote.kind = "sponsored" =>
          /\ quote.bytes \in SourceSizes
          /\ quote.usd = feeUsdMicro(quote.bytes)
          /\ quote.at \in 0 .. block.time /\ quote.expires = quote.at + Lifetime

\* No quote was issued yet.
LEMMA InitFee == FeeInit => FeeInv
  <1>. SUFFICES ASSUME FeeInit PROVE FeeInv
    OBVIOUS
  <1>1. /\ MaxWall \in Nat /\ RateLimit \in Nat /\ RateWindow \in Nat \ {0}
    BY FeeConstantsAssumption
  <1>2. /\ wall = 0 /\ block = [time |-> 0, height |-> 1]
        /\ oracle \in [price : Rates, at : {0}] /\ bridgeKey = 1 /\ contractKey = 1
        /\ rateRecord = NoWindow /\ quote.kind = "none"
    BY DEF FeeInit, NoQuote
  <1>3. issued = [t \in 0 .. MaxWall |-> 0] /\ issued \in Counter
    BY <1>1 DEF FeeInit, Counter
  <1>4. IsFiniteSet(0 .. MaxWall)
    BY <1>1, FS_Interval
  <1>5. ASSUME NEW t \in Int PROVE From(issued, t) = 0
    <2>. DEFINE T == {u \in 0 .. MaxWall : t <= u}
    <2>1. IsFiniteSet(T)
      BY <1>4, FS_Subset
    <2>2. \A u \in T : issued[u] = 0
      BY <1>3
    <2>3. 0 \in {0} /\ \A a, b \in {0} : a + b \in {0}
      OBVIOUS
    <2>4. SumFunctionOnSet(issued, T) \in {0}
      <3>1. \A u \in T : issued[u] \in {0}
        BY <2>2
      <3>. HIDE DEF T
      <3>. QED BY <2>1, <2>3, <3>1, SumIn
    <2>. QED BY <2>4 DEF From
  <1>6. NoWindow.count = 0 /\ NoWindow \in [start : 0 .. 0, count : 0 .. RateLimit]
    BY <1>1 DEF NoWindow
  <1>7. \A t \in Int : From(issued, t) - From(issued, t + RateWindow) = 0
    BY <1>1, <1>5
  <1>8. WindowInv(0, NoWindow, issued)
    <2>1. From(issued, 0) = 0 /\ From(issued, 0 + 1) = 0 /\ ~(NoWindow.count > 0)
      BY <1>1, <1>5, <1>6
    <2>2. \A t \in Int : From(issued, t) <= RateLimit
      BY <1>1, <1>5
    <2>3. \A t \in Int : From(issued, t) - From(issued, t + RateWindow) <= 2 * RateLimit
      BY <1>1, <1>7
    <2>. QED BY <1>3, <1>6, <2>1, <2>2, <2>3 DEF WindowInv
  <1>. QED BY <1>1, <1>2, <1>8 DEF FeeInv

\* Every step of the bridge, the oracle, the chain and the rotation.
LEMMA NextFee == FeeInv /\ [FeeNext]_quoteVars => FeeInv'
  <1>. SUFFICES ASSUME FeeInv, [FeeNext]_quoteVars PROVE FeeInv'
    OBVIOUS
  <1>0. /\ wall \in 0 .. MaxWall /\ WindowInv(wall, rateRecord, issued)
        /\ MaxWall \in Nat /\ RateLimit \in Nat /\ RateWindow \in Nat \ {0}
        /\ block.time \in 0 .. wall /\ block \in [time : 0 .. wall, height : Nat]
        /\ oracle \in [price : Rates, at : 0 .. block.time]
        /\ bridgeKey \in {1, 2} /\ contractKey \in {1, 2} /\ bridgeKey <= contractKey
    BY FeeConstantsAssumption DEF FeeInv
  <1>1. ASSUME enforceCreatorFeeQuoteRateLimit, NEW g,
               g = issued \/ g = [issued EXCEPT ![wall] = @ + 1]
        PROVE  WindowInv(wall, rateRecord', g)
    BY <1>0, <1>1, WindowCounts DEF enforceCreatorFeeQuoteRateLimit, nextWindow
  <1>2. ASSUME NEW b \in SourceSizes, issueCreatorFeeQuote(b) PROVE FeeInv'
    <2>1. enforceCreatorFeeQuoteRateLimit /\ issued' = [issued EXCEPT ![wall] = @ + 1]
      BY <1>2 DEF issueCreatorFeeQuote
    <2>2. WindowInv(wall, rateRecord', issued')
      BY <1>1, <2>1
    <2>3. /\ quote'.kind = "near" /\ quote'.bytes = b /\ quote'.usd = feeUsdMicro(b)
          /\ quote'.rate = oracle.price
          /\ quote'.amount = (feeUsdMicro(b) * Yocto + oracle.price - 1) \div oracle.price
          /\ quote'.at = oracle.at /\ quote'.expires = oracle.at + Lifetime
          /\ UNCHANGED <<wall, block, oracle, bridgeKey, contractKey>>
      BY <1>2 DEF issueCreatorFeeQuote
    <2>. QED BY <1>0, <2>2, <2>3 DEF FeeInv
  <1>3. ASSUME NEW b \in SourceSizes, issueSponsoredUploadQuote(b) PROVE FeeInv'
    <2>1. enforceCreatorFeeQuoteRateLimit /\ issued' = [issued EXCEPT ![wall] = @ + 1]
      BY <1>3 DEF issueSponsoredUploadQuote
    <2>2. WindowInv(wall, rateRecord', issued')
      BY <1>1, <2>1
    <2>3. /\ quote'.kind = "sponsored" /\ quote'.bytes = b /\ quote'.usd = feeUsdMicro(b)
          /\ quote'.at = block.time /\ quote'.expires = block.time + Lifetime
          /\ UNCHANGED <<wall, block, oracle, bridgeKey, contractKey>>
      BY <1>3 DEF issueSponsoredUploadQuote
    <2>. QED BY <1>0, <2>2, <2>3 DEF FeeInv
  <1>4. CASE quoteFails
    <2>1. WindowInv(wall, rateRecord', issued)
      BY <1>1, <1>4 DEF quoteFails
    <2>. QED BY <1>4, <2>1 DEF quoteFails, FeeInv
  <1>5. CASE expireCreatorFeeQuoteRateLimit
    <2>1. WindowInv(wall, rateRecord', issued)
      BY <1>0, <1>5, WindowForgotten DEF expireCreatorFeeQuoteRateLimit
    <2>. QED BY <1>5, <2>1 DEF expireCreatorFeeQuoteRateLimit, FeeInv
  <1>6. CASE FeeTick
    <2>1. WindowInv(wall + 1, rateRecord, issued)
      BY <1>0, WindowTicks
    <2>2. wall' = wall + 1 /\ wall + 1 \in 0 .. MaxWall /\ block' = block /\ block.time \in 0 .. wall + 1
      BY <1>0, <1>6 DEF FeeTick
    <2>3. block' \in [time : 0 .. wall', height : Nat]
      BY <1>0, <2>2
    <2>. QED BY <1>6, <2>1, <2>2, <2>3 DEF FeeTick, FeeInv
  <1>7. CASE BlockFinal
    <2>1. PICK t \in (block.time + 1) .. wall : block' = [time |-> t, height |-> block.height + 1]
      BY <1>7 DEF BlockFinal
    <2>2. /\ block' \in [time : 0 .. wall, height : Nat] /\ block.time <= block'.time
          /\ block'.time \in Nat
      BY <1>0, <2>1
    <2>3. \A u \in 0 .. block.time : u \in 0 .. block'.time
      BY <1>0, <2>2
    <2>4. oracle \in [price : Rates, at : 0 .. block'.time]
      BY <1>0, <2>3
    <2>. QED BY <1>7, <2>2, <2>3, <2>4 DEF BlockFinal, FeeInv
  <1>8. CASE OracleMoves
    BY <1>0, <1>8 DEF OracleMoves, FeeInv
  <1>9. CASE rotate_quote_public_key
    BY <1>9 DEF rotate_quote_public_key, FeeInv
  <1>10. CASE UNCHANGED quoteVars
    BY <1>10 DEF quoteVars, FeeInv
  <1>. QED BY <1>2, <1>3, <1>4, <1>5, <1>6, <1>7, <1>8, <1>9, <1>10 DEF FeeNext

\* It is what the quotes promise.
LEMMA FeeMeans == FeeInv => QuotesSafe
  <1>. SUFFICES ASSUME FeeInv PROVE QuotesSafe
    OBVIOUS
  <1>0. /\ wall \in 0 .. MaxWall /\ WindowInv(wall, rateRecord, issued)
        /\ MaxWall \in Nat /\ RateLimit \in Nat /\ RateWindow \in Nat \ {0}
        /\ SourceAge \in Nat /\ Lifetime \in Nat /\ SourceAge < Lifetime
        /\ block \in [time : 0 .. wall, height : Nat] /\ block.time \in Nat
    BY FeeConstantsAssumption DEF FeeInv
  <1>1. FeeTypeOK
    <2>1. rateRecord \in [start : 0 .. MaxWall, count : 0 .. RateLimit]
      BY <1>0 DEF WindowInv
    <2>. QED BY <1>0, <2>1 DEF FeeInv, FeeTypeOK
  <1>2. ASSUME quote.kind = "near", quote.version = bridgeKey, contractKey = bridgeKey,
               block.time - quote.at <= SourceAge
        PROVE  verify_creator_fee_quote(quote, quote.bytes)
    <2>1. /\ quote.bytes \in SourceSizes /\ quote.rate \in Rates
          /\ quote.usd = feeUsdMicro(quote.bytes)
          /\ quote.amount = (feeUsdMicro(quote.bytes) * Yocto + quote.rate - 1) \div quote.rate
          /\ quote.at \in 0 .. block.time /\ quote.expires = quote.at + Lifetime
      BY <1>2 DEF FeeInv
    <2>2. /\ upload_fee_usdc(quote.bytes) = feeUsdMicro(quote.bytes)
          /\ feeUsdMicro(quote.bytes) \in Nat
      BY <2>1, SameFee
    <2>3. PICK n \in Nat : n = feeUsdMicro(quote.bytes) * Yocto
      BY <2>2, FeeConstantsAssumption
    <2>4. div_ceil(n, quote.rate) = (n + quote.rate - 1) \div quote.rate
      BY <2>1, FeeConstantsAssumption, DivCeil
    <2>5. quote.amount = div_ceil(upload_fee_usdc(quote.bytes) * Yocto, quote.rate)
      BY <2>1, <2>2, <2>3, <2>4
    <2>6. /\ quote.at <= block.time /\ quote.expires > block.time
          /\ quote.expires - quote.at <= Lifetime
      BY <1>0, <1>2, <2>1
    <2>. QED BY <1>2, <2>1, <2>2, <2>5, <2>6 DEF verify_creator_fee_quote
  <1>3. ASSUME quote.kind = "sponsored", contractKey = bridgeKey,
               verifySponsoredUploadQuote(quote, quote.bytes), quoteIsFresh(quote)
        PROVE  verify_sponsored_upload_quote(quote, quote.bytes)
    <2>1. /\ quote.bytes \in SourceSizes /\ quote.at \in 0 .. block.time
          /\ quote.expires = quote.at + Lifetime
      BY <1>3 DEF FeeInv
    <2>2. upload_fee_usdc(quote.bytes) = feeUsdMicro(quote.bytes)
      BY <2>1, SameFee
    <2>3. /\ quote.version = bridgeKey /\ quote.usd = feeUsdMicro(quote.bytes)
          /\ quote.amount = feeUsdMicro(quote.bytes) + SponsorFee
          /\ quote.expires > quote.at /\ quote.expires - quote.at <= Lifetime
      BY <1>3 DEF verifySponsoredUploadQuote
    <2>4. /\ wall - quote.at <= Lifetime /\ quote.expires > wall
          /\ block.height >= quote.height /\ block.height <= quote.height + BlockWindow
      BY <1>3 DEF quoteIsFresh
    <2>5. /\ quote.at <= block.time /\ block.time - quote.at <= Lifetime
          /\ quote.expires > block.time
      BY <1>0, <2>1, <2>4
    <2>6. quote.height <= block.height
      BY <2>4
    <2>. QED BY <1>3, <2>2, <2>3, <2>4, <2>5, <2>6 DEF verify_sponsored_upload_quote
  <1>4. QuotesLimited
    <2>. SUFFICES ASSUME NEW t \in 0 .. MaxWall
                  PROVE  SumFunctionOnSet(issued, {u \in 0 .. MaxWall : t <= u /\ u < t + RateWindow})
                            <= 2 * RateLimit
      BY DEF QuotesLimited
    <2>1. t \in Int /\ t + RateWindow \in Int /\ t <= t + RateWindow /\ issued \in Counter
      BY <1>0 DEF WindowInv
    <2>2. From(issued, t) - From(issued, t + RateWindow) <= 2 * RateLimit
      BY <1>0, <2>1 DEF WindowInv
    <2>. DEFINE n == SumFunctionOnSet(issued, {u \in 0 .. MaxWall : t <= u /\ u < t + RateWindow})
    <2>3. From(issued, t) = n + From(issued, t + RateWindow)
      BY <2>1, FromSplit
    <2>4. From(issued, t + RateWindow) \in Nat /\ From(issued, t) \in Nat
      BY <2>1, FromType
    <2>5. n \in Nat
      BY <2>1, FromSplit
    <2>. HIDE DEF n
    <2>6. n <= 2 * RateLimit
      BY <1>0, <2>2, <2>3, <2>4, <2>5
    <2>. QED BY <2>6 DEF n
  <1>. QED BY <1>1, <1>2, <1>3, <1>4 DEF QuotesSafe, QuotesHonoured


-----------------------------------------------------------------------------
(* Admission. *)

ClosureCodes == {"none", "monthly_budget_exceeded", "provider_budget_or_inventory", "provider_unavailable"}
Reservations == [state : {"none", "held", "CREATE_AMBIGUOUS"}, lease : Nat, deadline : Nat]
AdmissionRecords ==
    [status : {"NONE", "OPEN", "AUTO_CLOSED"}, closure : [code : ClosureCodes, at : Nat],
     reservations : [Uploads -> Reservations], day : Nat, attempts : [Creators -> Nat],
     month : Nat, reserved : Nat, failures : Nat, failedAt : Nat, stream : [Uploads -> Nat]]

\* The reservations a record holds are places the deployment has, one for a creator; none
\* outlasts a lease taken now; the Stream minutes fit.
Places(R) ==
    /\ R \in AdmissionRecords
    /\ Cardinality(held(R)) <= site.concurrency
    /\ \A u, v \in held(R) : site.creatorOf[u] = site.creatorOf[v] => u = v
    /\ \A u \in Uploads : R.reservations[u].state = "none" => R.reservations[u] = NoReservation
    /\ \A u \in Uploads : R.reservations[u].deadline <= time + LeaseTTL
    /\ site.stream => Cardinality(liveStreamReservations(R)) <= StreamBudget
    /\ R.day <= utcDay /\ R.month <= utcMonth

Leases(R, known) == \A u \in Uploads : R.reservations[u].lease <= known[u]

\* n closures so far, i the last incident nobody has reopened after.
ClosedFor(R, n, i) ==
    /\ R.status = "AUTO_CLOSED" <=> R.closure # NoClosure
    /\ R.closure.at <= n
    /\ i # 0 => /\ R.status = "AUTO_CLOSED" /\ R.closure.at = i
                /\ R.closure.code # "monthly_budget_exceeded"

OfDay(g, c, d) == {h \in g : site.creatorOf[h.upload] = c /\ h.at \div DayTicks = d}
OfMonth(g, m) == {h \in g : h.at \div MonthTicks = m}

\* A record counts at least the reservations made in its day and its month, which are the last.
Counts(R, g) ==
    /\ \A c \in Creators : Cardinality(OfDay(g, c, R.day)) <= R.attempts[c]
    /\ Cardinality(OfMonth(g, R.month)) <= R.reserved
    /\ \A h \in g : h.at \div DayTicks <= R.day /\ h.at \div MonthTicks <= R.month

Quotas(g) ==
    /\ g \subseteq [upload : Uploads, lease : Nat, at : 0 .. time] /\ IsFiniteSet(g)
    /\ \A c \in Creators, d \in Nat : Cardinality(OfDay(g, c, d)) <= DailyAttempts
    /\ ~site.public => \A m \in Nat : Cardinality(OfMonth(g, m)) <= MonthlyBudget

AlarmSet(R, a) ==
    /\ a \in -1 .. (MaxTime + LeaseTTL)
    /\ \A u \in held(R) : a # -1 /\ a <= leaseDeadline(R.reservations[u])

AdmissionInv ==
    /\ site \in Sites /\ time \in 0 .. MaxTime
    /\ leaseKnown \in [Uploads -> Nat] /\ closures \in Nat /\ incident \in Nat
    /\ Places(admission) /\ Leases(admission, leaseKnown)
    /\ ClosedFor(admission, closures, incident)
    /\ Counts(admission, grants) /\ Quotas(grants)
    /\ AlarmSet(admission, lifecycleAlarm)
    /\ admission.status = "NONE" => grants = {} /\ \A u \in Uploads : leaseKnown[u] = 0

\* Facts on the constants and the clocks.
Grounds ==
    /\ IsFiniteSet(Uploads) /\ time \in Nat /\ utcDay \in Nat /\ utcMonth \in Nat
    /\ site \in [public : BOOLEAN, stream : BOOLEAN, concurrency : Nat, creatorOf : [Uploads -> Creators]]
    /\ {LeaseTTL, AmbiguousTimeout, StreamTicks, FailureWindow, FailureLimit} \subseteq Nat
    /\ {DailyAttempts, MonthlyBudget, StreamBudget, MaxTime} \subseteq Nat
    /\ AmbiguousTimeout <= LeaseTTL /\ LeaseTTL > 0

\* A clock's day does not go backwards.
LEMMA DivGrows ==
    ASSUME NEW a \in Nat, NEW b \in Nat, a <= b, NEW d \in Nat \ {0}
    PROVE  a \div d \in Nat /\ a \div d <= b \div d
  <1>1. PICK p \in Nat, r \in 0 .. d - 1 : p = a \div d /\ a = d * p + r
    OBVIOUS
  <1>2. PICK q \in Nat, s \in 0 .. d - 1 : q = b \div d /\ b = d * q + s
    OBVIOUS
  <1>3. SUFFICES ASSUME q < p PROVE FALSE
    BY <1>1, <1>2
  <1>4. d * (q + 1) <= d * p
    BY <1>1, <1>2, <1>3
  <1>. QED BY <1>1, <1>2, <1>4

\* The constants and clocks are numbers.
LEMMA GroundsHold == site \in Sites /\ time \in 0 .. MaxTime => Grounds
  <1>. SUFFICES ASSUME site \in Sites, time \in 0 .. MaxTime PROVE Grounds
    OBVIOUS
  <1>1. utcDay \in Nat /\ utcMonth \in Nat
    BY AdmissionAssumption, DivGrows DEF utcDay, utcMonth
  <1>. QED BY <1>1, AdmissionAssumption DEF Grounds

\* A set of numbers has a least one.
LEMMA MinOfNat ==
    ASSUME NEW S, S \subseteq Nat, S # {}
    PROVE  Min(S) \in S /\ \A x \in S : Min(S) <= x
  BY LeastOfNat DEF Min

-----------------------------------------------------------------------------
\* A record that holds no more places and Stream minutes is as good.
LEMMA PlacesKept ==
    ASSUME Grounds, NEW R, Places(R), NEW S \in AdmissionRecords, held(S) \subseteq held(R),
           \A u \in Uploads : /\ S.reservations[u].state = "none" => S.reservations[u] = NoReservation
                              /\ S.reservations[u].deadline <= time + LeaseTTL
                              /\ S.stream[u] = R.stream[u] \/ S.stream[u] = 0,
           S.day <= utcDay, S.month <= utcMonth
    PROVE  Places(S)
  <1>1. IsFiniteSet(held(R)) /\ IsFiniteSet(liveStreamReservations(R))
    <2>1. held(R) \subseteq Uploads /\ liveStreamReservations(R) \subseteq Uploads
      BY DEF held, liveStreamReservations
    <2>. QED BY <2>1, FS_Subset DEF Grounds
  <1>2. Cardinality(held(S)) <= site.concurrency
    <2>1. Cardinality(held(S)) <= Cardinality(held(R)) /\ IsFiniteSet(held(S))
      BY <1>1, FS_Subset
    <2>2. Cardinality(held(S)) \in Nat /\ Cardinality(held(R)) \in Nat
      BY <1>1, <2>1, FS_CardinalityType
    <2>. QED BY <2>1, <2>2 DEF Places, Grounds
  <1>3. site.stream => Cardinality(liveStreamReservations(S)) <= StreamBudget
    <2>0. liveStreamReservations(S) \subseteq liveStreamReservations(R)
      BY DEF liveStreamReservations, Grounds
    <2>1. /\ Cardinality(liveStreamReservations(S)) <= Cardinality(liveStreamReservations(R))
          /\ IsFiniteSet(liveStreamReservations(S))
      BY <1>1, <2>0, FS_Subset
    <2>2. /\ Cardinality(liveStreamReservations(S)) \in Nat
          /\ Cardinality(liveStreamReservations(R)) \in Nat
      BY <1>1, <2>1, FS_CardinalityType
    <2>. QED BY <2>1, <2>2 DEF Places, Grounds
  <1>4. \A u, v \in held(S) : site.creatorOf[u] = site.creatorOf[v] => u = v
    BY DEF Places
  <1>. QED BY <1>2, <1>3, <1>4 DEF Places

\* Expired leases go; nothing else changes.
LEMMA Normalized ==
    ASSUME Grounds, NEW R \in AdmissionRecords
    PROVE  LET S == normalizeAdmissionLeases(R) IN
           /\ S \in AdmissionRecords
           /\ \A u \in Uploads : S.reservations[u] = IF time < R.reservations[u].deadline
                                                     THEN R.reservations[u] ELSE NoReservation
           /\ held(S) \subseteq held(R)
           /\ S.status = R.status /\ S.closure = R.closure /\ S.day = R.day /\ S.month = R.month
           /\ S.attempts = R.attempts /\ S.reserved = R.reserved /\ S.stream = R.stream
  <1>1. PICK S : S = normalizeAdmissionLeases(R)
    OBVIOUS
  <1>2. NoReservation \in Reservations /\ NoReservation.state = "none"
    BY DEF NoReservation, Reservations
  <1>3. PICK r \in [Uploads -> Reservations] :
          /\ r = [u \in Uploads |-> IF time < R.reservations[u].deadline
                                    THEN R.reservations[u] ELSE NoReservation]
          /\ S = [R EXCEPT !.reservations = r]
    <2>1. R.reservations \in [Uploads -> Reservations]
      BY DEF AdmissionRecords
    <2>. QED BY <1>1, <1>2, <2>1 DEF normalizeAdmissionLeases, leaseDeadline
  <1>4. S = [status |-> R.status, closure |-> R.closure, reservations |-> r, day |-> R.day,
             attempts |-> R.attempts, month |-> R.month, reserved |-> R.reserved,
             failures |-> R.failures, failedAt |-> R.failedAt, stream |-> R.stream]
    BY <1>3 DEF AdmissionRecords
  <1>5. S \in AdmissionRecords
    BY <1>4 DEF AdmissionRecords
  <1>6. held(S) \subseteq held(R)
    BY <1>2, <1>3, <1>4 DEF held
  <1>. QED BY <1>1, <1>3, <1>4, <1>5, <1>6

\* So a record keeps what it promises.
LEMMA NormalizedKeeps ==
    ASSUME Grounds, NEW R, Places(R)
    PROVE  LET S == normalizeAdmissionLeases(R) IN
           /\ Places(S)
           /\ \A known \in [Uploads -> Nat] : Leases(R, known) => Leases(S, known)
           /\ \A n, i : ClosedFor(R, n, i) => ClosedFor(S, n, i)
           /\ \A g : Counts(R, g) => Counts(S, g)
           /\ \A a : AlarmSet(R, a) => AlarmSet(S, a)
           /\ S.status = R.status
           /\ \A u \in held(S) : time < S.reservations[u].deadline
  <1>1. PICK S : S = normalizeAdmissionLeases(R)
    OBVIOUS
  <1>2. /\ S \in AdmissionRecords
        /\ \A u \in Uploads : S.reservations[u] = IF time < R.reservations[u].deadline
                                                  THEN R.reservations[u] ELSE NoReservation
        /\ held(S) \subseteq held(R)
        /\ S.status = R.status /\ S.closure = R.closure /\ S.day = R.day /\ S.month = R.month
        /\ S.attempts = R.attempts /\ S.reserved = R.reserved /\ S.stream = R.stream
    BY <1>1, Normalized DEF Places
  <1>3. Places(S)
    <2>1. \A u \in Uploads : /\ S.reservations[u].state = "none" => S.reservations[u] = NoReservation
                             /\ S.reservations[u].deadline <= time + LeaseTTL
                             /\ S.stream[u] = R.stream[u]
      BY <1>2 DEF Places, NoReservation, Grounds
    <2>2. S.day <= utcDay /\ S.month <= utcMonth
      BY <1>2 DEF Places
    <2>. QED BY <1>2, <2>1, <2>2, PlacesKept
  <1>4. \A known \in [Uploads -> Nat] : Leases(R, known) => Leases(S, known)
    BY <1>2 DEF Leases, NoReservation
  <1>5. /\ \A n, i : ClosedFor(R, n, i) => ClosedFor(S, n, i)
        /\ \A g : Counts(R, g) => Counts(S, g)
    BY <1>2 DEF ClosedFor, Counts
  <1>6. \A u \in held(S) : time < S.reservations[u].deadline /\ S.reservations[u] = R.reservations[u]
    BY <1>2 DEF held, NoReservation
  <1>7. \A a : AlarmSet(R, a) => AlarmSet(S, a)
    BY <1>2, <1>6 DEF AlarmSet, leaseDeadline
  <1>. QED BY <1>1, <1>2, <1>3, <1>4, <1>5, <1>6, <1>7

\* The next deadline is an alarm for all of them.
LEMMA NextDeadline ==
    ASSUME Grounds, time <= MaxTime, NEW S, Places(S), held(S) # {}
    PROVE  AlarmSet(S, Min({leaseDeadline(S.reservations[u]) : u \in held(S)}))
  <1>. DEFINE D == {leaseDeadline(S.reservations[u]) : u \in held(S)}
  <1>0. D \subseteq Nat /\ \A d \in D : d <= time + LeaseTTL
    BY DEF AdmissionRecords, Reservations, leaseDeadline, held, Places
  <1>1. D \subseteq Nat /\ D # {} /\ \A d \in D : d <= time + LeaseTTL
    BY <1>0
  <1>2. PICK m : m = Min(D)
    OBVIOUS
  <1>3. m \in D /\ \A d \in D : m <= d
    <2>. HIDE DEF D
    <2>. QED BY <1>1, <1>2, MinOfNat
  <1>4. m \in Nat /\ m <= time + LeaseTTL
    BY <1>1, <1>3
  <1>5. m \in -1 .. (MaxTime + LeaseTTL) /\ m # -1
    BY <1>4 DEF Grounds
  <1>6. ASSUME NEW u \in held(S) PROVE m <= leaseDeadline(S.reservations[u])
    <2>1. leaseDeadline(S.reservations[u]) \in D
      BY <1>6
    <2>. HIDE DEF D
    <2>. QED BY <1>3, <2>1
  <1>. QED BY <1>2, <1>5, <1>6 DEF AlarmSet

\* Every operation ends so: what the record promised it still does, and the alarm is set.
LEMMA Maintained ==
    ASSUME Grounds, time <= MaxTime, NEW R, Places(R),
           maintainAdmissionLifecycle(R), lifecycleAlarm \in -1 .. (MaxTime + LeaseTTL)
    PROVE  /\ admission' = normalizeAdmissionLeases(R)
           /\ AlarmSet(admission', lifecycleAlarm')
  <1>1. PICK S : S = normalizeAdmissionLeases(R)
    OBVIOUS
  <1>2. Places(S)
    BY <1>1, NormalizedKeeps
  <1>. DEFINE D == {leaseDeadline(S.reservations[u]) : u \in held(S)}
  <1>3. /\ admission' = S
        /\ lifecycleAlarm' = IF D # {} THEN Min(D) ELSE lifecycleAlarm
    BY <1>1 DEF maintainAdmissionLifecycle
  <1>4. CASE held(S) = {}
    BY <1>1, <1>3, <1>4 DEF AlarmSet
  <1>5. CASE held(S) # {}
    <2>1. D # {}
      BY <1>5
    <2>. QED BY <1>1, <1>2, <1>3, <1>5, <2>1, NextDeadline
  <1>. QED BY <1>4, <1>5

\* A step that stores a record with these promises keeps the invariant.
LEMMA Stored ==
    ASSUME AdmissionInv, site' = site, time' = time,
           NEW R, Places(R), NEW known \in [Uploads -> Nat], leaseKnown' = known,
           NEW n \in Nat, closures' = n, NEW i \in Nat, incident' = i,
           NEW g, grants' = g,
           Leases(R, known), ClosedFor(R, n, i), Counts(R, g), Quotas(g),
           R.status = "NONE" => g = {} /\ \A u \in Uploads : known[u] = 0,
           \/ maintainAdmissionLifecycle(R)
           \/ admission' = R /\ AlarmSet(R, lifecycleAlarm')
    PROVE  AdmissionInv'
  <1>0. Grounds /\ time <= MaxTime /\ lifecycleAlarm \in -1 .. (MaxTime + LeaseTTL)
    BY GroundsHold DEF AdmissionInv, AlarmSet
  <1>1. /\ Places(admission') /\ Leases(admission', known) /\ ClosedFor(admission', n, i)
        /\ Counts(admission', g) /\ admission'.status = R.status
        /\ AlarmSet(admission', lifecycleAlarm')
    <2>1. CASE maintainAdmissionLifecycle(R)
      BY <1>0, <2>1, Maintained, NormalizedKeeps
    <2>2. CASE admission' = R /\ AlarmSet(R, lifecycleAlarm')
      BY <2>2
    <2>. QED BY <2>1, <2>2
  <1>2. Places(admission)'
    BY <1>1 DEF Places, held, liveStreamReservations, utcDay, utcMonth
  <1>3. Quotas(grants)' /\ Counts(admission, grants)' /\ ClosedFor(admission, closures, incident)'
    BY <1>1 DEF Quotas, Counts, ClosedFor, OfDay, OfMonth
  <1>4. AlarmSet(admission, lifecycleAlarm)' /\ Leases(admission, leaseKnown)'
    BY <1>1 DEF AlarmSet, Leases, held, leaseDeadline
  <1>5. admission'.status = "NONE" => grants' = {} /\ \A u \in Uploads : leaseKnown'[u] = 0
    BY <1>1
  <1>. QED BY <1>2, <1>3, <1>4, <1>5 DEF AdmissionInv

-----------------------------------------------------------------------------
\* A fresh record promises everything.
LEMMA EmptyRecord ==
    ASSUME Grounds
    PROVE  /\ Places(emptyAdmissionRecord) /\ emptyAdmissionRecord.status = "OPEN"
           /\ \A known \in [Uploads -> Nat] : Leases(emptyAdmissionRecord, known)
           /\ \A n \in Nat : ClosedFor(emptyAdmissionRecord, n, 0)
           /\ Counts(emptyAdmissionRecord, {})
           /\ held(emptyAdmissionRecord) = {}
  <1>1. PICK E : E = emptyAdmissionRecord
    OBVIOUS
  <1>2. /\ E \in AdmissionRecords
        /\ E.status = "OPEN" /\ E.closure = NoClosure /\ E.day = utcDay /\ E.month = utcMonth
        /\ \A u \in Uploads : E.reservations[u] = NoReservation /\ E.stream[u] = 0
        /\ \A c \in Creators : E.attempts[c] = 0
        /\ E.reserved = 0
    BY <1>1 DEF emptyAdmissionRecord, AdmissionRecords, NoClosure, NoReservation, Reservations,
       ClosureCodes, Grounds
  <1>3. held(E) = {} /\ liveStreamReservations(E) = {}
    BY <1>2 DEF held, liveStreamReservations, NoReservation, Grounds
  <1>4. Places(E)
    BY <1>2, <1>3, FS_EmptySet DEF Places, NoReservation, Grounds
  <1>5. \A c, d, m : OfDay({}, c, d) = {} /\ OfMonth({}, m) = {}
    BY DEF OfDay, OfMonth
  <1>6. Counts(E, {})
    BY <1>2, <1>5, FS_EmptySet DEF Counts
  <1>7. /\ \A known \in [Uploads -> Nat] : Leases(E, known)
        /\ \A n \in Nat : ClosedFor(E, n, 0)
    BY <1>2 DEF Leases, ClosedFor, NoReservation, NoClosure
  <1>. QED BY <1>1, <1>2, <1>3, <1>4, <1>6, <1>7

\* What a request for a place starts from.
base == normalizeAdmissionLeases(IF admission.status = "NONE" THEN emptyAdmissionRecord ELSE admission)

\* The record a transaction starts from, with the leases that are over taken out.
LEMMA BaseKeeps ==
    ASSUME AdmissionInv
    PROVE  /\ Places(base) /\ Leases(base, leaseKnown) /\ ClosedFor(base, closures, incident)
           /\ Counts(base, grants) /\ AlarmSet(base, lifecycleAlarm) /\ base.status # "NONE"
  <1>0. Grounds
    BY GroundsHold DEF AdmissionInv
  <1>1. CASE admission.status = "NONE"
    <2>1. base = normalizeAdmissionLeases(emptyAdmissionRecord) /\ grants = {} /\ incident = 0
      BY <1>1 DEF base, AdmissionInv, ClosedFor
    <2>2. AlarmSet(emptyAdmissionRecord, lifecycleAlarm)
      BY <1>0, EmptyRecord DEF AlarmSet, AdmissionInv
    <2>3. leaseKnown \in [Uploads -> Nat] /\ closures \in Nat
      BY DEF AdmissionInv
    <2>. QED BY <1>0, <2>1, <2>2, <2>3, EmptyRecord, NormalizedKeeps
  <1>2. CASE admission.status # "NONE"
    <2>1. /\ base = normalizeAdmissionLeases(admission) /\ leaseKnown \in [Uploads -> Nat]
          /\ Places(admission) /\ Leases(admission, leaseKnown)
          /\ ClosedFor(admission, closures, incident)
          /\ Counts(admission, grants) /\ AlarmSet(admission, lifecycleAlarm)
      BY <1>2 DEF base, AdmissionInv
    <2>. QED BY <1>0, <1>2, <2>1, NormalizedKeeps
  <1>. QED BY <1>1, <1>2

\* A record closed for the month's budget opens again.
LEMMA RolledKeeps ==
    ASSUME Grounds, NEW R, Places(R), NEW known, Leases(R, known), NEW n \in Nat, NEW i,
           ClosedFor(R, n, i), NEW g, Counts(R, g)
    PROVE  LET S == rolled(R) IN
           /\ Places(S) /\ Leases(S, known) /\ ClosedFor(S, n, i) /\ Counts(S, g)
           /\ S.reservations = R.reservations
           /\ R.status # "NONE" => S.status # "NONE"
           /\ S.closure.at <= n
  <1>1. PICK S : S = rolled(R)
    OBVIOUS
  <1>2. CASE S = R
    BY <1>1, <1>2 DEF ClosedFor
  <1>3. CASE /\ R.closure.code = "monthly_budget_exceeded"
             /\ S = [R EXCEPT !.status = "OPEN", !.closure = NoClosure, !.failures = 0, !.failedAt = 0]
    <2>0. R \in AdmissionRecords /\ NoClosure \in [code : ClosureCodes, at : Nat] /\ NoClosure.at = 0
      BY DEF Places, NoClosure, ClosureCodes
    <2>1. S = [status |-> "OPEN", closure |-> NoClosure, reservations |-> R.reservations, day |-> R.day,
               attempts |-> R.attempts, month |-> R.month, reserved |-> R.reserved,
               failures |-> 0, failedAt |-> 0, stream |-> R.stream]
      BY <1>3, <2>0 DEF AdmissionRecords
    <2>2. S \in AdmissionRecords /\ held(S) \subseteq held(R)
      BY <2>0, <2>1 DEF AdmissionRecords, held
    <2>3. Places(S)
      <3>1. \A u \in Uploads : /\ S.reservations[u].state = "none" => S.reservations[u] = NoReservation
                               /\ S.reservations[u].deadline <= time + LeaseTTL
                               /\ S.stream[u] = R.stream[u]
        BY <2>1 DEF Places
      <3>2. S.day <= utcDay /\ S.month <= utcMonth
        BY <2>1 DEF Places
      <3>. QED BY <2>2, <3>1, <3>2, PlacesKept
    <2>4. i = 0
      BY <1>3 DEF ClosedFor
    <2>. QED BY <1>1, <2>0, <2>1, <2>3, <2>4 DEF Leases, ClosedFor, Counts
  <1>. QED BY <1>1, <1>2, <1>3 DEF rolled

-----------------------------------------------------------------------------
(* A request for a place. *)

\* One more reservation adds one to its creator's day and to its month, and to nothing else.
LEMMA GrantCounts ==
    ASSUME Grounds, NEW g, Quotas(g), NEW u \in Uploads, NEW l \in Nat
    PROVE  LET h == [upload |-> u, lease |-> l, at |-> time] IN
           /\ \A c \in Creators, d \in Nat :
                 Cardinality(OfDay(g \cup {h}, c, d)) <= Cardinality(OfDay(g, c, d))
                    + (IF c = site.creatorOf[u] /\ d = utcDay THEN 1 ELSE 0)
           /\ \A m \in Nat :
                 Cardinality(OfMonth(g \cup {h}, m)) <= Cardinality(OfMonth(g, m))
                    + (IF m = utcMonth THEN 1 ELSE 0)
           /\ \A c \in Creators, d \in Nat : Cardinality(OfDay(g, c, d)) \in Nat
           /\ \A m \in Nat : Cardinality(OfMonth(g, m)) \in Nat
  <1>1. PICK h : h = [upload |-> u, lease |-> l, at |-> time]
    OBVIOUS
  <1>2. h.upload = u /\ h.at \div DayTicks = utcDay /\ h.at \div MonthTicks = utcMonth
    BY <1>1 DEF utcDay, utcMonth
  <1>3. ASSUME NEW c \in Creators, NEW d \in Nat
        PROVE  /\ Cardinality(OfDay(g \cup {h}, c, d)) <= Cardinality(OfDay(g, c, d))
                     + (IF c = site.creatorOf[u] /\ d = utcDay THEN 1 ELSE 0)
               /\ Cardinality(OfDay(g, c, d)) \in Nat
    <2>1. PICK s : s = OfDay(g, c, d)
      OBVIOUS
    <2>2. IsFiniteSet(s)
      BY <2>1, FS_Subset DEF OfDay, Quotas
    <2>3. Cardinality(s) \in Nat
      BY <2>2, FS_CardinalityType
    <2>4. CASE c = site.creatorOf[u] /\ d = utcDay
      <3>1. OfDay(g \cup {h}, c, d) = s \cup {h}
        BY <1>2, <2>1, <2>4 DEF OfDay
      <3>2. Cardinality(s \cup {h}) <= Cardinality(s) + 1
        <4>1. Cardinality(s \cup {h}) = IF h \in s THEN Cardinality(s) ELSE Cardinality(s) + 1
          BY <2>2, FS_AddElement
        <4>. QED BY <2>3, <4>1
      <3>. QED BY <2>1, <2>3, <2>4, <3>1, <3>2
    <2>5. CASE ~(c = site.creatorOf[u] /\ d = utcDay)
      <3>1. OfDay(g \cup {h}, c, d) = s
        BY <1>2, <2>1, <2>5 DEF OfDay
      <3>. QED BY <2>1, <2>3, <2>5, <3>1
    <2>. QED BY <2>4, <2>5
  <1>4. ASSUME NEW m \in Nat
        PROVE  /\ Cardinality(OfMonth(g \cup {h}, m)) <= Cardinality(OfMonth(g, m))
                     + (IF m = utcMonth THEN 1 ELSE 0)
               /\ Cardinality(OfMonth(g, m)) \in Nat
    <2>1. PICK s : s = OfMonth(g, m)
      OBVIOUS
    <2>2. IsFiniteSet(s)
      BY <2>1, FS_Subset DEF OfMonth, Quotas
    <2>3. Cardinality(s) \in Nat
      BY <2>2, FS_CardinalityType
    <2>4. CASE m = utcMonth
      <3>1. OfMonth(g \cup {h}, m) = s \cup {h}
        BY <1>2, <2>1, <2>4 DEF OfMonth
      <3>2. Cardinality(s \cup {h}) <= Cardinality(s) + 1
        <4>1. Cardinality(s \cup {h}) = IF h \in s THEN Cardinality(s) ELSE Cardinality(s) + 1
          BY <2>2, FS_AddElement
        <4>. QED BY <2>3, <4>1
      <3>. QED BY <2>1, <2>3, <2>4, <3>1, <3>2
    <2>5. CASE m # utcMonth
      <3>1. OfMonth(g \cup {h}, m) = s
        BY <1>2, <2>1, <2>5 DEF OfMonth
      <3>. QED BY <2>1, <2>3, <2>5, <3>1
    <2>. QED BY <2>4, <2>5
  <1>. QED BY <1>1, <1>3, <1>4

\* Taken over to this day and month, a record still counts all that was reserved in them.
LEMMA ThisDayKeeps ==
    ASSUME Grounds, NEW R, Places(R), NEW g, Counts(R, g), Quotas(g)
    PROVE  LET S == thisDay(R) IN
           /\ Places(S) /\ Counts(S, g)
           /\ S.day = utcDay /\ S.month = utcMonth /\ S.reserved = monthly(R)
           /\ \A c \in Creators : S.attempts[c] = daily(R, c)
           /\ S.status = R.status /\ S.closure = R.closure
           /\ S.reservations = R.reservations /\ S.stream = R.stream
  <1>1. PICK S : S = thisDay(R)
    OBVIOUS
  <1>2. R \in AdmissionRecords /\ R.day <= utcDay /\ R.month <= utcMonth
    BY DEF Places
  <1>3. /\ monthly(R) \in Nat
        /\ [c \in Creators |-> daily(R, c)] \in [Creators -> Nat]
    BY <1>2 DEF AdmissionRecords, daily, monthly
  <1>4. S = [status |-> R.status, closure |-> R.closure, reservations |-> R.reservations,
             day |-> utcDay, attempts |-> [c \in Creators |-> daily(R, c)],
             month |-> utcMonth, reserved |-> monthly(R),
             failures |-> R.failures, failedAt |-> R.failedAt, stream |-> R.stream]
    BY <1>1, <1>2 DEF thisDay, AdmissionRecords
  <1>5. S \in AdmissionRecords
    BY <1>2, <1>3, <1>4 DEF AdmissionRecords, Grounds
  <1>6. Places(S)
    <2>1. held(S) = held(R)
      BY <1>4 DEF held
    <2>2. \A u \in Uploads : /\ S.reservations[u].state = "none" => S.reservations[u] = NoReservation
                             /\ S.reservations[u].deadline <= time + LeaseTTL
                             /\ S.stream[u] = R.stream[u]
      BY <1>4 DEF Places
    <2>3. S.day <= utcDay /\ S.month <= utcMonth
      BY <1>4 DEF Grounds
    <2>. QED BY <1>5, <2>1, <2>2, <2>3, PlacesKept
  <1>7. Counts(S, g)
    <2>0. /\ \A h \in g : h.at \in Nat
          /\ \A h \in g : h.at \div DayTicks \in Int /\ h.at \div MonthTicks \in Int
      BY AdmissionAssumption DEF Quotas, Grounds
    <2>1. \A h \in g : h.at \div DayTicks <= R.day /\ h.at \div MonthTicks <= R.month
      BY DEF Counts
    <2>2. \A h \in g : h.at \div DayTicks <= utcDay /\ h.at \div MonthTicks <= utcMonth
      BY <1>2, <2>0, <2>1 DEF AdmissionRecords, Grounds
    <2>3. ASSUME NEW c \in Creators PROVE Cardinality(OfDay(g, c, utcDay)) <= daily(R, c)
      <3>1. CASE R.day = utcDay
        BY <3>1 DEF Counts, daily
      <3>2. CASE R.day # utcDay
        <4>1. OfDay(g, c, utcDay) = {}
          BY <1>2, <2>0, <2>1, <3>2 DEF OfDay, AdmissionRecords, Grounds
        <4>. QED BY <3>2, <4>1, FS_EmptySet DEF daily
      <3>. QED BY <3>1, <3>2
    <2>4. Cardinality(OfMonth(g, utcMonth)) <= monthly(R)
      <3>1. CASE R.month = utcMonth
        BY <3>1 DEF Counts, monthly
      <3>2. CASE R.month # utcMonth
        <4>1. OfMonth(g, utcMonth) = {}
          BY <1>2, <2>0, <2>1, <3>2 DEF OfMonth, AdmissionRecords, Grounds
        <4>. QED BY <3>2, <4>1, FS_EmptySet DEF monthly
      <3>. QED BY <3>1, <3>2
    <2>. QED BY <1>4, <2>2, <2>3, <2>4 DEF Counts
  <1>. QED BY <1>1, <1>4, <1>6, <1>7

\* A place is taken: the plan found one free, and the quotas and the budget not used up.
LEMMA CreateKeeps ==
    ASSUME Grounds, NEW R, Places(R), NEW u \in Uploads, ~AdmissionDenied(R, u), ~budgetExceeded(R),
           NEW known \in [Uploads -> Nat], Leases(R, known), NEW n, NEW i, ClosedFor(R, n, i),
           NEW g, Counts(R, g), Quotas(g), R.reservations[u].state = "none"
    PROVE  LET lease == known[u] + 1
               S == created(R, u, lease)
               h == g \cup {[upload |-> u, lease |-> lease, at |-> time]} IN
           /\ Places(S) /\ Leases(S, [known EXCEPT ![u] = lease]) /\ ClosedFor(S, n, i)
           /\ Counts(S, h) /\ Quotas(h) /\ S.status = R.status
  <1>1. PICK l \in Nat : l = known[u] + 1
    OBVIOUS
  <1>2. PICK S : S = created(R, u, l)
    OBVIOUS
  <1>3. PICK h : h = g \cup {[upload |-> u, lease |-> l, at |-> time]}
    OBVIOUS
  <1>4. PICK D : D = thisDay(R)
    OBVIOUS
  <1>5. /\ Places(D) /\ Counts(D, g) /\ D \in AdmissionRecords
        /\ D.day = utcDay /\ D.month = utcMonth /\ D.reserved = monthly(R)
        /\ \A c \in Creators : D.attempts[c] = daily(R, c)
        /\ D.status = R.status /\ D.closure = R.closure
        /\ D.reservations = R.reservations /\ D.stream = R.stream
    BY <1>4, ThisDayKeeps DEF Places
  <1>6. PICK r \in Reservations : /\ r = renewed(l) /\ r.state = "held" /\ r.lease = l
                                  /\ r.deadline = time + LeaseTTL
    <2>1. renewed(l) = [state |-> "held", lease |-> l, deadline |-> time + LeaseTTL]
      BY DEF renewed
    <2>2. time + LeaseTTL \in Nat
      BY DEF Grounds
    <2>. QED BY <2>1, <2>2 DEF Reservations
  <1>7. PICK c \in Creators : c = site.creatorOf[u]
    BY DEF Grounds
  <1>8. PICK t \in [Uploads -> Nat] :
          /\ t = IF site.stream
                 THEN [v \in Uploads |-> IF v = u THEN time + StreamTicks
                                         ELSE IF D.stream[v] > time THEN D.stream[v] ELSE 0]
                 ELSE D.stream
          /\ site.stream => \A v \in Uploads \ {u} : t[v] > time => R.stream[v] > time
    <2>1. D.stream \in [Uploads -> Nat]
      BY <1>5 DEF AdmissionRecords
    <2>2. [v \in Uploads |-> IF v = u THEN time + StreamTicks
                             ELSE IF D.stream[v] > time THEN D.stream[v] ELSE 0] \in [Uploads -> Nat]
      BY <2>1 DEF Grounds
    <2>3. CASE site.stream
      <3>1. PICK f \in [Uploads -> Nat] :
               f = [v \in Uploads |-> IF v = u THEN time + StreamTicks
                                     ELSE IF D.stream[v] > time THEN D.stream[v] ELSE 0]
        BY <2>2
      <3>2. \A v \in Uploads \ {u} : f[v] > time => R.stream[v] > time
        BY <1>5, <3>1 DEF Grounds
      <3>. QED BY <2>3, <3>1, <3>2
    <2>4. CASE ~site.stream
      BY <2>1, <2>4
    <2>. QED BY <2>3, <2>4
  <1>9. S = [D EXCEPT !.reservations[u] = r, !.attempts[c] = @ + 1, !.reserved = @ + 1, !.stream = t]
    BY <1>2, <1>4, <1>6, <1>7, <1>8 DEF created
  <1>10. S = [status |-> D.status, closure |-> D.closure, reservations |-> [D.reservations EXCEPT ![u] = r],
              day |-> D.day, attempts |-> [D.attempts EXCEPT ![c] = @ + 1], month |-> D.month,
              reserved |-> D.reserved + 1, failures |-> D.failures, failedAt |-> D.failedAt,
              stream |-> t]
    BY <1>5, <1>9 DEF AdmissionRecords
  <1>11. S \in AdmissionRecords
    BY <1>5, <1>10 DEF AdmissionRecords
  <1>12. /\ \A v \in Uploads \ {u} : S.reservations[v] = R.reservations[v]
         /\ S.reservations[u] = r
         /\ S.day = utcDay /\ S.month = utcMonth
         /\ S.status = R.status /\ S.closure = R.closure /\ S.stream = t
         /\ \A k \in Creators : S.attempts[k] = daily(R, k) + (IF k = c THEN 1 ELSE 0)
         /\ S.reserved = monthly(R) + 1
    BY <1>5, <1>10 DEF AdmissionRecords
  <1>13. /\ \A v \in held(R) : site.creatorOf[v] # c
         /\ ~(daily(R, c) >= DailyAttempts)
         /\ ~(Cardinality(held(R)) >= site.concurrency)
         /\ site.stream => ~(Cardinality(liveStreamReservations(R) \ {u}) + 1 > StreamBudget)
    BY <1>7 DEF AdmissionDenied
  <1>14. IsFiniteSet(held(R)) /\ IsFiniteSet(liveStreamReservations(R))
    <2>1. held(R) \subseteq Uploads /\ liveStreamReservations(R) \subseteq Uploads
      BY DEF held, liveStreamReservations
    <2>. QED BY <2>1, FS_Subset DEF Grounds
  <1>15. Places(S)
    <2>1. held(S) = held(R) \cup {u} /\ u \notin held(R)
      BY <1>6, <1>12 DEF held
    <2>2. Cardinality(held(S)) <= site.concurrency
      <3>1. Cardinality(held(S)) = Cardinality(held(R)) + 1 /\ Cardinality(held(R)) \in Nat
        BY <1>14, <2>1, FS_AddElement, FS_CardinalityType
      <3>. QED BY <1>13, <3>1 DEF Grounds
    <2>3. \A v, w \in held(S) : site.creatorOf[v] = site.creatorOf[w] => v = w
      BY <1>7, <1>13, <2>1 DEF Places
    <2>4. site.stream => Cardinality(liveStreamReservations(S)) <= StreamBudget
      <3>. SUFFICES ASSUME site.stream PROVE Cardinality(liveStreamReservations(S)) <= StreamBudget
        OBVIOUS
      <3>1. PICK live : live = liveStreamReservations(R) \ {u}
        OBVIOUS
      <3>2. IsFiniteSet(live) /\ Cardinality(live) \in Nat
        BY <1>14, <3>1, FS_Subset, FS_CardinalityType
      <3>3. liveStreamReservations(S) \subseteq live \cup {u}
        BY <1>8, <1>12, <3>1 DEF liveStreamReservations
      <3>4. /\ IsFiniteSet(live \cup {u})
            /\ Cardinality(live \cup {u}) = IF u \in live THEN Cardinality(live) ELSE Cardinality(live) + 1
        BY <3>2, FS_AddElement
      <3>5. /\ Cardinality(liveStreamReservations(S)) <= Cardinality(live \cup {u})
            /\ IsFiniteSet(liveStreamReservations(S))
        BY <3>3, <3>4, FS_Subset
      <3>6. Cardinality(liveStreamReservations(S)) \in Nat
        BY <3>5, FS_CardinalityType
      <3>7. Cardinality(live) + 1 <= StreamBudget
        BY <1>13, <3>1, <3>2 DEF Grounds
      <3>. QED BY <3>2, <3>4, <3>5, <3>6, <3>7 DEF Grounds
    <2>5. \A v \in Uploads : /\ S.reservations[v].state = "none" => S.reservations[v] = NoReservation
                             /\ S.reservations[v].deadline <= time + LeaseTTL
      BY <1>6, <1>12 DEF Places, Grounds
    <2>. QED BY <1>11, <1>12, <2>2, <2>3, <2>4, <2>5 DEF Places, Grounds
  <1>16. Leases(S, [known EXCEPT ![u] = l])
    BY <1>1, <1>6, <1>12 DEF Leases
  <1>17. ClosedFor(S, n, i)
    BY <1>12 DEF ClosedFor
  <1>18. /\ \A k \in Creators, d \in Nat :
               Cardinality(OfDay(h, k, d)) <= Cardinality(OfDay(g, k, d))
                  + (IF k = c /\ d = utcDay THEN 1 ELSE 0)
         /\ \A m \in Nat :
               Cardinality(OfMonth(h, m)) <= Cardinality(OfMonth(g, m))
                  + (IF m = utcMonth THEN 1 ELSE 0)
         /\ \A k \in Creators, d \in Nat : Cardinality(OfDay(g, k, d)) \in Nat
         /\ \A m \in Nat : Cardinality(OfMonth(g, m)) \in Nat
    BY <1>3, <1>7, GrantCounts
  <1>19. h \subseteq [upload : Uploads, lease : Nat, at : 0 .. time] /\ IsFiniteSet(h)
    <2>1. g \subseteq [upload : Uploads, lease : Nat, at : 0 .. time] /\ IsFiniteSet(g)
      BY DEF Quotas
    <2>2. [upload |-> u, lease |-> l, at |-> time] \in [upload : Uploads, lease : Nat, at : 0 .. time]
      BY DEF Grounds
    <2>. QED BY <1>3, <2>1, <2>2, FS_AddElement
  <1>20. /\ utcDay \in Nat /\ utcMonth \in Nat /\ DailyAttempts \in Nat /\ MonthlyBudget \in Nat
         /\ \A k \in Creators : daily(R, k) \in Nat
         /\ monthly(R) \in Nat
         /\ \A k \in Creators : Cardinality(OfDay(g, k, utcDay)) <= daily(R, k)
         /\ Cardinality(OfMonth(g, utcMonth)) <= monthly(R)
    BY <1>5 DEF Counts, AdmissionRecords, Grounds
  <1>21. \A k \in Creators, d \in Nat : Cardinality(OfDay(h, k, d)) \in Nat
    <2>1. \A k, d : OfDay(h, k, d) \subseteq h
      BY DEF OfDay
    <2>. QED BY <1>19, <2>1, FS_Subset, FS_CardinalityType
  <1>22. \A m \in Nat : Cardinality(OfMonth(h, m)) \in Nat
    <2>1. \A m : OfMonth(h, m) \subseteq h
      BY DEF OfMonth
    <2>. QED BY <1>19, <2>1, FS_Subset, FS_CardinalityType
  <1>23. Counts(S, h)
    <2>1. \A k \in Creators : Cardinality(OfDay(h, k, utcDay)) <= daily(R, k) + (IF k = c THEN 1 ELSE 0)
      BY <1>18, <1>20, <1>21
    <2>2. Cardinality(OfMonth(h, utcMonth)) <= monthly(R) + 1
      BY <1>18, <1>20, <1>22
    <2>3. \A x \in h : x.at \div DayTicks <= utcDay /\ x.at \div MonthTicks <= utcMonth
      <3>1. \A x \in g : x.at \div DayTicks <= utcDay /\ x.at \div MonthTicks <= utcMonth
        BY <1>5 DEF Counts
      <3>2. time \div DayTicks <= utcDay /\ time \div MonthTicks <= utcMonth
        BY <1>20 DEF utcDay, utcMonth
      <3>. QED BY <1>3, <3>1, <3>2
    <2>. QED BY <1>12, <2>1, <2>2, <2>3 DEF Counts
  <1>24. Quotas(h)
    <2>1. ASSUME NEW k \in Creators, NEW d \in Nat PROVE Cardinality(OfDay(h, k, d)) <= DailyAttempts
      <3>1. Cardinality(OfDay(g, k, d)) <= DailyAttempts
        BY DEF Quotas
      <3>2. k = c /\ d = utcDay => Cardinality(OfDay(g, k, d)) + 1 <= DailyAttempts
        BY <1>13, <1>18, <1>20
      <3>. QED BY <1>18, <1>20, <1>21, <3>1, <3>2
    <2>2. ASSUME ~site.public, NEW m \in Nat PROVE Cardinality(OfMonth(h, m)) <= MonthlyBudget
      <3>1. Cardinality(OfMonth(g, m)) <= MonthlyBudget
        BY <2>2 DEF Quotas
      <3>2. ~(monthly(R) + 1 > MonthlyBudget)
        BY <2>2 DEF budgetExceeded
      <3>3. m = utcMonth => Cardinality(OfMonth(g, m)) + 1 <= MonthlyBudget
        BY <1>18, <1>20, <3>2
      <3>. QED BY <1>18, <1>20, <1>22, <3>1, <3>3
    <2>. QED BY <1>19, <2>1, <2>2 DEF Quotas
  <1>. QED BY <1>1, <1>2, <1>3, <1>12, <1>15, <1>16, <1>17, <1>23, <1>24

\* What a request comes to, one outcome at a time.
LEMMA PlanCases ==
    ASSUME NEW u \in Uploads
    PROVE  LET plan == planAdmission(u)
               next == rolled(base) IN
           /\ plan.outcome = "create" =>
                 /\ plan.record = next /\ base.reservations[u].state = "none"
                 /\ ~AdmissionDenied(next, u) /\ ~budgetExceeded(next)
           /\ plan.outcome \in {"reuse", "closed"} => plan.record = base
           /\ plan.outcome = "exceeded" =>
                 /\ next.status # "AUTO_CLOSED"
                 /\ plan.record = [thisDay(next) EXCEPT
                          !.status = "AUTO_CLOSED",
                          !.closure = [code |-> "monthly_budget_exceeded", at |-> closures + 1]]
  <1>1. PICK plan : plan = planAdmission(u)
    OBVIOUS
  <1>2. PICK next : next = rolled(base)
    OBVIOUS
  <1>3. CASE base.reservations[u].state # "none"
    <2>1. plan = [outcome |-> "reuse", record |-> base]
      BY <1>1, <1>3 DEF planAdmission, base
    <2>. QED BY <1>1, <2>1
  <1>4. CASE base.reservations[u].state = "none" /\ next.status = "AUTO_CLOSED"
    <2>1. plan \in {[outcome |-> "closed", record |-> base], [outcome |-> "refused", record |-> admission]}
      BY <1>1, <1>2, <1>4 DEF planAdmission, base
    <2>. QED BY <1>1, <2>1
  <1>5. CASE base.reservations[u].state = "none" /\ next.status # "AUTO_CLOSED"
    <2>1. plan = IF AdmissionDenied(next, u) THEN [outcome |-> "refused", record |-> admission]
                 ELSE IF budgetExceeded(next)
                 THEN [outcome |-> "exceeded",
                       record |-> [thisDay(next) EXCEPT
                           !.status = "AUTO_CLOSED",
                           !.closure = [code |-> "monthly_budget_exceeded", at |-> closures + 1]]]
                 ELSE [outcome |-> "create", record |-> next]
      BY <1>1, <1>2, <1>5 DEF planAdmission, base
    <2>2. CASE AdmissionDenied(next, u)
      BY <1>1, <2>1, <2>2
    <2>3. CASE ~AdmissionDenied(next, u) /\ budgetExceeded(next)
      BY <1>1, <1>2, <1>5, <2>1, <2>3
    <2>4. CASE ~AdmissionDenied(next, u) /\ ~budgetExceeded(next)
      BY <1>1, <1>2, <1>5, <2>1, <2>4
    <2>. QED BY <2>2, <2>3, <2>4
  <1>. QED BY <1>3, <1>4, <1>5

-----------------------------------------------------------------------------
\* What an operation may do to a record without a new place: the reservations that stay keep
\* their leases, and the counters stay.
Kept(R, S) ==
    /\ Places(S) /\ held(S) \subseteq held(R)
    /\ \A u \in Uploads : S.reservations[u].lease <= R.reservations[u].lease
    /\ S.day = R.day /\ S.month = R.month /\ S.attempts = R.attempts /\ S.reserved = R.reserved

\* A record kept by a step counts and leases what it did before.
LEMMA KeptMeans ==
    ASSUME NEW R, Places(R), NEW S, Kept(R, S)
    PROVE  /\ \A known \in [Uploads -> Nat] : Leases(R, known) => Leases(S, known)
           /\ \A g : Counts(R, g) => Counts(S, g)
           /\ \A T : Kept(S, T) => Kept(R, T)
  BY DEF Kept, Leases, Counts, Places, AdmissionRecords, Reservations

\* r and t hold no more than the record R does.
Fewer(R, r, t) ==
    /\ r \in [Uploads -> Reservations] /\ t \in [Uploads -> Nat]
    /\ \A u \in Uploads : /\ r[u].state = "none" => r[u] = NoReservation
                          /\ r[u].state # "none" => R.reservations[u].state # "none"
                          /\ r[u].lease <= R.reservations[u].lease
                          /\ r[u].deadline <= time + LeaseTTL
                          /\ t[u] = R.stream[u] \/ t[u] = 0

Rewrite(R, s, c, r, f, a, t) ==
    [status |-> s, closure |-> c, reservations |-> r, day |-> R.day, attempts |-> R.attempts,
     month |-> R.month, reserved |-> R.reserved, failures |-> f, failedAt |-> a, stream |-> t]

\* A record written again with no more reservations and minutes is a kept one.
LEMMA Rewritten ==
    ASSUME Grounds, NEW R, Places(R), NEW s \in {"NONE", "OPEN", "AUTO_CLOSED"},
           NEW c \in [code : ClosureCodes, at : Nat], NEW r, NEW t, Fewer(R, r, t),
           NEW f \in Nat, NEW a \in Nat
    PROVE  /\ Kept(R, Rewrite(R, s, c, r, f, a, t))
           /\ Rewrite(R, s, c, r, f, a, t).status = s
           /\ Rewrite(R, s, c, r, f, a, t).closure = c
  <1>1. R \in AdmissionRecords /\ R.day <= utcDay /\ R.month <= utcMonth
    BY DEF Places
  <1>2. PICK S : S = Rewrite(R, s, c, r, f, a, t)
    OBVIOUS
  <1>3. S = [status |-> s, closure |-> c, reservations |-> r, day |-> R.day, attempts |-> R.attempts,
             month |-> R.month, reserved |-> R.reserved, failures |-> f, failedAt |-> a, stream |-> t]
    BY <1>2 DEF Rewrite
  <1>4. S \in AdmissionRecords
    BY <1>1, <1>3 DEF AdmissionRecords, Fewer
  <1>5. held(S) \subseteq held(R)
    BY <1>3 DEF held, Fewer
  <1>6. Places(S)
    <2>1. \A u \in Uploads : /\ S.reservations[u].state = "none" => S.reservations[u] = NoReservation
                             /\ S.reservations[u].deadline <= time + LeaseTTL
                             /\ S.stream[u] = R.stream[u] \/ S.stream[u] = 0
      BY <1>3 DEF Fewer
    <2>2. S.day <= utcDay /\ S.month <= utcMonth
      BY <1>1, <1>3
    <2>. QED BY <1>4, <1>5, <2>1, <2>2, PlacesKept
  <1>7. \A u \in Uploads : S.reservations[u].lease <= R.reservations[u].lease
    BY <1>3 DEF Fewer
  <1>. QED BY <1>2, <1>3, <1>5, <1>6, <1>7 DEF Kept

\* The parts of a record with its promises.
LEMMA Parts ==
    ASSUME NEW R, Places(R)
    PROVE  /\ R.status \in {"NONE", "OPEN", "AUTO_CLOSED"} /\ R.closure \in [code : ClosureCodes, at : Nat]
           /\ R.reservations \in [Uploads -> Reservations]
           /\ R.failures \in Nat /\ R.failedAt \in Nat /\ R.stream \in [Uploads -> Nat]
           /\ \A u \in Uploads :
                 /\ R.reservations[u] \in Reservations
                 /\ R.reservations[u].state = "none" => R.reservations[u] = NoReservation
                 /\ R.reservations[u].lease <= R.reservations[u].lease
                 /\ R.reservations[u].deadline <= time + LeaseTTL
  BY DEF Places, AdmissionRecords, Reservations

\* The forms a reservation takes.
LEMMA ReservationForms ==
    ASSUME Grounds, NEW r \in Reservations
    PROVE  /\ NoReservation \in Reservations /\ NoReservation.state = "none" /\ NoReservation.lease = 0
           /\ NoReservation.deadline = 0
           /\ \A l \in Nat : /\ renewed(l) \in Reservations /\ renewed(l).state = "held"
                             /\ renewed(l).lease = l /\ renewed(l).deadline = time + LeaseTTL
           /\ ambiguous(r) \in Reservations /\ ambiguous(r).state = "CREATE_AMBIGUOUS"
           /\ ambiguous(r).lease = r.lease
           /\ ambiguous(r).deadline = r.deadline \/ ambiguous(r).deadline <= time + LeaseTTL
  <1>1. \A l \in Nat : renewed(l) = [state |-> "held", lease |-> l, deadline |-> time + LeaseTTL]
    BY DEF renewed
  <1>2. time + LeaseTTL \in Nat /\ time + AmbiguousTimeout \in Nat
        /\ time + AmbiguousTimeout <= time + LeaseTTL
    BY DEF Grounds
  <1>3. \/ r.state = "CREATE_AMBIGUOUS" /\ ambiguous(r) = r
        \/ ambiguous(r) = [state |-> "CREATE_AMBIGUOUS", lease |-> r.lease,
                           deadline |-> time + AmbiguousTimeout]
    BY DEF ambiguous, Reservations
  <1>4. NoReservation = [state |-> "none", lease |-> 0, deadline |-> 0]
    BY DEF NoReservation
  <1>5. \A l \in Nat : /\ renewed(l) \in Reservations /\ renewed(l).state = "held"
                       /\ renewed(l).lease = l /\ renewed(l).deadline = time + LeaseTTL
    BY <1>1, <1>2 DEF Reservations
  <1>6. /\ ambiguous(r) \in Reservations /\ ambiguous(r).state = "CREATE_AMBIGUOUS"
        /\ ambiguous(r).lease = r.lease
        /\ ambiguous(r).deadline = r.deadline \/ ambiguous(r).deadline <= time + LeaseTTL
    BY <1>2, <1>3 DEF Reservations
  <1>7. NoReservation \in Reservations
    BY <1>4 DEF Reservations
  <1>. QED BY <1>4, <1>5, <1>6, <1>7

\* A reservation is rewritten: one that was held, or to none.
LEMMA OneRewritten ==
    ASSUME Grounds, NEW R, Places(R), NEW u \in Uploads, NEW x \in Reservations,
           x.state = "none" => x = NoReservation,
           x.state # "none" => R.reservations[u].state # "none",
           x.lease <= R.reservations[u].lease, x.deadline <= time + LeaseTTL
    PROVE  Fewer(R, [R.reservations EXCEPT ![u] = x], R.stream)
  <1>1. PICK r \in [Uploads -> Reservations] :
          /\ r = [R.reservations EXCEPT ![u] = x]
          /\ r[u] = x /\ \A v \in Uploads \ {u} : r[v] = R.reservations[v]
    <2>1. R.reservations \in [Uploads -> Reservations]
      BY Parts
    <2>2. [R.reservations EXCEPT ![u] = x] \in [Uploads -> Reservations]
      BY <2>1
    <2>3. /\ [R.reservations EXCEPT ![u] = x][u] = x
          /\ \A v \in Uploads \ {u} : [R.reservations EXCEPT ![u] = x][v] = R.reservations[v]
      BY <2>1
    <2>. QED BY <2>2, <2>3
  <1>2. \A v \in Uploads : /\ r[v].state = "none" => r[v] = NoReservation
                           /\ r[v].state # "none" => R.reservations[v].state # "none"
                           /\ r[v].lease <= R.reservations[v].lease
                           /\ r[v].deadline <= time + LeaseTTL
    BY <1>1, Parts
  <1>3. R.stream \in [Uploads -> Nat]
    BY Parts
  <1>. QED BY <1>1, <1>2, <1>3 DEF Fewer

\* What is left alone.
LEMMA NoneRewritten ==
    ASSUME Grounds, NEW R, Places(R)
    PROVE  Fewer(R, R.reservations, R.stream)
  BY Parts DEF Fewer

\* The marks of a job object: none of them takes a place, and only an incident closes.
LEMMA ReleasedKeeps ==
    ASSUME Grounds, NEW R, Places(R), NEW u \in Uploads, NEW mark
    PROVE  LET S == releaseStreamReservation(R, u, mark) IN
           /\ Kept(R, S) /\ S.status = R.status /\ S.closure = R.closure
           /\ S.reservations = R.reservations
  <1>1. PICK S : S = releaseStreamReservation(R, u, mark)
    OBVIOUS
  <1>2. PICK t \in [Uploads -> Nat] : /\ t = [R.stream EXCEPT ![u] = 0]
                                      /\ \A v \in Uploads : t[v] = R.stream[v] \/ t[v] = 0
    <2>1. R.stream \in [Uploads -> Nat]
      BY Parts
    <2>2. [R.stream EXCEPT ![u] = 0] \in [Uploads -> Nat]
      BY <2>1
    <2>3. \A v \in Uploads : \/ [R.stream EXCEPT ![u] = 0][v] = R.stream[v]
                             \/ [R.stream EXCEPT ![u] = 0][v] = 0
      BY <2>1
    <2>. QED BY <2>2, <2>3
  <1>3. Fewer(R, R.reservations, t) /\ Fewer(R, R.reservations, R.stream)
    BY <1>2, NoneRewritten DEF Fewer
  <1>4. \/ S = Rewrite(R, R.status, R.closure, R.reservations, R.failures, R.failedAt, R.stream)
        \/ S = Rewrite(R, R.status, R.closure, R.reservations, R.failures, R.failedAt, t)
    BY <1>1, <1>2 DEF releaseStreamReservation, Rewrite, Places, AdmissionRecords
  <1>5. S.reservations = R.reservations
    BY <1>4 DEF Rewrite
  <1>6. /\ R.status \in {"NONE", "OPEN", "AUTO_CLOSED"} /\ R.closure \in [code : ClosureCodes, at : Nat]
        /\ R.failures \in Nat /\ R.failedAt \in Nat
    BY Parts
  <1>7. Kept(R, S) /\ S.status = R.status /\ S.closure = R.closure
    <2>1. ASSUME NEW y, Fewer(R, R.reservations, y),
                 S = Rewrite(R, R.status, R.closure, R.reservations, R.failures, R.failedAt, y)
          PROVE  Kept(R, S) /\ S.status = R.status /\ S.closure = R.closure
      BY <1>6, <2>1, Rewritten
    <2>. QED BY <1>3, <1>4, <2>1
  <1>. QED BY <1>1, <1>5, <1>7

\* A mark gives a place back or notes what became of the asset.
LEMMA MarkedKeeps ==
    ASSUME Grounds, NEW R, Places(R), NEW u \in Uploads, NEW mark,
           mark \notin Terminal => R.reservations[u].state # "none"
    PROVE  LET S == marked(R, u, mark) IN
           Kept(R, S) /\ S.status = R.status /\ S.closure = R.closure
  <1>1. PICK S : S = marked(R, u, mark)
    OBVIOUS
  <1>2. PICK o \in Reservations : o = R.reservations[u]
    BY Parts
  <1>3. R.failures \in Nat /\ R.failedAt \in Nat /\ o.lease \in Nat /\ o.deadline <= time + LeaseTTL
    BY <1>2, Parts DEF Reservations
  <1>4. ASSUME NEW x \in Reservations, NEW f \in Nat, NEW a \in Nat,
               x.state = "none" => x = NoReservation,
               x.state # "none" => R.reservations[u].state # "none",
               x.lease <= R.reservations[u].lease, x.deadline <= time + LeaseTTL,
               S = Rewrite(R, R.status, R.closure, [R.reservations EXCEPT ![u] = x], f, a, R.stream)
        PROVE  Kept(R, S) /\ S.status = R.status /\ S.closure = R.closure
    <2>1. Fewer(R, [R.reservations EXCEPT ![u] = x], R.stream)
      BY <1>4, OneRewritten
    <2>2. R.status \in {"NONE", "OPEN", "AUTO_CLOSED"} /\ R.closure \in [code : ClosureCodes, at : Nat]
      BY Parts
    <2>. QED BY <1>4, <2>1, <2>2, Rewritten
  <1>5. CASE mark \in Terminal
    <2>1. /\ NoReservation \in Reservations /\ NoReservation.state = "none"
          /\ NoReservation.lease <= R.reservations[u].lease /\ NoReservation.deadline <= time + LeaseTTL
      <3>1. /\ NoReservation \in Reservations /\ NoReservation.state = "none"
            /\ NoReservation.lease = 0 /\ NoReservation.deadline = 0
        BY <1>2, ReservationForms
      <3>2. 0 <= o.lease /\ 0 <= time + LeaseTTL
        BY <1>3 DEF Grounds
      <3>. QED BY <1>2, <3>1, <3>2
    <2>2. S = Rewrite(R, R.status, R.closure, [R.reservations EXCEPT ![u] = NoReservation],
                      R.failures, R.failedAt, R.stream)
      BY <1>1, <1>5 DEF marked, Rewrite, Places, AdmissionRecords
    <2>. QED BY <1>1, <1>3, <1>4, <2>1, <2>2
  <1>6. CASE mark \notin Terminal /\ mark = "CREATE_AMBIGUOUS"
    <2>1. PICK x \in Reservations : x = ambiguous(o) /\ x.state # "none" /\ x.lease = o.lease
                                    /\ x.deadline <= time + LeaseTTL
      BY <1>3, ReservationForms
    <2>2. S = Rewrite(R, R.status, R.closure, [R.reservations EXCEPT ![u] = x],
                      R.failures, R.failedAt, R.stream)
      BY <1>1, <1>2, <1>6, <2>1 DEF marked, Rewrite, Places, AdmissionRecords
    <2>3. x.lease <= R.reservations[u].lease /\ R.reservations[u].state # "none"
      BY <1>2, <1>3, <1>6, <2>1
    <2>. QED BY <1>1, <1>3, <1>4, <2>1, <2>2, <2>3
  <1>7. CASE mark \notin Terminal /\ mark # "CREATE_AMBIGUOUS"
    <2>1. PICK x \in Reservations : x = renewed(o.lease) /\ x.state # "none" /\ x.lease = o.lease
                                    /\ x.deadline = time + LeaseTTL
      BY <1>3, ReservationForms
    <2>2. PICK f \in Nat, a \in Nat : /\ f = IF mark = "UPLOAD_READY" THEN 0 ELSE R.failures
                                      /\ a = IF mark = "UPLOAD_READY" THEN 0 ELSE R.failedAt
      BY <1>3
    <2>3. S = Rewrite(R, R.status, R.closure, [R.reservations EXCEPT ![u] = x], f, a, R.stream)
      BY <1>1, <1>2, <1>7, <2>1, <2>2 DEF marked, Rewrite, Places, AdmissionRecords
    <2>4. /\ x.lease <= R.reservations[u].lease /\ R.reservations[u].state # "none"
          /\ x.deadline <= time + LeaseTTL
      BY <1>2, <1>3, <1>7, <2>1 DEF Grounds
    <2>. QED BY <1>1, <1>4, <2>1, <2>2, <2>3, <2>4
  <1>. QED BY <1>5, <1>6, <1>7

\* An incident closes a record, with a closure of its own.
LEMMA ClosedKeeps ==
    ASSUME Grounds, NEW R, Places(R), NEW code \in ClosureCodes, closures \in Nat
    PROVE  LET S == closed(R, code) IN
           /\ Kept(R, S) /\ S.status = "AUTO_CLOSED"
           /\ S.closure = [code |-> code, at |-> closures + 1]
  <1>1. PICK c \in [code : ClosureCodes, at : Nat] : c = [code |-> code, at |-> closures + 1]
    <2>1. closures + 1 \in Nat
      OBVIOUS
    <2>. QED BY <2>1
  <1>0. R \in AdmissionRecords
    BY DEF Places
  <1>2. closed(R, code) = Rewrite(R, "AUTO_CLOSED", c, R.reservations, R.failures, R.failedAt, R.stream)
    <2>1. PICK S : S = closed(R, code)
      OBVIOUS
    <2>2. S = [R EXCEPT !.status = "AUTO_CLOSED", !.closure = c]
      BY <1>1, <2>1 DEF closed
    <2>3. S = [status |-> "AUTO_CLOSED", closure |-> c, reservations |-> R.reservations,
               day |-> R.day, attempts |-> R.attempts, month |-> R.month, reserved |-> R.reserved,
               failures |-> R.failures, failedAt |-> R.failedAt, stream |-> R.stream]
      BY <1>0, <2>2 DEF AdmissionRecords
    <2>. QED BY <2>1, <2>3 DEF Rewrite
  <1>3. R.failures \in Nat /\ R.failedAt \in Nat
    BY Parts
  <1>. QED BY <1>1, <1>2, <1>3, NoneRewritten, Rewritten

\* A failure of the provider is counted, and the last one allowed closes admission.
LEMMA FailedKeeps ==
    ASSUME Grounds, NEW R, Places(R), NEW u \in Uploads, R.reservations[u].state # "none",
           closures \in Nat
    PROVE  LET S == providerFailed(R, u) IN
           /\ Kept(R, S)
           /\ \/ S.status = R.status /\ S.closure = R.closure
              \/ /\ S.status = "AUTO_CLOSED"
                 /\ S.closure = [code |-> "provider_unavailable", at |-> closures + 1]
  <1>1. PICK n \in Nat : n = IF R.failures > 0 /\ time - R.failedAt <= FailureWindow
                             THEN R.failures + 1 ELSE 1
    <2>1. R.failures \in Nat /\ R.failures + 1 \in Nat
      BY Parts
    <2>. QED BY <2>1
  <1>2. PICK o \in Reservations : o = R.reservations[u]
    BY Parts
  <1>3. PICK x \in Reservations : x = ambiguous(o) /\ x.state # "none" /\ x.lease = o.lease
                                  /\ x.deadline <= time + LeaseTTL
    <2>1. o.deadline <= time + LeaseTTL
      BY <1>2, Parts
    <2>. QED BY <2>1, ReservationForms
  <1>4. PICK T : T = [R EXCEPT !.failures = n, !.failedAt = time, !.reservations[u] = ambiguous(@)]
    OBVIOUS
  <1>5. T = Rewrite(R, R.status, R.closure, [R.reservations EXCEPT ![u] = x], n, time, R.stream)
    BY <1>2, <1>3, <1>4 DEF Rewrite, Places, AdmissionRecords
  <1>6. Kept(R, T) /\ T.status = R.status /\ T.closure = R.closure
    <2>1. x.lease <= R.reservations[u].lease
      BY <1>2, <1>3 DEF Reservations
    <2>2. Fewer(R, [R.reservations EXCEPT ![u] = x], R.stream)
      BY <1>2, <1>3, <2>1, OneRewritten
    <2>3. time \in Nat /\ R.status \in {"NONE", "OPEN", "AUTO_CLOSED"}
          /\ R.closure \in [code : ClosureCodes, at : Nat]
      BY Parts DEF Grounds
    <2>. QED BY <1>5, <2>2, <2>3, Rewritten
  <1>7. providerFailed(R, u) = IF n >= FailureLimit THEN closed(T, "provider_unavailable") ELSE T
    BY <1>1, <1>4 DEF providerFailed
  <1>8. CASE n >= FailureLimit
    <2>1. Places(T) /\ "provider_unavailable" \in ClosureCodes
      BY <1>6 DEF Kept, ClosureCodes
    <2>. QED BY <1>6, <1>7, <1>8, <2>1, ClosedKeeps, KeptMeans
  <1>9. CASE ~(n >= FailureLimit)
    BY <1>6, <1>7, <1>9
  <1>. QED BY <1>8, <1>9

-----------------------------------------------------------------------------
(* The operations. *)

\* An operation that takes no place.
LEMMA KeepsPlaces ==
    ASSUME AdmissionInv, NEW S, Kept(admission, S), S.status # "NONE" \/ admission.status = "NONE",
           site' = site, time' = time, leaseKnown' = leaseKnown, grants' = grants,
           NEW n \in Nat, closures' = n, NEW i \in Nat, incident' = i, ClosedFor(S, n, i),
           \/ maintainAdmissionLifecycle(S)
           \/ admission' = S /\ AlarmSet(S, lifecycleAlarm')
    PROVE  AdmissionInv'
  <1>1. /\ Places(admission) /\ Leases(admission, leaseKnown) /\ Counts(admission, grants)
        /\ leaseKnown \in [Uploads -> Nat] /\ Quotas(grants)
        /\ admission.status = "NONE" => grants = {} /\ \A u \in Uploads : leaseKnown[u] = 0
    BY DEF AdmissionInv
  <1>2. Places(S) /\ Leases(S, leaseKnown) /\ Counts(S, grants)
    BY <1>1, KeptMeans DEF Kept
  <1>. QED BY <1>1, <1>2, Stored

\* A reservation is taken only where a place, an attempt, the budget and the minutes are left.
LEMMA ReserveKeeps ==
    ASSUME AdmissionInv, NEW u \in Uploads, reserveAdmission(u)
    PROVE  AdmissionInv'
  <1>0. /\ Grounds /\ site' = site /\ time' = time /\ incident' = incident
        /\ leaseKnown \in [Uploads -> Nat] /\ closures \in Nat /\ incident \in Nat /\ Quotas(grants)
        /\ time \in Nat
    BY GroundsHold DEF AdmissionInv, reserveAdmission, Grounds
  <1>1. PICK next : next = rolled(base)
    OBVIOUS
  <1>2. PICK plan : plan = planAdmission(u)
    OBVIOUS
  <1>3. /\ Places(base) /\ Leases(base, leaseKnown) /\ ClosedFor(base, closures, incident)
        /\ Counts(base, grants) /\ AlarmSet(base, lifecycleAlarm) /\ base.status # "NONE"
    BY BaseKeeps
  <1>4. /\ Places(next) /\ Leases(next, leaseKnown) /\ ClosedFor(next, closures, incident)
        /\ Counts(next, grants) /\ next.reservations = base.reservations /\ next.status # "NONE"
    BY <1>0, <1>1, <1>3, RolledKeeps
  <1>5. CASE plan.outcome = "create"
    <2>1. PICK l \in Nat : l = leaseKnown[u] + 1
      BY <1>0
    <2>2. PICK known \in [Uploads -> Nat] : known = [leaseKnown EXCEPT ![u] = l]
      BY <1>0
    <2>3. PICK S : S = created(next, u, l)
      OBVIOUS
    <2>4. PICK g : g = grants \cup {[upload |-> u, lease |-> l, at |-> time]}
      OBVIOUS
    <2>5. /\ plan.record = next /\ next.reservations[u].state = "none"
          /\ ~AdmissionDenied(next, u) /\ ~budgetExceeded(next)
      BY <1>1, <1>2, <1>4, <1>5, PlanCases
    <2>6. /\ Places(S) /\ Leases(S, known) /\ ClosedFor(S, closures, incident)
          /\ Counts(S, g) /\ Quotas(g) /\ S.status = next.status
      BY <1>0, <1>4, <2>1, <2>2, <2>3, <2>4, <2>5, CreateKeeps
    <2>7. /\ maintainAdmissionLifecycle(S) /\ leaseKnown' = known /\ grants' = g
          /\ closures' = closures
      BY <1>2, <1>5, <2>1, <2>2, <2>3, <2>4, <2>5 DEF reserveAdmission
    <2>8. S.status # "NONE"
      BY <1>4, <2>6
    <2>. QED BY <1>0, <2>6, <2>7, <2>8, Stored
  <1>6. CASE plan.outcome = "reuse"
    <2>1. /\ maintainAdmissionLifecycle(base) /\ leaseKnown' = leaseKnown /\ grants' = grants
          /\ closures' = closures
      BY <1>2, <1>6, PlanCases DEF reserveAdmission
    <2>. QED BY <1>0, <1>3, <2>1, Stored
  <1>7. CASE plan.outcome = "closed"
    <2>1. /\ admission' = base /\ leaseKnown' = leaseKnown /\ grants' = grants
          /\ closures' = closures /\ lifecycleAlarm' = lifecycleAlarm
      BY <1>2, <1>7, PlanCases DEF reserveAdmission
    <2>. QED BY <1>0, <1>3, <2>1, Stored
  <1>8. CASE plan.outcome = "exceeded"
    <2>1. PICK T : T = thisDay(next)
      OBVIOUS
    <2>2. /\ Places(T) /\ Counts(T, grants) /\ T.reservations = next.reservations
          /\ T \in AdmissionRecords
      BY <1>0, <1>4, <2>1, ThisDayKeeps DEF Places
    <2>3. PICK c \in [code : ClosureCodes, at : Nat] :
             c = [code |-> "monthly_budget_exceeded", at |-> closures + 1]
      <3>1. closures + 1 \in Nat /\ "monthly_budget_exceeded" \in ClosureCodes
        BY <1>0 DEF ClosureCodes
      <3>. QED BY <3>1
    <2>4. PICK S : S = plan.record
      OBVIOUS
    <2>5. S = [T EXCEPT !.status = "AUTO_CLOSED", !.closure = c] /\ next.status # "AUTO_CLOSED"
      BY <1>1, <1>2, <1>8, <2>1, <2>3, <2>4, PlanCases
    <2>6. S = [status |-> "AUTO_CLOSED", closure |-> c, reservations |-> T.reservations,
               day |-> T.day, attempts |-> T.attempts, month |-> T.month, reserved |-> T.reserved,
               failures |-> T.failures, failedAt |-> T.failedAt, stream |-> T.stream]
      BY <2>2, <2>5 DEF AdmissionRecords
    <2>7. Kept(T, S) /\ S.status = "AUTO_CLOSED" /\ S.closure = c /\ S.reservations = T.reservations
      <3>1. S = Rewrite(T, "AUTO_CLOSED", c, T.reservations, T.failures, T.failedAt, T.stream)
        BY <2>6 DEF Rewrite
      <3>2. T.failures \in Nat /\ T.failedAt \in Nat
        BY <2>2, Parts
      <3>3. S.reservations = T.reservations
        BY <2>6
      <3>. QED BY <1>0, <2>2, <3>1, <3>2, <3>3, NoneRewritten, Rewritten
    <2>8. Places(S) /\ Counts(S, grants)
      BY <2>2, <2>7, KeptMeans DEF Kept
    <2>9. Leases(S, leaseKnown) /\ AlarmSet(S, lifecycleAlarm)
      BY <1>3, <1>4, <2>2, <2>7 DEF Leases, AlarmSet, held
    <2>10. incident = 0
      BY <1>4, <2>5 DEF ClosedFor
    <2>11. ClosedFor(S, closures + 1, incident) /\ closures + 1 \in Nat
      BY <1>0, <2>3, <2>7, <2>10 DEF ClosedFor, NoClosure
    <2>12. /\ admission' = S /\ leaseKnown' = leaseKnown /\ grants' = grants
           /\ closures' = closures + 1 /\ lifecycleAlarm' = lifecycleAlarm
      BY <1>2, <1>8, <2>4 DEF reserveAdmission
    <2>. QED BY <1>0, <2>7, <2>8, <2>9, <2>11, <2>12, Stored
  <1>. QED BY <1>2, <1>5, <1>6, <1>7, <1>8 DEF reserveAdmission

\* A mark is noted, counted as a failure or closes admission, by what it says.
LEMMA MarkKeeps ==
    ASSUME AdmissionInv, NEW u \in Uploads, NEW mark \in Marks, markAdmission(u, mark)
    PROVE  AdmissionInv'
  <1>0. /\ Grounds /\ site' = site /\ time' = time /\ leaseKnown' = leaseKnown /\ grants' = grants
        /\ closures \in Nat /\ incident \in Nat /\ Places(admission) /\ admission.status # "NONE"
        /\ ClosedFor(admission, closures, incident)
    BY GroundsHold DEF AdmissionInv, markAdmission
  <1>1. PICK R : R = releaseStreamReservation(admission, u, mark)
    OBVIOUS
  <1>2. /\ Kept(admission, R) /\ R.status = admission.status /\ R.closure = admission.closure
        /\ R.reservations = admission.reservations /\ Places(R)
    BY <1>0, <1>1, ReleasedKeeps DEF Kept
  <1>3. PICK S : S = CASE mark = "AUTO_CLOSED" ->
                            IF R.status = "AUTO_CLOSED" THEN R
                            ELSE closed(R, "provider_budget_or_inventory")
                      [] mark = "PROVIDER_UNAVAILABLE" ->
                            IF R.reservations[u].state = "CREATE_AMBIGUOUS" THEN R ELSE providerFailed(R, u)
                      [] OTHER -> marked(R, u, mark)
    OBVIOUS
  <1>4. /\ mark \in Terminal \cup {"AUTO_CLOSED"} \/ R.reservations[u].state # "none"
        /\ maintainAdmissionLifecycle(S)
        /\ closures' = IF S.closure.at > R.closure.at THEN closures + 1 ELSE closures
        /\ incident' = IF S.closure.at > R.closure.at THEN closures + 1 ELSE incident
    BY <1>1, <1>3 DEF markAdmission
  <1>5. /\ Kept(R, S)
        /\ \/ S.status = R.status /\ S.closure = R.closure
           \/ \E c \in {"provider_unavailable", "provider_budget_or_inventory"} :
                 S.status = "AUTO_CLOSED" /\ S.closure = [code |-> c, at |-> closures + 1]
    <2>0. Kept(R, R)
      BY <1>2, Parts DEF Kept
    <2>1. CASE mark = "AUTO_CLOSED"
      <3>1. S = R \/ S = closed(R, "provider_budget_or_inventory")
        BY <1>3, <2>1
      <3>2. "provider_budget_or_inventory" \in ClosureCodes
        BY DEF ClosureCodes
      <3>. QED BY <1>0, <1>2, <2>0, <3>1, <3>2, ClosedKeeps
    <2>2. CASE mark = "PROVIDER_UNAVAILABLE"
      <3>1. S = R \/ S = providerFailed(R, u)
        BY <1>3, <2>2
      <3>2. R.reservations[u].state # "none"
        BY <1>4, <2>2 DEF Terminal
      <3>. QED BY <1>0, <1>2, <2>0, <3>1, <3>2, FailedKeeps
    <2>3. CASE mark \notin {"AUTO_CLOSED", "PROVIDER_UNAVAILABLE"}
      <3>1. S = marked(R, u, mark)
        BY <1>3, <2>3
      <3>2. mark \notin Terminal => R.reservations[u].state # "none"
        BY <1>4, <2>3
      <3>. QED BY <1>0, <1>2, <3>1, <3>2, MarkedKeeps
    <2>. QED BY <2>1, <2>2, <2>3
  <1>6. Kept(admission, S)
    BY <1>0, <1>2, <1>5, KeptMeans
  <1>7. CASE S.status = R.status /\ S.closure = R.closure
    <2>1. ~(S.closure.at > R.closure.at)
      <3>1. R.closure.at \in Nat
        BY <1>2, Parts
      <3>. QED BY <1>7, <3>1
    <2>2. ClosedFor(S, closures, incident) /\ closures' = closures /\ incident' = incident
      BY <1>0, <1>2, <1>4, <1>7, <2>1 DEF ClosedFor
    <2>3. S.status # "NONE"
      BY <1>0, <1>2, <1>7
    <2>. QED BY <1>0, <1>4, <1>6, <2>2, <2>3, KeepsPlaces
  <1>8. ASSUME NEW c \in {"provider_unavailable", "provider_budget_or_inventory"},
               S.status = "AUTO_CLOSED", S.closure = [code |-> c, at |-> closures + 1]
        PROVE  AdmissionInv'
    <2>1. S.closure.at = closures + 1 /\ S.closure.code = c /\ closures + 1 \in Nat
      BY <1>0, <1>8
    <2>2. R.closure.at \in Nat /\ R.closure.at <= closures
      BY <1>0, <1>2, Parts DEF ClosedFor
    <2>3. S.closure.at > R.closure.at
      BY <1>0, <2>1, <2>2
    <2>4. closures' = closures + 1 /\ incident' = closures + 1
      BY <1>4, <2>3
    <2>5. ClosedFor(S, closures + 1, closures + 1)
      BY <1>0, <1>8, <2>1 DEF ClosedFor, NoClosure
    <2>. QED BY <1>0, <1>4, <1>6, <1>8, <2>1, <2>4, <2>5, KeepsPlaces
  <1>. QED BY <1>5, <1>7, <1>8

\* A heartbeat extends a reservation that is held, and never beyond what a lease allows.
LEMMA HeartbeatKeeps ==
    ASSUME AdmissionInv, NEW u \in Uploads, NEW lease \in Nat, heartbeatAdmission(u, lease)
    PROVE  AdmissionInv'
  <1>0. /\ Grounds /\ site' = site /\ time' = time /\ leaseKnown' = leaseKnown /\ grants' = grants
        /\ closures' = closures /\ incident' = incident
        /\ closures \in Nat /\ incident \in Nat /\ Places(admission) /\ admission.status # "NONE"
        /\ ClosedFor(admission, closures, incident) /\ AlarmSet(admission, lifecycleAlarm)
        /\ Leases(admission, leaseKnown) /\ leaseKnown \in [Uploads -> Nat]
        /\ Counts(admission, grants) /\ Quotas(grants)
    BY GroundsHold DEF AdmissionInv, heartbeatAdmission
  <1>1. PICK R : R = normalizeAdmissionLeases(admission)
    OBVIOUS
  <1>2. /\ Places(R) /\ Leases(R, leaseKnown) /\ ClosedFor(R, closures, incident)
        /\ Counts(R, grants) /\ AlarmSet(R, lifecycleAlarm) /\ R.status # "NONE"
    BY <1>0, <1>1, NormalizedKeeps
  <1>3. PICK r \in Reservations : r = R.reservations[u]
    BY <1>2, Parts
  <1>4. CASE r.state \in {"none", "CREATE_AMBIGUOUS"} \/ r.lease # lease
    <2>1. admission' = R /\ lifecycleAlarm' = lifecycleAlarm
      BY <1>1, <1>3, <1>4 DEF heartbeatAdmission
    <2>. QED BY <1>0, <1>2, <2>1, Stored
  <1>5. CASE ~(r.state \in {"none", "CREATE_AMBIGUOUS"} \/ r.lease # lease)
    <2>1. PICK x \in Reservations : /\ x = renewed(lease) /\ x.state = "held" /\ x.lease = r.lease
                                    /\ x.deadline = time + LeaseTTL
      <3>1. /\ renewed(lease) \in Reservations /\ renewed(lease).state = "held"
            /\ renewed(lease).lease = lease /\ renewed(lease).deadline = time + LeaseTTL
        BY <1>0, <1>3, ReservationForms
      <3>2. r.lease = lease
        BY <1>5
      <3>. QED BY <3>1, <3>2
    <2>2. PICK S : S = [R EXCEPT !.reservations[u] = renewed(lease)]
      OBVIOUS
    <2>3. S = [status |-> R.status, closure |-> R.closure, reservations |-> [R.reservations EXCEPT ![u] = x],
               day |-> R.day, attempts |-> R.attempts, month |-> R.month, reserved |-> R.reserved,
               failures |-> R.failures, failedAt |-> R.failedAt, stream |-> R.stream]
      BY <1>2, <2>1, <2>2 DEF Places, AdmissionRecords
    <2>4. S = Rewrite(R, R.status, R.closure, [R.reservations EXCEPT ![u] = x],
                      R.failures, R.failedAt, R.stream)
      BY <2>3 DEF Rewrite
    <2>5. /\ x.state # "none" /\ R.reservations[u].state # "none"
          /\ x.lease <= R.reservations[u].lease /\ x.deadline <= time + LeaseTTL
      BY <1>0, <1>3, <1>5, <2>1 DEF Reservations, Grounds
    <2>6. Fewer(R, [R.reservations EXCEPT ![u] = x], R.stream)
      BY <1>0, <1>2, <2>5, OneRewritten
    <2>7. R.status \in {"NONE", "OPEN", "AUTO_CLOSED"} /\ R.closure \in [code : ClosureCodes, at : Nat]
          /\ R.failures \in Nat /\ R.failedAt \in Nat
      BY <1>2, Parts
    <2>8. Kept(R, S) /\ S.status = R.status /\ S.closure = R.closure
      BY <1>0, <1>2, <2>4, <2>6, <2>7, Rewritten
    <2>9. /\ Places(S) /\ Leases(S, leaseKnown) /\ Counts(S, grants)
          /\ ClosedFor(S, closures, incident) /\ S.status # "NONE"
      BY <1>0, <1>2, <2>8, KeptMeans DEF Kept, ClosedFor
    <2>10. maintainAdmissionLifecycle(S)
      BY <1>1, <1>3, <1>5, <2>2 DEF heartbeatAdmission
    <2>. QED BY <1>0, <2>9, <2>10, Stored
  <1>. QED BY <1>4, <1>5

\* A resumption takes its place again without a new attempt.
LEMMA ResumeKeeps ==
    ASSUME AdmissionInv, NEW u \in Uploads, resumeAdmission(u)
    PROVE  AdmissionInv'
  <1>0. /\ Grounds /\ site' = site /\ time' = time /\ leaseKnown' = leaseKnown /\ grants' = grants
        /\ closures' = closures /\ incident' = incident
        /\ closures \in Nat /\ incident \in Nat /\ Places(admission) /\ admission.status # "NONE"
        /\ ClosedFor(admission, closures, incident)
        /\ Leases(admission, leaseKnown) /\ leaseKnown \in [Uploads -> Nat]
        /\ Counts(admission, grants) /\ Quotas(grants)
    BY GroundsHold DEF AdmissionInv, resumeAdmission
  <1>1. PICK R : R = normalizeAdmissionLeases(admission)
    OBVIOUS
  <1>2. /\ Places(R) /\ Leases(R, leaseKnown) /\ ClosedFor(R, closures, incident)
        /\ Counts(R, grants) /\ R.status # "NONE" /\ R \in AdmissionRecords
    BY <1>0, <1>1, NormalizedKeeps DEF Places
  <1>3. PICK r \in Reservations : r = R.reservations[u]
    BY <1>2, Parts
  <1>4. PICK l \in Nat : /\ l = IF r.state = "none" THEN leaseKnown[u] ELSE r.lease
                         /\ l <= leaseKnown[u]
    <2>1. leaseKnown[u] \in Nat /\ r.lease \in Nat /\ r.lease <= leaseKnown[u]
      BY <1>0, <1>2, <1>3 DEF Leases, Reservations
    <2>. QED BY <2>1
  <1>5. PICK x \in Reservations : /\ x = renewed(l) /\ x.state = "held" /\ x.lease = l
                                  /\ x.deadline = time + LeaseTTL
    BY <1>0, <1>3, ReservationForms
  <1>6. PICK S : S = [R EXCEPT !.reservations[u] = x]
    OBVIOUS
  <1>7. maintainAdmissionLifecycle(S)
    BY <1>1, <1>3, <1>4, <1>5, <1>6 DEF resumeAdmission
  <1>8. S = [status |-> R.status, closure |-> R.closure, reservations |-> [R.reservations EXCEPT ![u] = x],
             day |-> R.day, attempts |-> R.attempts, month |-> R.month, reserved |-> R.reserved,
             failures |-> R.failures, failedAt |-> R.failedAt, stream |-> R.stream]
    BY <1>2, <1>6 DEF AdmissionRecords
  <1>9. S \in AdmissionRecords
    BY <1>2, <1>8 DEF AdmissionRecords
  <1>10. /\ \A v \in Uploads \ {u} : S.reservations[v] = R.reservations[v]
         /\ S.reservations[u] = x
         /\ S.status = R.status /\ S.closure = R.closure /\ S.stream = R.stream
         /\ S.day = R.day /\ S.month = R.month /\ S.attempts = R.attempts /\ S.reserved = R.reserved
    BY <1>2, <1>8 DEF AdmissionRecords
  <1>11. held(S) = held(R) \cup {u}
    BY <1>5, <1>10 DEF held
  <1>12. IsFiniteSet(held(R)) /\ Cardinality(held(R)) \in Nat
    <2>1. held(R) \subseteq Uploads
      BY DEF held
    <2>. QED BY <1>0, <2>1, FS_Subset, FS_CardinalityType DEF Grounds
  <1>13. /\ Cardinality(held(S)) <= site.concurrency
         /\ \A v, w \in held(S) : site.creatorOf[v] = site.creatorOf[w] => v = w
    <2>1. CASE r.state = "none"
      <3>1. /\ Cardinality(held(R)) < site.concurrency
            /\ \A v \in held(R) : site.creatorOf[v] # site.creatorOf[u]
        BY <1>1, <1>3, <2>1 DEF resumeAdmission
      <3>2. u \notin held(R)
        BY <1>3, <2>1 DEF held
      <3>3. Cardinality(held(S)) = Cardinality(held(R)) + 1
        BY <1>11, <1>12, <3>2, FS_AddElement
      <3>. QED BY <1>0, <1>2, <1>11, <1>12, <3>1, <3>3 DEF Places, Grounds
    <2>2. CASE r.state # "none"
      <3>1. held(S) = held(R)
        BY <1>3, <1>11, <2>2 DEF held
      <3>. QED BY <1>2, <3>1 DEF Places
    <2>. QED BY <2>1, <2>2
  <1>14. Places(S)
    <2>1. \A v \in Uploads : /\ S.reservations[v].state = "none" => S.reservations[v] = NoReservation
                             /\ S.reservations[v].deadline <= time + LeaseTTL
      BY <1>0, <1>2, <1>5, <1>10 DEF Places, Grounds
    <2>2. liveStreamReservations(S) = liveStreamReservations(R)
      BY <1>10 DEF liveStreamReservations
    <2>. QED BY <1>2, <1>9, <1>10, <1>13, <2>1, <2>2 DEF Places
  <1>15. /\ Leases(S, leaseKnown) /\ ClosedFor(S, closures, incident) /\ Counts(S, grants)
         /\ S.status # "NONE"
    BY <1>2, <1>4, <1>5, <1>10 DEF Leases, ClosedFor, Counts
  <1>. QED BY <1>0, <1>7, <1>14, <1>15, Stored

\* The operator reopens admission: that ends the incident.
LEMMA ReopenKeeps ==
    ASSUME AdmissionInv, reopenAdmission
    PROVE  AdmissionInv'
  <1>0. /\ Grounds /\ site' = site /\ time' = time /\ leaseKnown' = leaseKnown /\ grants' = grants
        /\ closures' = closures
        /\ closures \in Nat /\ incident \in Nat /\ Places(admission)
        /\ ClosedFor(admission, closures, incident)
        /\ Leases(admission, leaseKnown) /\ leaseKnown \in [Uploads -> Nat]
        /\ Counts(admission, grants) /\ Quotas(grants)
        /\ admission.status = "NONE" => grants = {} /\ \A u \in Uploads : leaseKnown[u] = 0
    BY GroundsHold DEF AdmissionInv, reopenAdmission
  <1>1. PICK q : q = reopenRequest
    OBVIOUS
  <1>2. CASE q \in audits
    <2>1. maintainAdmissionLifecycle(admission) /\ incident' = incident
      BY <1>1, <1>2 DEF reopenAdmission
    <2>. QED BY <1>0, <2>1, Stored
  <1>3. CASE q \notin audits
    <2>1. PICK Z : Z = {u \in held(admission) :
                          /\ admission.reservations[u].state = "CREATE_AMBIGUOUS"
                          /\ \/ u = q.upload
                             \/ q.code = "provider_unavailable" /\ q.resolution = "INVENTORY_RECONCILED"}
      OBVIOUS
    <2>2. /\ admission.status = "AUTO_CLOSED" /\ closure_matches(q)
          /\ maintainAdmissionLifecycle([admission EXCEPT
                 !.status = "OPEN", !.closure = NoClosure, !.failures = 0, !.failedAt = 0,
                 !.reservations = [u \in Uploads |-> IF u \in Z THEN NoReservation
                                                     ELSE admission.reservations[u]]])
          /\ incident' = IF q.at = incident THEN 0 ELSE incident
      BY <1>1, <1>3, <2>1 DEF reopenAdmission
    <2>3. NoReservation \in Reservations /\ NoReservation.state = "none" /\ NoReservation.lease = 0
          /\ NoReservation.deadline = 0
      BY <1>0, ReservationForms DEF Reservations, NoReservation
    <2>4. PICK r \in [Uploads -> Reservations] :
             r = [u \in Uploads |-> IF u \in Z THEN NoReservation ELSE admission.reservations[u]]
      <3>1. admission.reservations \in [Uploads -> Reservations]
        BY <1>0, Parts
      <3>2. [u \in Uploads |-> IF u \in Z THEN NoReservation ELSE admission.reservations[u]]
              \in [Uploads -> Reservations]
        BY <2>3, <3>1
      <3>. QED BY <3>2
    <2>5. PICK S : S = [admission EXCEPT !.status = "OPEN", !.closure = NoClosure, !.failures = 0,
                                         !.failedAt = 0, !.reservations = r]
      OBVIOUS
    <2>6. S = [status |-> "OPEN", closure |-> NoClosure, reservations |-> r,
               day |-> admission.day, attempts |-> admission.attempts, month |-> admission.month,
               reserved |-> admission.reserved, failures |-> 0, failedAt |-> 0,
               stream |-> admission.stream]
      BY <1>0, <2>5 DEF Places, AdmissionRecords
    <2>7. S = Rewrite(admission, "OPEN", NoClosure, r, 0, 0, admission.stream)
      BY <2>6 DEF Rewrite
    <2>8. Fewer(admission, r, admission.stream)
      <3>1. admission.stream \in [Uploads -> Nat]
        BY <1>0, Parts
      <3>2. ASSUME NEW u \in Uploads
            PROVE  /\ r[u].state = "none" => r[u] = NoReservation
                   /\ r[u].state # "none" => admission.reservations[u].state # "none"
                   /\ r[u].lease <= admission.reservations[u].lease
                   /\ r[u].deadline <= time + LeaseTTL
        <4>1. /\ admission.reservations[u] \in Reservations
              /\ admission.reservations[u].state = "none" => admission.reservations[u] = NoReservation
              /\ admission.reservations[u].deadline <= time + LeaseTTL
          BY <1>0, Parts
        <4>2. r[u] = NoReservation \/ r[u] = admission.reservations[u]
          BY <2>4
        <4>. QED BY <1>0, <2>3, <4>1, <4>2 DEF Reservations, Grounds
      <3>. QED BY <3>1, <3>2 DEF Fewer
    <2>9. Kept(admission, S) /\ S.status = "OPEN" /\ S.closure = NoClosure
      <3>1. NoClosure \in [code : ClosureCodes, at : Nat]
        BY DEF NoClosure, ClosureCodes
      <3>. QED BY <1>0, <2>7, <2>8, <3>1, Rewritten
    <2>10. incident' = 0
      <3>1. q.at = admission.closure.at
        BY <2>2 DEF closure_matches
      <3>. QED BY <1>0, <2>2, <3>1 DEF ClosedFor
    <2>11. ClosedFor(S, closures, 0)
      BY <1>0, <2>9 DEF ClosedFor, NoClosure
    <2>12. maintainAdmissionLifecycle(S)
      BY <2>2, <2>4, <2>5
    <2>. QED BY <1>0, <2>9, <2>10, <2>11, <2>12, KeepsPlaces
  <1>. QED BY <1>2, <1>3

\* The alarm takes out the leases that are over and is set for the next.
LEMMA DueKeeps ==
    ASSUME AdmissionInv, lifecycleDue
    PROVE  AdmissionInv'
  <1>0. /\ Grounds /\ site' = site /\ time' = time /\ leaseKnown' = leaseKnown /\ grants' = grants
        /\ closures' = closures /\ incident' = incident /\ time <= MaxTime
        /\ closures \in Nat /\ incident \in Nat /\ Places(admission)
        /\ ClosedFor(admission, closures, incident)
        /\ Leases(admission, leaseKnown) /\ leaseKnown \in [Uploads -> Nat]
        /\ Counts(admission, grants) /\ Quotas(grants)
        /\ admission.status = "NONE" => grants = {} /\ \A u \in Uploads : leaseKnown[u] = 0
    BY GroundsHold DEF AdmissionInv, lifecycleDue
  <1>1. PICK R : R = normalizeAdmissionLeases(admission)
    OBVIOUS
  <1>2. /\ Places(R) /\ Leases(R, leaseKnown) /\ ClosedFor(R, closures, incident)
        /\ Counts(R, grants) /\ R.status = admission.status
    BY <1>0, <1>1, NormalizedKeeps
  <1>3. /\ admission' = R
        /\ lifecycleAlarm' = IF held(R) # {} THEN Min({leaseDeadline(R.reservations[u]) : u \in held(R)})
                             ELSE -1
    BY <1>1 DEF lifecycleDue
  <1>4. AlarmSet(R, lifecycleAlarm')
    <2>1. CASE held(R) = {}
      <3>1. -1 \in -1 .. (MaxTime + LeaseTTL)
        BY <1>0 DEF Grounds
      <3>. QED BY <1>3, <2>1, <3>1 DEF AlarmSet
    <2>2. CASE held(R) # {}
      BY <1>0, <1>2, <1>3, <2>2, NextDeadline
    <2>. QED BY <2>1, <2>2
  <1>5. R.status = "NONE" => grants = {} /\ \A u \in Uploads : leaseKnown[u] = 0
    BY <1>0, <1>2
  <1>. QED BY <1>0, <1>2, <1>3, <1>4, <1>5, Stored

\* Time passes: the windows of the quotas move with it.
LEMMA TickKeeps ==
    ASSUME AdmissionInv, AdmissionTick
    PROVE  AdmissionInv'
  <1>0. /\ Grounds /\ time \in Nat /\ time' = time + 1 /\ time + 1 \in 0 .. MaxTime
        /\ UNCHANGED <<site, admission, lifecycleAlarm, leaseKnown, grants, incident, closures>>
        /\ Places(admission) /\ admission \in AdmissionRecords /\ Quotas(grants)
    BY GroundsHold DEF AdmissionInv, AdmissionTick, Grounds, Places
  <1>1. utcDay \in Nat /\ utcDay' \in Nat /\ utcDay <= utcDay' /\ utcMonth \in Nat
        /\ utcMonth' \in Nat /\ utcMonth <= utcMonth'
    <2>1. /\ DayTicks \in Nat \ {0} /\ MonthTicks \in Nat \ {0} /\ time + 1 \in Nat /\ time <= time + 1
      BY <1>0, AdmissionAssumption
    <2>. QED BY <1>0, <2>1, DivGrows DEF utcDay, utcMonth
  <1>2. Places(admission)'
    <2>1. site.stream => Cardinality(liveStreamReservations(admission)') <= StreamBudget
      <3>1. /\ liveStreamReservations(admission)' \subseteq liveStreamReservations(admission)
            /\ liveStreamReservations(admission) \subseteq Uploads
        BY <1>0 DEF liveStreamReservations, AdmissionRecords
      <3>2. PICK A, D : A = liveStreamReservations(admission)' /\ D = liveStreamReservations(admission)
        OBVIOUS
      <3>3. IsFiniteSet(D) /\ IsFiniteSet(A) /\ Cardinality(A) <= Cardinality(D)
        BY <1>0, <3>1, <3>2, FS_Subset DEF Grounds
      <3>4. Cardinality(D) \in Nat /\ Cardinality(A) \in Nat
        BY <3>3, FS_CardinalityType
      <3>. QED BY <1>0, <3>2, <3>3, <3>4 DEF Places, Grounds
    <2>2. \A u \in Uploads : admission.reservations[u].deadline <= time' + LeaseTTL
      BY <1>0 DEF Places, AdmissionRecords, Reservations, Grounds
    <2>3. admission.day <= utcDay' /\ admission.month <= utcMonth'
      BY <1>0, <1>1 DEF Places, AdmissionRecords
    <2>4. /\ Cardinality(held(admission)) <= site.concurrency
          /\ \A u, v \in held(admission) : site.creatorOf[u] = site.creatorOf[v] => u = v
          /\ \A u \in Uploads : admission.reservations[u].state = "none"
                                   => admission.reservations[u] = NoReservation
      BY <1>0 DEF Places
    <2>5. held(admission)' = held(admission)
      BY <1>0 DEF held
    <2>. QED BY <1>0, <2>1, <2>2, <2>3, <2>4, <2>5 DEF Places
  <1>3. Quotas(grants)'
    <2>1. grants \subseteq [upload : Uploads, lease : Nat, at : 0 .. time + 1]
      BY <1>0 DEF Quotas
    <2>. QED BY <1>0, <2>1 DEF Quotas, OfDay, OfMonth
  <1>4. /\ (Leases(admission, leaseKnown))' /\ (ClosedFor(admission, closures, incident))'
        /\ (Counts(admission, grants))' /\ (AlarmSet(admission, lifecycleAlarm))'
    BY <1>0 DEF AdmissionInv, Leases, ClosedFor, Counts, AlarmSet, held, leaseDeadline, OfDay, OfMonth
  <1>. QED BY <1>0, <1>2, <1>3, <1>4 DEF AdmissionInv

\* Reading the status normalises the record and may write it.
LEMMA ReadKeeps ==
    ASSUME AdmissionInv, readAdmissionStatus
    PROVE  AdmissionInv'
  <1>1. /\ Places(admission) /\ ClosedFor(admission, closures, incident)
        /\ Leases(admission, leaseKnown) /\ leaseKnown \in [Uploads -> Nat]
        /\ closures \in Nat /\ incident \in Nat
        /\ Counts(admission, grants) /\ Quotas(grants) /\ AlarmSet(admission, lifecycleAlarm)
        /\ admission.status = "NONE" => grants = {} /\ \A u \in Uploads : leaseKnown[u] = 0
    BY DEF AdmissionInv
  <1>2. /\ site' = site /\ time' = time /\ leaseKnown' = leaseKnown /\ grants' = grants
        /\ closures' = closures /\ incident' = incident
        /\ admission' = admission /\ lifecycleAlarm' = lifecycleAlarm
    BY DEF readAdmissionStatus
  <1>. QED BY <1>1, <1>2, Stored

\* Nothing is reserved, and no alarm is set.
LEMMA InitAdmission == AdmissionInit => AdmissionInv
  <1>. SUFFICES ASSUME AdmissionInit PROVE AdmissionInv
    OBVIOUS
  <1>1. Grounds /\ time \in 0 .. MaxTime /\ time = 0 /\ site \in Sites
    <2>1. time \in 0 .. MaxTime
      BY AdmissionAssumption DEF AdmissionInit
    <2>. QED BY <2>1, GroundsHold DEF AdmissionInit
  <1>2. PICK E : E = emptyAdmissionRecord
    OBVIOUS
  <1>3. /\ Places(E) /\ E.status = "OPEN" /\ held(E) = {} /\ Counts(E, {}) /\ ClosedFor(E, 0, 0)
        /\ \A known \in [Uploads -> Nat] : Leases(E, known)
        /\ E \in AdmissionRecords
    BY <1>1, <1>2, EmptyRecord DEF Places
  <1>4. admission = [E EXCEPT !.status = "NONE"]
    BY <1>2 DEF AdmissionInit
  <1>5. admission = [status |-> "NONE", closure |-> E.closure, reservations |-> E.reservations,
                     day |-> E.day, attempts |-> E.attempts, month |-> E.month, reserved |-> E.reserved,
                     failures |-> E.failures, failedAt |-> E.failedAt, stream |-> E.stream]
    BY <1>3, <1>4 DEF AdmissionRecords
  <1>6. admission = Rewrite(E, "NONE", E.closure, E.reservations, E.failures, E.failedAt, E.stream)
    BY <1>5 DEF Rewrite
  <1>7. E.closure \in [code : ClosureCodes, at : Nat] /\ E.failures \in Nat /\ E.failedAt \in Nat
    BY <1>3, Parts
  <1>8. Kept(E, admission) /\ admission.status = "NONE" /\ admission.closure = E.closure
    BY <1>1, <1>3, <1>6, <1>7, NoneRewritten, Rewritten
  <1>9. leaseKnown \in [Uploads -> Nat] /\ \A u \in Uploads : leaseKnown[u] = 0
    BY DEF AdmissionInit
  <1>10. /\ Places(admission) /\ Leases(admission, leaseKnown) /\ Counts(admission, {})
         /\ ClosedFor(admission, 0, 0) /\ held(admission) = {}
    BY <1>3, <1>8, <1>9, KeptMeans DEF Kept, ClosedFor
  <1>11. Quotas({})
    <2>1. \A c, d, m : OfDay({}, c, d) = {} /\ OfMonth({}, m) = {}
      BY DEF OfDay, OfMonth
    <2>. QED BY <1>1, <2>1, FS_EmptySet DEF Quotas, Grounds
  <1>12. AlarmSet(admission, -1)
    BY <1>1, <1>10 DEF AlarmSet, Grounds
  <1>13. lifecycleAlarm = -1 /\ grants = {} /\ incident = 0 /\ closures = 0
    BY DEF AdmissionInit
  <1>. QED BY <1>1, <1>8, <1>9, <1>10, <1>11, <1>12, <1>13 DEF AdmissionInv

\* Every step of the admission object, the jobs and the operator.
LEMMA NextAdmission == AdmissionInv /\ [AdmissionNext]_admissionVars => AdmissionInv'
  <1>. SUFFICES ASSUME AdmissionInv, [AdmissionNext]_admissionVars PROVE AdmissionInv'
    OBVIOUS
  <1>1. CASE UNCHANGED admissionVars
    <2>1. /\ Places(admission) /\ ClosedFor(admission, closures, incident)
          /\ Leases(admission, leaseKnown) /\ leaseKnown \in [Uploads -> Nat]
          /\ closures \in Nat /\ incident \in Nat
          /\ Counts(admission, grants) /\ Quotas(grants) /\ AlarmSet(admission, lifecycleAlarm)
          /\ admission.status = "NONE" => grants = {} /\ \A u \in Uploads : leaseKnown[u] = 0
      BY DEF AdmissionInv
    <2>2. /\ site' = site /\ time' = time /\ leaseKnown' = leaseKnown /\ grants' = grants
          /\ closures' = closures /\ incident' = incident
          /\ admission' = admission /\ lifecycleAlarm' = lifecycleAlarm
      BY <1>1 DEF admissionVars
    <2>. QED BY <2>1, <2>2, Stored
  <1>2. ASSUME NEW u \in Uploads, NEW l \in 1 .. MaxGrants, heartbeatAdmission(u, l) PROVE AdmissionInv'
    <2>1. l \in Nat
      BY AdmissionAssumption
    <2>. QED BY <1>2, <2>1, HeartbeatKeeps
  <1>. QED BY <1>1, <1>2, ReserveKeeps, ResumeKeeps, MarkKeeps, ReadKeeps, ReopenKeeps, DueKeeps,
           TickKeeps DEF AdmissionNext

\* It is what admission promises.
LEMMA AdmissionMeans == AdmissionInv => AdmissionSafe
  <1>. SUFFICES ASSUME AdmissionInv PROVE AdmissionSafe
    OBVIOUS
  <1>0. /\ Grounds /\ Places(admission) /\ ClosedFor(admission, closures, incident)
        /\ Leases(admission, leaseKnown) /\ leaseKnown \in [Uploads -> Nat]
        /\ Counts(admission, grants) /\ Quotas(grants) /\ AlarmSet(admission, lifecycleAlarm)
        /\ admission \in AdmissionRecords
    BY GroundsHold DEF AdmissionInv, Places
  <1>1. AdmissionTypeOK
    <2>1. \A u \in Uploads : admission.reservations[u].lease \in 0 .. leaseKnown[u]
      BY <1>0 DEF Leases, AdmissionRecords, Reservations
    <2>. QED BY <1>0, <2>1 DEF AdmissionTypeOK, ClosedFor, AlarmSet, AdmissionRecords
  <1>2. PlacesBounded
    <2>1. current \subseteq held(admission)
      BY <1>0 DEF current, held, leaseDeadline, Places, NoReservation, Grounds
    <2>2. held(admission) \subseteq Uploads
      BY DEF held
    <2>3. /\ IsFiniteSet(held(admission)) /\ IsFiniteSet(current)
          /\ Cardinality(current) <= Cardinality(held(admission))
      BY <1>0, <2>1, <2>2, FS_Subset DEF Grounds
    <2>4. Cardinality(current) \in Nat /\ Cardinality(held(admission)) \in Nat
      BY <2>3, FS_CardinalityType
    <2>. QED BY <1>0, <2>1, <2>3, <2>4 DEF PlacesBounded, Places, Grounds
  <1>3. QuotasHold
    <2>. SUFFICES ASSUME NEW g \in grants
                  PROVE  /\ Cardinality({h \in grants :
                                /\ site.creatorOf[h.upload] = site.creatorOf[g.upload]
                                /\ h.at \div DayTicks = g.at \div DayTicks}) <= DailyAttempts
                         /\ ~site.public =>
                              Cardinality({h \in grants : h.at \div MonthTicks = g.at \div MonthTicks})
                                 <= MonthlyBudget
      BY DEF QuotasHold
    <2>1. g.upload \in Uploads /\ g.at \in Nat
      BY <1>0 DEF Quotas, Grounds
    <2>2. PICK c \in Creators, d \in Nat, m \in Nat :
             c = site.creatorOf[g.upload] /\ d = g.at \div DayTicks /\ m = g.at \div MonthTicks
      BY <1>0, <2>1, DivGrows, AdmissionAssumption DEF Grounds
    <2>3. /\ Cardinality(OfDay(grants, c, d)) <= DailyAttempts
          /\ ~site.public => Cardinality(OfMonth(grants, m)) <= MonthlyBudget
      BY <1>0 DEF Quotas
    <2>. QED BY <2>2, <2>3 DEF OfDay, OfMonth
  <1>4. StreamReservationsFit /\ IncidentHolds /\ AlarmCovers
    BY <1>0 DEF StreamReservationsFit, IncidentHolds, AlarmCovers, Places, ClosedFor, AlarmSet
  <1>. QED BY <1>1, <1>2, <1>3, <1>4 DEF AdmissionSafe

-----------------------------------------------------------------------------
(* Playback tokens. *)

Tickets == {"none", "purchased", "watched", "refunded"}
Availabilities == {"ACTIVE", "SALES_SUSPENDED", "TAKEDOWN"}
DeviceEnds == 0 .. MaxPlayTime + 1
Requests ==
    [pc : {"idle", "start", "cert", "pub", "checked", "entitled", "decide", "watch", "nonce", "grant", "policy"},
     route : {"v1", "v2", "v3", "none"}, since : 0 .. MaxPlayTime, avail : Availabilities \cup {"none"},
     ticket : Tickets, device : DeviceEnds, key : BOOLEAN, fresh : BOOLEAN]

Entries == [val : Tickets \cup Availabilities \cup DeviceEnds, until : Nat, tuple : Availabilities \cup {"none"}]

PlaybackTypes ==
    /\ audience \in Audiences
    /\ playTime \in 0 .. MaxPlayTime
    /\ avail \in Availabilities /\ ticket \in Tickets /\ key \in BOOLEAN
    /\ device \in DeviceEnds /\ grant \in DeviceEnds
    /\ lostAt \in [Rights -> 0 .. Never]
    /\ boughtAt \in 0 .. MaxPlayTime /\ deniedAt \in 0 .. MaxPlayTime
    /\ play \in [Viewers -> Requests]
    /\ cache \in [Kinds -> Entries]
    /\ nonceUntil \in {0, NonceLife} /\ replays \in Nat
    /\ token \in {NoToken} \cup [route : {audience.route}, at : 0 .. MaxPlayTime, until : Nat]

\* A right that is held was never lost, and what was lost was lost before now.
RightsHeld ==
    /\ avail # "TAKEDOWN" => lostAt["publication"] = Never
    /\ ticket # "refunded" => lostAt["entitlement"] = Never
    /\ key => lostAt["certificate"] = Never
    /\ device # 0 => lostAt["device"] = Never
    /\ grant # 0 => lostAt["grant"] = Never
    /\ boughtAt <= playTime /\ deniedAt <= playTime

\* The chain showed the right to a request when it was already under way.
Shown(w, kind) == w.since <= lostAt[kind]
\* It, or a request whose answer was kept for good, showed it.
Lasting(w, kind, good) == w.since <= lostAt[kind] + Latency + good - 1

\* An entry kept for good ends before a right lost while its request was under way would let it.
EntryHolds(kind, right, good) ==
    cache[kind].until <= playTime + good /\ cache[kind].until <= lostAt[right] + Latency + good

CacheHolds ==
    /\ EntryHolds("certificate", "certificate", CertCache)
    /\ EntryHolds("certificate", "device", CertCache)
    /\ EntryHolds("publication", "publication", PubCache)
    /\ cache["certificate"].until # 0 => cache["certificate"].val \in DeviceEnds
    /\ cache["publication"].until # 0 => cache["publication"].val \in PlayableAvailability
    /\ cache["entitlement"].until # 0 =>
         LET val == cache["entitlement"].val
         IN /\ val \in Tickets
            /\ val \in Playable => EntryHolds("entitlement", "entitlement", GoodCache)
            /\ val \notin Playable => cache["entitlement"].until <= playTime + BadCache
            /\ val \in {"watched", "refunded"} => ticket = val
            /\ val = "none" /\ ticket # "none" => cache["entitlement"].until <= boughtAt + Latency + BadCache

\* What a request has read of the rights behind it, by the step it is at.
Cached(w) ==
    /\ w.route = "v2"
    /\ Lasting(w, "certificate", CertCache) /\ Lasting(w, "device", CertCache)
Granted(w) == IF w.route = "v1" THEN "grant" ELSE "device"
Direct(w) ==
    /\ w.route \in {"v1", "v3"}
    /\ w.avail \in PlayableAvailability => Shown(w, "publication")
    /\ w.ticket \in Playable => Shown(w, "entitlement")
    /\ w.device # 0 => Shown(w, Granted(w))
Fits(w) == w.avail \in PlayableAvailability /\ w.ticket \in Playable

RequestHolds(w) ==
    /\ w.pc # "idle" => /\ w.route = audience.route
                        /\ w.since <= playTime /\ playTime <= w.since + Latency
    /\ w.ticket \in {"watched", "refunded"} => ticket = w.ticket
    /\ w.pc = "cert" => /\ w.route = "v2"
                        /\ w.key => Shown(w, "certificate")
                        /\ w.device # 0 => Shown(w, "device")
    /\ w.pc = "pub" => Cached(w)
    /\ w.pc = "checked" =>
         /\ Cached(w)
         /\ w.avail \in PlayableAvailability => Lasting(w, "publication", PubCache)
         /\ w.fresh =>
              /\ w.avail \in PlayableAvailability => Shown(w, "publication")
              /\ w.ticket \in Playable => Shown(w, "entitlement")
              /\ w.ticket = "none" /\ ticket # "none" => w.since <= boughtAt
    /\ w.pc = "entitled" =>
         /\ Cached(w)
         /\ w.avail \in PlayableAvailability
         /\ Lasting(w, "publication", PubCache)
         /\ w.ticket \in Playable => Lasting(w, "entitlement", GoodCache)
         /\ w.ticket = "none" /\ ticket # "none" => w.since <= boughtAt + Latency + BadCache - 1
         /\ w.fresh =>
              /\ w.ticket \in Playable => Shown(w, "entitlement")
              /\ w.ticket = "none" /\ ticket # "none" => w.since <= boughtAt
    /\ w.pc \in {"decide", "grant"} => Direct(w)
    /\ w.pc = "decide" => w.route = "v3"
    /\ w.pc = "grant" => w.route = "v1"
    /\ w.pc = "nonce" => w.route = "v1"
    /\ w.pc = "watch" => w.route = "v3" /\ Direct(w) /\ Fits(w)
    /\ w.pc = "policy" =>
         /\ w.route = "v2" => /\ Cached(w)
                              /\ Lasting(w, "publication", PubCache)
                              /\ Lasting(w, "entitlement", GoodCache)
         /\ w.route # "v2" => Direct(w) /\ Fits(w)
         /\ w.route = "v3" => ticket = "watched"

TokenHolds ==
    token # NoToken =>
      /\ token.at <= playTime /\ token.until <= token.at + TTL
      /\ \A kind \in Checks(token.route) : token.until <= lostAt[kind] + Believed(token.route, kind) + TTL
      /\ token.route = "v3" => ticket = "watched"

NonceHolds ==
    /\ replays <= 1
    /\ replays = 1 /\ playTime < NonceLife => nonceUntil = NonceLife

PlaybackInv ==
    /\ PlaybackTypes /\ RightsHeld /\ CacheHolds
    /\ \A p \in Viewers : RequestHolds(play[p])
    /\ TokenHolds /\ NonceHolds /\ PurchaseTakesHold

\* The constants as the proofs use them: each a number of its own.
LEMMA PlaybackConstants ==
    /\ TTL \in Nat /\ CertCache \in Nat /\ PubCache \in Nat /\ GoodCache \in Nat /\ BadCache \in Nat
    /\ NonceLife \in Nat /\ Latency \in Nat \ {0} /\ MaxPlayTime \in Nat \ {0}
    /\ \A a \in Audiences : a.route \in {"v1", "v2", "v3"} /\ a.plays \in Nat
  BY PlaybackAssumption

\* At the start every right is held and nothing is remembered.
LEMMA InitPlayback == PlaybackInit => PlaybackInv
  <1>. SUFFICES ASSUME PlaybackInit PROVE PlaybackInv
    OBVIOUS
  <1>1. PlaybackTypes
    BY PlaybackConstants DEF PlaybackInit, PlaybackTypes, Tickets, Availabilities, DeviceEnds, Never, NoPlay, Requests, Entries, Miss, Viewers
  <1>2. RightsHeld /\ CacheHolds
    BY PlaybackConstants DEF PlaybackInit, RightsHeld, CacheHolds, EntryHolds, Miss, Rights, Kinds, Never
  <1>3. \A p \in Viewers : RequestHolds(play[p])
    BY PlaybackConstants DEF PlaybackInit, RequestHolds, NoPlay
  <1>4. TokenHolds /\ NonceHolds /\ PurchaseTakesHold
    BY PlaybackConstants DEF PlaybackInit, TokenHolds, NonceHolds, PurchaseTakesHold
  <1>. QED BY <1>1, <1>2, <1>3, <1>4 DEF PlaybackInv

\* A request moves in a world that stands still: the other requests hold as before.
LEMMA OneRequest ==
    ASSUME PlaybackInv, NEW p \in Viewers, NEW w \in Requests, RequestHolds(w),
           play' = [play EXCEPT ![p] = w], UNCHANGED <<playTime, rights, lostAt, boughtAt>>
    PROVE  /\ play' \in [Viewers -> Requests]
           /\ Viewers' = Viewers
           /\ \A q \in Viewers : RequestHolds(play[q])'
  <1>1. play' \in [Viewers -> Requests] /\ Viewers' = Viewers
    BY DEF PlaybackInv, PlaybackTypes, rights, Viewers
  <1>2. ASSUME NEW q \in Viewers PROVE RequestHolds(play[q])'
    <2>1. PICK u : u = play'[q]
      OBVIOUS
    <2>2. RequestHolds(u)
      BY <2>1, <1>1 DEF PlaybackInv, PlaybackTypes
    <2>3. RequestHolds(u)'
      BY <2>2 DEF RequestHolds, Cached, Direct, Granted, Fits, Shown, Lasting, rights
    <2>. QED BY <2>1, <2>3 DEF RequestHolds, Cached, Direct, Granted, Fits, Shown, Lasting
  <1>. QED BY <1>1, <1>2

\* A refused request is as good as none.
LEMMA NothingAsked ==
    /\ NoPlay \in Requests
    /\ RequestHolds(NoPlay)
  <1>0. /\ 0 \in 0 .. MaxPlayTime
        /\ 0 \in DeviceEnds
    BY PlaybackConstants DEF DeviceEnds
  <1>1. NoPlay \in Requests
    BY <1>0 DEF NoPlay, Requests, Tickets, Availabilities
  <1>2. RequestHolds(NoPlay)
    BY DEF NoPlay, RequestHolds
  <1>. QED BY <1>1, <1>2

\* What a cache answers is an entry whose time is not over.
LEMMA Hit ==
    ASSUME PlaybackInv, NEW kind \in Kinds, NEW tuple, playbackCacheGet(kind, tuple).until # 0
    PROVE  /\ playbackCacheGet(kind, tuple) = cache[kind]
           /\ cache[kind].until > playTime
  BY DEF playbackCacheGet, Miss

\* A step that moves one request in a world that stands still, and signs nothing.
LEMMA MoveKeeps ==
    ASSUME PlaybackInv, NEW p \in Viewers, NEW w \in Requests, RequestHolds(w),
           play' = [play EXCEPT ![p] = w],
           UNCHANGED <<playTime, rights, lostAt, boughtAt, cache, nonceUntil, replays, token, deniedAt>>
    PROVE  PlaybackInv'
  <1>1. /\ play' \in [Viewers -> Requests]
        /\ Viewers' = Viewers
        /\ \A q \in Viewers : RequestHolds(play[q])'
    BY OneRequest
  <1>2. PlaybackTypes'
    BY <1>1 DEF PlaybackInv, PlaybackTypes, rights
  <1>3. RightsHeld' /\ CacheHolds'
    BY DEF PlaybackInv, RightsHeld, CacheHolds, EntryHolds, rights
  <1>4. TokenHolds' /\ NonceHolds' /\ PurchaseTakesHold'
    BY DEF PlaybackInv, TokenHolds, NonceHolds, PurchaseTakesHold, rights
  <1>. QED BY <1>1, <1>2, <1>3, <1>4 DEF PlaybackInv

\* A step that moves one request, and may remember an answer or a refusal.
LEMMA StoreKeeps ==
    ASSUME PlaybackInv, NEW p \in Viewers, NEW w \in Requests, RequestHolds(w),
           play' = [play EXCEPT ![p] = w], cache' \in [Kinds -> Entries], CacheHolds',
           deniedAt' = deniedAt \/ deniedAt' = playTime, PurchaseTakesHold',
           UNCHANGED <<playTime, rights, lostAt, boughtAt, nonceUntil, replays, token>>
    PROVE  PlaybackInv'
  <1>1. /\ play' \in [Viewers -> Requests]
        /\ Viewers' = Viewers
        /\ \A q \in Viewers : RequestHolds(play[q])'
    BY OneRequest
  <1>2. PlaybackTypes'
    BY <1>1 DEF PlaybackInv, PlaybackTypes, rights
  <1>3. RightsHeld'
    BY PlaybackConstants DEF PlaybackInv, PlaybackTypes, RightsHeld, rights
  <1>4. TokenHolds' /\ NonceHolds'
    BY DEF PlaybackInv, TokenHolds, NonceHolds, rights
  <1>. QED BY <1>1, <1>2, <1>3, <1>4 DEF PlaybackInv

\* An asked request: it has read nothing yet.
LEMMA AskKeeps ==
    ASSUME PlaybackInv, NEW p \in Viewers, Ask(p, audience.route)
    PROVE  PlaybackInv'
  <1>. DEFINE w == [NoPlay EXCEPT !.pc = "start", !.route = audience.route, !.since = playTime]
  <1>1. w \in Requests
    <2>1. audience.route \in {"v1", "v2", "v3"} /\ playTime \in 0 .. MaxPlayTime
      BY PlaybackConstants DEF PlaybackInv, PlaybackTypes
    <2>. QED BY <2>1, NothingAsked DEF Requests, NoPlay
  <1>2. RequestHolds(w)
    BY PlaybackConstants DEF PlaybackInv, PlaybackTypes, NoPlay, RequestHolds
  <1>3. play' = [play EXCEPT ![p] = w]
    BY DEF Ask
  <1>. QED BY <1>1, <1>2, <1>3, MoveKeeps DEF Ask

\* What the cache becomes when an answer is put in.
LEMMA Put ==
    ASSUME PlaybackInv, NEW kind \in Kinds, NEW val, NEW tuple, NEW until \in Nat,
           cache' = playbackCachePut(kind, val, tuple, until)
    PROVE  /\ \A k \in Kinds : k # kind => cache'[k] = cache[k]
           /\ \/ cache'[kind] = cache[kind]
              \/ cache'[kind] = [val |-> val, until |-> until, tuple |-> tuple]
  BY DEF playbackCachePut, PlaybackInv, PlaybackTypes

\* The times the invariant compares are numbers.
LEMMA PlaybackNats ==
    ASSUME PlaybackInv
    PROVE  /\ playTime \in Nat /\ playTime <= MaxPlayTime /\ Latency \in Nat \ {0} /\ boughtAt \in Nat
           /\ deniedAt \in Nat
           /\ \A right \in Rights : lostAt[right] \in Nat
           /\ \A kind \in Kinds : cache[kind].until \in Nat
           /\ \A w \in Requests : w.since \in Nat
  <1>1. Never \in Nat /\ (0 .. Never) \subseteq Nat
    BY PlaybackConstants DEF Never
  <1>2. \A kind \in Kinds : cache[kind].until \in Nat
    BY DEF PlaybackInv, PlaybackTypes, Entries
  <1>. QED BY <1>1, <1>2, PlaybackConstants DEF PlaybackInv, PlaybackTypes, Requests

\* A request under way finds an entry: the right behind it was not lost long before.
LEMMA FoundKept ==
    ASSUME PlaybackInv, NEW w \in Requests, w.since <= playTime, NEW kind \in Kinds, NEW right \in Rights,
           NEW good \in Nat, EntryHolds(kind, right, good), cache[kind].until > playTime
    PROVE  Lasting(w, right, good)
  <1>1. /\ w.since \in Nat /\ playTime \in Nat /\ cache[kind].until \in Nat
        /\ lostAt[right] \in Nat /\ Latency \in Nat
    BY PlaybackNats
  <1>. QED BY <1>1 DEF EntryHolds, Lasting

\* What the chain has just shown counts as kept for any time.
LEMMA ShownKept ==
    ASSUME PlaybackInv, NEW w \in Requests, NEW right \in Rights, NEW good \in Nat, Shown(w, right)
    PROVE  Lasting(w, right, good)
  <1>1. /\ w.since \in Nat /\ lostAt[right] \in Nat /\ Latency \in Nat \ {0}
    BY PlaybackNats
  <1>. QED BY <1>1 DEF Shown, Lasting

\* A right that is held is shown to whoever asks.
LEMMA HeldShown ==
    ASSUME PlaybackInv, NEW w \in Requests, NEW right \in Rights, w.since <= playTime, lostAt[right] = Never
    PROVE  Shown(w, right)
  <1>1. /\ w.since \in Nat /\ playTime \in 0 .. MaxPlayTime /\ MaxPlayTime \in Nat
    BY PlaybackConstants DEF PlaybackInv, PlaybackTypes, Requests
  <1>. QED BY <1>1 DEF Shown, Never

\* It stays a cache of entries.
LEMMA PutTyped ==
    ASSUME PlaybackInv, NEW kind \in Kinds, NEW val \in Tickets \cup Availabilities \cup DeviceEnds,
           NEW tuple \in Availabilities \cup {"none"}, NEW until \in Nat,
           cache' = playbackCachePut(kind, val, tuple, until)
    PROVE  cache' \in [Kinds -> Entries]
  <1>1. [val |-> val, until |-> until, tuple |-> tuple] \in Entries
    BY DEF Entries
  <1>. QED BY <1>1 DEF playbackCachePut, PlaybackInv, PlaybackTypes

\* The certificate's answer.
LEMMA CertificateKeeps ==
    ASSUME PlaybackInv, NEW p \in Viewers, readCertificate(p)
    PROVE  PlaybackInv'
  <1>1. /\ play[p] \in Requests /\ RequestHolds(play[p])
        /\ play[p].pc = "start" /\ play[p].route = "v2"
    BY DEF PlaybackInv, PlaybackTypes, readCertificate, at
  <1>2. "certificate" \in Kinds
    BY DEF Kinds
  <1>3. CASE playbackCacheGet("certificate", "none").until # 0
    <2>. DEFINE w == [play[p] EXCEPT !.pc = "pub", !.device = cache["certificate"].val]
    <2>1. play' = [play EXCEPT ![p] = w] /\ cache["certificate"].until > playTime
      BY <1>2, <1>3, Hit DEF readCertificate
    <2>2. cache["certificate"].val \in DeviceEnds
      BY <2>1, PlaybackConstants DEF PlaybackInv, CacheHolds, PlaybackTypes
    <2>3. w \in Requests
      BY <1>1, <2>2 DEF Requests
    <2>4. RequestHolds(w)
      <3>1. w.since <= playTime
        BY <1>1 DEF RequestHolds, Requests
      <3>2. Lasting(w, "certificate", CertCache) /\ Lasting(w, "device", CertCache)
        BY <2>1, <2>3, <3>1, <1>2, FoundKept, PlaybackConstants DEF PlaybackInv, CacheHolds, Rights, Kinds
      <3>. QED BY <1>1, <3>2 DEF RequestHolds, Requests, Cached
    <2>. QED BY <2>1, <2>3, <2>4, MoveKeeps DEF readCertificate
  <1>4. CASE playbackCacheGet("certificate", "none").until = 0
    <2>. DEFINE w == [play[p] EXCEPT !.pc = "cert", !.device = device, !.key = key]
    <2>1. play' = [play EXCEPT ![p] = w]
      BY <1>4 DEF readCertificate
    <2>2. w \in Requests
      BY <1>1 DEF Requests, PlaybackInv, PlaybackTypes
    <2>3. RequestHolds(w)
      BY <1>1, PlaybackConstants
         DEF RequestHolds, Shown, PlaybackInv, PlaybackTypes, RightsHeld, Requests, Never
    <2>. QED BY <2>1, <2>2, <2>3, MoveKeeps DEF readCertificate
  <1>. QED BY <1>3, <1>4

\* The certificate is checked and kept.
LEMMA DeviceProofKeeps ==
    ASSUME PlaybackInv, NEW p \in Viewers, verifyMarketDeviceProof(p)
    PROVE  PlaybackInv'
  <1>1. /\ play[p] \in Requests /\ RequestHolds(play[p]) /\ play[p].pc = "cert"
        /\ playTime \in 0 .. MaxPlayTime
    BY DEF PlaybackInv, PlaybackTypes, verifyMarketDeviceProof, at
  <1>2. CASE ~play[p].key \/ play[p].device <= playTime
    BY <1>2, NothingAsked, MoveKeeps DEF verifyMarketDeviceProof, refused
  <1>3. CASE ~(~play[p].key \/ play[p].device <= playTime)
    <2>. DEFINE w     == [play[p] EXCEPT !.pc = "pub"]
                until == Min({playTime + CertCache, play[p].device})
    <2>1. /\ play' = [play EXCEPT ![p] = w]
          /\ cache' = playbackCachePut("certificate", play[p].device, "none", until)
      BY <1>3 DEF verifyMarketDeviceProof
    <2>2. until \in Nat /\ until <= playTime + CertCache
      <3>1. playTime + CertCache \in Nat /\ play[p].device \in Nat
        BY <1>1, PlaybackConstants DEF Requests, DeviceEnds
      <3>. QED BY <3>1, MinOfNat
    <2>3. Shown(w, "certificate") /\ Shown(w, "device") /\ w.since <= playTime /\ playTime <= w.since + Latency
      BY <1>1, <1>3 DEF RequestHolds, Shown, Requests
    <2>4. w \in Requests /\ w.route = "v2" /\ w.route = audience.route
          /\ (w.ticket \in {"watched", "refunded"} => ticket = w.ticket)
      BY <1>1 DEF Requests, RequestHolds
    <2>5. RequestHolds(w)
      <3>1. Lasting(w, "certificate", CertCache) /\ Lasting(w, "device", CertCache)
        BY <2>3, <2>4, ShownKept, PlaybackConstants DEF Rights, Kinds
      <3>2. w.pc = "pub"
        BY <1>1 DEF Requests
      <3>. HIDE DEF w
      <3>. QED BY <2>3, <2>4, <3>1, <3>2 DEF RequestHolds, Cached
    <2>6. /\ \A k \in Kinds : k # "certificate" => cache'[k] = cache[k]
          /\ \/ cache'["certificate"] = cache["certificate"]
             \/ cache'["certificate"] = [val |-> play[p].device, until |-> until, tuple |-> "none"]
      <3>. HIDE DEF until
      <3>. QED BY <2>1, <2>2, Put DEF Kinds
    <2>7. cache' \in [Kinds -> Entries]
      <3>1. play[p].device \in DeviceEnds /\ "certificate" \in Kinds
        BY <1>1 DEF Requests, Kinds
      <3>. HIDE DEF until
      <3>. QED BY <2>1, <2>2, <3>1, PutTyped
    <2>8. CacheHolds'
      <3>1. UNCHANGED <<playTime, rights, lostAt, boughtAt>>
        BY DEF verifyMarketDeviceProof
      <3>2. EntryHolds("certificate", "certificate", CertCache)' /\ EntryHolds("certificate", "device", CertCache)'
        <4>1. CASE cache'["certificate"] = cache["certificate"]
          BY <3>1, <4>1 DEF PlaybackInv, CacheHolds, EntryHolds
        <4>2. CASE cache'["certificate"] = [val |-> play[p].device, until |-> until, tuple |-> "none"]
          <5>1. /\ lostAt["certificate"] \in Nat /\ lostAt["device"] \in Nat /\ w.since \in Nat
                /\ CertCache \in Nat /\ Latency \in Nat
            BY <2>4, PlaybackConstants, PlaybackNats DEF Rights, Kinds
          <5>. HIDE DEF until, w
          <5>. QED BY <1>1, <2>2, <2>3, <3>1, <4>2, <5>1 DEF EntryHolds, Shown
        <4>. QED BY <2>6, <4>1, <4>2
      <3>3. cache'["certificate"].val \in DeviceEnds \/ cache'["certificate"].until = 0
        BY <1>1, <2>6 DEF PlaybackInv, CacheHolds, Requests
      <3>4. cache'["publication"] = cache["publication"] /\ cache'["entitlement"] = cache["entitlement"]
        BY <2>6 DEF Kinds
      <3>. QED BY <3>1, <3>2, <3>3, <3>4 DEF PlaybackInv, CacheHolds, EntryHolds, rights
    <2>9. PurchaseTakesHold' /\ deniedAt' = deniedAt
      BY DEF verifyMarketDeviceProof, PlaybackInv, PurchaseTakesHold, rights
    <2>. HIDE DEF w, until
    <2>. QED BY <2>1, <2>4, <2>5, <2>7, <2>8, <2>9, StoreKeeps DEF verifyMarketDeviceProof
  <1>. QED BY <1>2, <1>3

\* The publication's answer, remembered or read with the ticket at one block.
LEMMA PublicationKeeps ==
    ASSUME PlaybackInv, NEW p \in Viewers, readPublication(p)
    PROVE  PlaybackInv'
  <1>1. /\ play[p] \in Requests /\ RequestHolds(play[p]) /\ play[p].pc = "pub"
        /\ avail \in Availabilities /\ ticket \in Tickets
    BY DEF PlaybackInv, PlaybackTypes, readPublication, at
  <1>2. /\ play[p].route = "v2" /\ play[p].route = audience.route
        /\ play[p].since <= playTime /\ playTime <= play[p].since + Latency
        /\ Cached(play[p])
        /\ play[p].ticket \in {"watched", "refunded"} => ticket = play[p].ticket
    BY <1>1 DEF RequestHolds, Cached
  <1>3. "publication" \in Kinds /\ "publication" \in Rights /\ "entitlement" \in Rights
    BY DEF Kinds, Rights
  <1>4. CASE playbackCacheGet("publication", "none").until # 0
    <2>. DEFINE w == [play[p] EXCEPT !.pc = "checked", !.avail = cache["publication"].val, !.fresh = FALSE]
    <2>1. play' = [play EXCEPT ![p] = w] /\ cache["publication"].until > playTime
      BY <1>3, <1>4, Hit DEF readPublication
    <2>2. cache["publication"].val \in PlayableAvailability
      BY <2>1, PlaybackNats DEF PlaybackInv, CacheHolds
    <2>3. w \in Requests
      BY <1>1, <2>2 DEF Requests, PlayableAvailability, Availabilities
    <2>4. /\ w.pc = "checked" /\ w.fresh = FALSE /\ w.route = play[p].route /\ w.since = play[p].since
          /\ w.ticket = play[p].ticket
      BY <1>1 DEF Requests
    <2>5. Lasting(w, "publication", PubCache)
      BY <1>2, <1>3, <2>1, <2>3, <2>4, FoundKept, PlaybackConstants DEF PlaybackInv, CacheHolds
    <2>6. RequestHolds(w)
      <3>. HIDE DEF w
      <3>. QED BY <1>2, <2>4, <2>5 DEF RequestHolds, Cached, Lasting
    <2>. HIDE DEF w
    <2>. QED BY <2>1, <2>3, <2>6, MoveKeeps DEF readPublication
  <1>5. CASE playbackCacheGet("publication", "none").until = 0
    <2>. DEFINE w == [play[p] EXCEPT !.pc = "checked", !.avail = avail, !.ticket = ticket, !.fresh = TRUE]
    <2>1. play' = [play EXCEPT ![p] = w]
      BY <1>5 DEF readPublication
    <2>2. w \in Requests
      BY <1>1 DEF Requests
    <2>3. /\ w.pc = "checked" /\ w.fresh = TRUE /\ w.route = play[p].route /\ w.since = play[p].since
          /\ w.ticket = ticket /\ w.avail = avail
      BY <1>1 DEF Requests
    <2>4. /\ avail \in PlayableAvailability => Shown(w, "publication") /\ Lasting(w, "publication", PubCache)
          /\ ticket \in Playable => Shown(w, "entitlement")
      BY <1>2, <1>3, <2>2, <2>3, HeldShown, ShownKept, PlaybackConstants
         DEF PlaybackInv, RightsHeld, PlayableAvailability, Playable
    <2>5. RequestHolds(w)
      <3>. HIDE DEF w
      <3>. QED BY <1>2, <2>3, <2>4 DEF RequestHolds, Cached, Lasting
    <2>. HIDE DEF w
    <2>. QED BY <2>1, <2>2, <2>5, MoveKeeps DEF readPublication
  <1>. QED BY <1>4, <1>5

\* The publication is kept when it was read just now, and the entitlement looked up.
LEMMA EntitlementKeeps ==
    ASSUME PlaybackInv, NEW p \in Viewers, readEntitlement(p)
    PROVE  PlaybackInv'
  <1>1. /\ play[p] \in Requests /\ RequestHolds(play[p]) /\ play[p].pc = "checked"
        /\ avail \in Availabilities /\ ticket \in Tickets
        /\ UNCHANGED <<playTime, rights, lostAt, boughtAt, nonceUntil, replays, token, deniedAt>>
    BY DEF PlaybackInv, PlaybackTypes, readEntitlement, at
  <1>2. CASE play[p].avail \notin PlayableAvailability
    BY <1>2, NothingAsked, MoveKeeps DEF readEntitlement, refused
  <1>3. CASE play[p].avail \in PlayableAvailability
    <2>1. /\ Cached(play[p])
          /\ play[p].route = audience.route
          /\ play[p].since <= playTime /\ playTime <= play[p].since + Latency
          /\ Lasting(play[p], "publication", PubCache)
          /\ play[p].ticket \in {"watched", "refunded"} => ticket = play[p].ticket
          /\ play[p].fresh => /\ Shown(play[p], "publication")
                              /\ play[p].ticket \in Playable => Shown(play[p], "entitlement")
                              /\ play[p].ticket = "none" /\ ticket # "none" => play[p].since <= boughtAt
      BY <1>1, <1>3 DEF RequestHolds
    <2>2. "publication" \in Kinds /\ "entitlement" \in Kinds /\ "publication" \in Rights /\ "entitlement" \in Rights
      BY DEF Kinds, Rights
    <2>3. cache' \in [Kinds -> Entries] /\ CacheHolds'
      <3>1. CASE ~play[p].fresh
        <4>1. cache' = cache
          BY <1>3, <3>1 DEF readEntitlement
        <4>. QED BY <1>1, <4>1 DEF PlaybackInv, PlaybackTypes, CacheHolds, EntryHolds, rights
      <3>2. CASE play[p].fresh
        <4>. DEFINE until == playTime + PubCache
        <4>1. cache' = playbackCachePut("publication", play[p].avail, "none", until)
          BY <1>3, <3>2 DEF readEntitlement
        <4>2. until \in Nat /\ play[p].avail \in Availabilities
          BY <1>3, PlaybackConstants, PlaybackNats DEF PlayableAvailability, Availabilities
        <4>3. /\ \A k \in Kinds : k # "publication" => cache'[k] = cache[k]
              /\ \/ cache'["publication"] = cache["publication"]
                 \/ cache'["publication"] = [val |-> play[p].avail, until |-> until, tuple |-> "none"]
          <5>. HIDE DEF until
          <5>. QED BY <4>1, <4>2, <2>2, Put
        <4>4. EntryHolds("publication", "publication", PubCache)'
          <5>1. CASE cache'["publication"] = cache["publication"]
            BY <1>1, <5>1 DEF PlaybackInv, CacheHolds, EntryHolds
          <5>2. CASE cache'["publication"] = [val |-> play[p].avail, until |-> until, tuple |-> "none"]
            <6>1. cache'["publication"].until = until /\ play[p].since <= lostAt["publication"]
              BY <2>1, <3>2, <5>2 DEF Shown
            <6>2. play[p].since \in Nat /\ lostAt["publication"] \in Nat /\ playTime \in Nat
                  /\ Latency \in Nat /\ PubCache \in Nat
              BY <1>1, <2>2, PlaybackNats, PlaybackConstants
            <6>. QED BY <1>1, <2>1, <6>1, <6>2 DEF EntryHolds
          <5>. QED BY <4>3, <5>1, <5>2
        <4>5. cache'["publication"].until # 0 => cache'["publication"].val \in PlayableAvailability
          BY <1>3, <4>3 DEF PlaybackInv, CacheHolds
        <4>6. cache'["certificate"] = cache["certificate"] /\ cache'["entitlement"] = cache["entitlement"]
          BY <4>3 DEF Kinds
        <4>7. cache' \in [Kinds -> Entries]
          <5>. HIDE DEF until
          <5>. QED BY <4>1, <4>2, <2>2, PutTyped
        <4>. HIDE DEF until
        <4>. QED BY <1>1, <4>4, <4>5, <4>6, <4>7 DEF PlaybackInv, CacheHolds, EntryHolds, rights
      <3>. QED BY <1>1, <3>1, <3>2 DEF Requests
    <2>4. PurchaseTakesHold'
      BY <1>1 DEF PlaybackInv, PurchaseTakesHold, rights
    <2>. DEFINE hit == playbackCacheGet("entitlement", play[p].avail)
    <2>5. CASE hit.until # 0
      <3>. DEFINE w == [play[p] EXCEPT !.pc = "entitled", !.ticket = cache["entitlement"].val, !.fresh = FALSE]
      <3>1. play' = [play EXCEPT ![p] = w] /\ cache["entitlement"].until > playTime
        BY <1>3, <2>2, <2>5, Hit DEF readEntitlement
      <3>2. cache["entitlement"].until # 0
        BY <3>1, <2>2, PlaybackNats
      <3>3. PICK val \in Tickets :
               /\ val = cache["entitlement"].val
               /\ val \in Playable => EntryHolds("entitlement", "entitlement", GoodCache)
               /\ val \in {"watched", "refunded"} => ticket = val
               /\ val = "none" /\ ticket # "none" => cache["entitlement"].until <= boughtAt + Latency + BadCache
        BY <3>2 DEF PlaybackInv, CacheHolds
      <3>4. w \in Requests
        BY <1>1, <3>3 DEF Requests
      <3>5. /\ w.pc = "entitled" /\ w.fresh = FALSE /\ w.route = play[p].route /\ w.since = play[p].since
            /\ w.ticket = val /\ w.avail = play[p].avail
        BY <1>1, <3>3 DEF Requests
      <3>6. val \in Playable => Lasting(w, "entitlement", GoodCache)
        <4>. HIDE DEF w
        <4>. QED BY <2>1, <2>2, <3>1, <3>3, <3>4, <3>5, FoundKept, PlaybackConstants
      <3>7. val = "none" /\ ticket # "none" => w.since <= boughtAt + Latency + BadCache - 1
        <4>1. w.since \in Nat /\ playTime \in Nat /\ cache["entitlement"].until \in Nat /\ boughtAt \in Nat
              /\ Latency \in Nat /\ BadCache \in Nat
          BY <1>1, <2>2, <3>4, PlaybackNats, PlaybackConstants
        <4>. HIDE DEF w
        <4>. QED BY <2>1, <3>1, <3>3, <3>5, <4>1
      <3>8. RequestHolds(w)
        <4>. HIDE DEF w
        <4>. QED BY <1>3, <2>1, <3>3, <3>5, <3>6, <3>7 DEF RequestHolds, Cached, Lasting
      <3>. HIDE DEF w
      <3>. QED BY <1>1, <2>3, <2>4, <3>1, <3>4, <3>8, StoreKeeps
    <2>6. CASE hit.until = 0
      <3>. DEFINE read == IF play[p].fresh THEN play[p].ticket ELSE ticket
                  w    == [play[p] EXCEPT !.pc = "entitled", !.ticket = read, !.fresh = TRUE]
      <3>1. play' = [play EXCEPT ![p] = w]
        BY <1>3, <2>6 DEF readEntitlement
      <3>2. w \in Requests
        BY <1>1 DEF Requests
      <3>3. /\ w.pc = "entitled" /\ w.fresh = TRUE /\ w.route = play[p].route /\ w.since = play[p].since
            /\ w.ticket = read /\ w.avail = play[p].avail
        BY <1>1 DEF Requests
      <3>4. read \in Playable => Shown(w, "entitlement") /\ Lasting(w, "entitlement", GoodCache)
        <4>1. read \in Playable => Shown(w, "entitlement")
          <5>1. CASE play[p].fresh
            BY <2>1, <3>3, <5>1 DEF Shown
          <5>2. CASE ~play[p].fresh
            <6>1. read \in Playable => lostAt["entitlement"] = Never
              BY <5>2 DEF PlaybackInv, RightsHeld, Playable
            <6>. HIDE DEF w, read
            <6>. QED BY <2>1, <2>2, <3>2, <3>3, <6>1, HeldShown
          <5>. QED BY <5>1, <5>2
        <4>. HIDE DEF w, read
        <4>. QED BY <2>2, <3>2, <4>1, ShownKept, PlaybackConstants
      <3>5. /\ read \in {"watched", "refunded"} => ticket = read
            /\ read = "none" /\ ticket # "none" => w.since <= boughtAt
        BY <2>1, <3>3
      <3>6. boughtAt <= boughtAt + Latency + BadCache - 1 /\ w.since \in Nat /\ boughtAt \in Nat
            /\ boughtAt + Latency + BadCache - 1 \in Nat
        <4>1. boughtAt \in Nat /\ Latency \in Nat \ {0} /\ BadCache \in Nat
          BY PlaybackNats, PlaybackConstants
        <4>2. w.since \in Nat
          BY <3>2, PlaybackNats
        <4>. HIDE DEF w
        <4>. QED BY <4>1, <4>2
      <3>7. read = "none" /\ ticket # "none" => w.since <= boughtAt + Latency + BadCache - 1
        <4>. HIDE DEF w, read
        <4>. QED BY <3>5, <3>6
      <3>8. RequestHolds(w)
        <4>. HIDE DEF w, read
        <4>. QED BY <1>3, <2>1, <3>3, <3>4, <3>5, <3>7 DEF RequestHolds, Cached, Lasting
      <3>. HIDE DEF w, read
      <3>. QED BY <1>1, <2>3, <2>4, <3>1, <3>2, <3>8, StoreKeeps
    <2>. QED BY <2>5, <2>6
  <1>. QED BY <1>2, <1>3

\* The entitlement is kept when it was read just now; the viewer goes on, or is refused.
LEMMA AuthorizationKeeps ==
    ASSUME PlaybackInv, NEW p \in Viewers, readStatelessPlaybackAuthorization(p)
    PROVE  PlaybackInv'
  <1>1. /\ play[p] \in Requests /\ RequestHolds(play[p]) /\ play[p].pc = "entitled"
        /\ UNCHANGED <<playTime, rights, lostAt, boughtAt, nonceUntil, replays, token>>
    BY DEF PlaybackInv, PlaybackTypes, readStatelessPlaybackAuthorization, at
  <1>2. /\ Cached(play[p])
        /\ play[p].avail \in PlayableAvailability
        /\ play[p].route = audience.route
        /\ play[p].since <= playTime /\ playTime <= play[p].since + Latency
        /\ Lasting(play[p], "publication", PubCache)
        /\ play[p].ticket \in Playable => Lasting(play[p], "entitlement", GoodCache)
        /\ play[p].ticket = "none" /\ ticket # "none" => play[p].since <= boughtAt + Latency + BadCache - 1
        /\ play[p].ticket \in {"watched", "refunded"} => ticket = play[p].ticket
        /\ play[p].fresh => /\ play[p].ticket \in Playable => Shown(play[p], "entitlement")
                            /\ play[p].ticket = "none" /\ ticket # "none" => play[p].since <= boughtAt
    BY <1>1 DEF RequestHolds
  <1>3. "entitlement" \in Kinds /\ "entitlement" \in Rights
    BY DEF Kinds, Rights
  <1>4. /\ playTime \in Nat /\ play[p].since \in Nat /\ boughtAt \in Nat /\ deniedAt \in Nat
        /\ Latency \in Nat \ {0} /\ BadCache \in Nat /\ GoodCache \in Nat /\ lostAt["entitlement"] \in Nat
    BY <1>1, <1>3, PlaybackNats, PlaybackConstants
  <1>5. cache' \in [Kinds -> Entries] /\ CacheHolds'
    <2>1. CASE ~play[p].fresh
      <3>1. cache' = cache
        BY <2>1 DEF readStatelessPlaybackAuthorization
      <3>. QED BY <1>1, <3>1 DEF PlaybackInv, PlaybackTypes, CacheHolds, EntryHolds, rights
    <2>2. CASE play[p].fresh
      <3>. DEFINE until == playTime + (IF play[p].ticket \in Playable THEN GoodCache ELSE BadCache)
      <3>1. cache' = playbackCachePut("entitlement", play[p].ticket, play[p].avail, until)
        BY <2>2 DEF readStatelessPlaybackAuthorization
      <3>2. /\ until \in Nat /\ play[p].avail \in Availabilities /\ play[p].ticket \in Tickets
            /\ play[p].ticket \in Playable => until = playTime + GoodCache
            /\ play[p].ticket \notin Playable => until = playTime + BadCache
        BY <1>1, <1>2, <1>4 DEF PlayableAvailability, Availabilities, Requests
      <3>3. /\ \A k \in Kinds : k # "entitlement" => cache'[k] = cache[k]
            /\ \/ cache'["entitlement"] = cache["entitlement"]
               \/ cache'["entitlement"] = [val |-> play[p].ticket, until |-> until, tuple |-> play[p].avail]
        <4>. HIDE DEF until
        <4>. QED BY <3>1, <3>2, <1>3, Put
      <3>4. cache' \in [Kinds -> Entries]
        <4>. HIDE DEF until
        <4>. QED BY <3>1, <3>2, <1>3, PutTyped
      <3>5. cache'["certificate"] = cache["certificate"] /\ cache'["publication"] = cache["publication"]
        BY <3>3 DEF Kinds
      <3>6. CASE cache'["entitlement"] = cache["entitlement"]
        BY <1>1, <3>4, <3>5, <3>6 DEF PlaybackInv, CacheHolds, EntryHolds, rights
      <3>7. CASE cache'["entitlement"] = [val |-> play[p].ticket, until |-> until, tuple |-> play[p].avail]
        <4>1. PICK val \in Tickets : val = play[p].ticket
          BY <3>2
        <4>2. cache'["entitlement"].val = val /\ cache'["entitlement"].until = until
          BY <3>7, <4>1
        <4>3. val \in Playable => EntryHolds("entitlement", "entitlement", GoodCache)'
          <5>1. val \in Playable => until = playTime + GoodCache /\ play[p].since <= lostAt["entitlement"]
            BY <1>2, <2>2, <3>2, <4>1 DEF Shown
          <5>. HIDE DEF until
          <5>. QED BY <1>1, <1>2, <1>4, <4>2, <5>1 DEF EntryHolds
        <4>4. val \notin Playable => cache'["entitlement"].until <= playTime + BadCache
          <5>. HIDE DEF until
          <5>. QED BY <1>4, <3>2, <4>1, <4>2
        <4>5. val \in {"watched", "refunded"} => ticket = val
          BY <1>2, <4>1
        <4>6. val = "none" /\ ticket # "none" => cache'["entitlement"].until <= boughtAt + Latency + BadCache
          <5>1. val = "none" => until = playTime + BadCache
            BY <3>2, <4>1 DEF Playable
          <5>. HIDE DEF until
          <5>. QED BY <1>2, <1>4, <2>2, <4>1, <4>2, <5>1
        <4>7. /\ EntryHolds("certificate", "certificate", CertCache)'
              /\ EntryHolds("certificate", "device", CertCache)'
              /\ EntryHolds("publication", "publication", PubCache)'
              /\ cache'["certificate"].until # 0 => cache'["certificate"].val \in DeviceEnds
              /\ cache'["publication"].until # 0 => cache'["publication"].val \in PlayableAvailability
          BY <1>1, <3>5 DEF PlaybackInv, CacheHolds, EntryHolds, rights
        <4>. HIDE DEF until
        <4>. QED BY <1>1, <3>4, <4>2, <4>3, <4>4, <4>5, <4>6, <4>7 DEF CacheHolds, rights
      <3>. QED BY <3>3, <3>4, <3>6, <3>7
    <2>. QED BY <1>1, <2>1, <2>2 DEF Requests
  <1>6. CASE play[p].ticket \in Playable
    <2>. DEFINE w == [play[p] EXCEPT !.pc = "policy"]
    <2>1. play' = [play EXCEPT ![p] = w] /\ deniedAt' = deniedAt
      BY <1>6 DEF readStatelessPlaybackAuthorization
    <2>2. w \in Requests
      BY <1>1 DEF Requests
    <2>3. /\ w.pc = "policy" /\ w.route = "v2" /\ w.route = play[p].route /\ w.since = play[p].since
          /\ w.ticket = play[p].ticket
      BY <1>1, <1>2 DEF Requests, Cached
    <2>4. RequestHolds(w)
      <3>. HIDE DEF w
      <3>. QED BY <1>2, <1>6, <2>3 DEF RequestHolds, Cached, Lasting
    <2>5. PurchaseTakesHold'
      BY <1>1, <2>1 DEF PlaybackInv, PurchaseTakesHold, rights
    <2>. HIDE DEF w
    <2>. QED BY <1>1, <1>5, <2>1, <2>2, <2>4, <2>5, StoreKeeps
  <1>7. CASE play[p].ticket \notin Playable
    <2>1. play' = [play EXCEPT ![p] = NoPlay] /\ deniedAt' = playTime
      BY <1>7 DEF readStatelessPlaybackAuthorization, refused
    <2>2. PurchaseTakesHold'
      <3>1. SUFFICES ASSUME ticket \in Playable PROVE playTime <= boughtAt + StaleFor(BadCache)
        BY <1>1, <2>1 DEF PurchaseTakesHold, rights
      <3>2. play[p].ticket = "none" /\ ticket # "none"
        BY <1>1, <1>2, <1>7, <3>1 DEF Playable, Requests, Tickets
      <3>3. play[p].since <= boughtAt + Latency + BadCache - 1
        BY <1>2, <3>2
      <3>. QED BY <1>2, <1>4, <3>3 DEF StaleFor
    <2>. QED BY <1>1, <1>5, <2>1, <2>2, NothingAsked, StoreKeeps
  <1>. QED BY <1>6, <1>7

\* What a request that asks the chain itself has just read, the chain shows it.
LEMMA DirectRead ==
    ASSUME PlaybackInv, NEW w \in Requests, w.route \in {"v1", "v3"}, w.since <= playTime,
           w.avail = avail, w.ticket = ticket, w.device = IF w.route = "v1" THEN grant ELSE device
    PROVE  Direct(w)
  <1>1. "publication" \in Rights /\ "entitlement" \in Rights /\ "grant" \in Rights /\ "device" \in Rights
    BY DEF Rights, Kinds
  <1>2. /\ w.avail \in PlayableAvailability => lostAt["publication"] = Never
        /\ w.ticket \in Playable => lostAt["entitlement"] = Never
        /\ w.device # 0 => lostAt[Granted(w)] = Never
    BY DEF PlaybackInv, RightsHeld, PlayableAvailability, Playable, Granted
  <1>. QED BY <1>1, <1>2, HeldShown DEF Direct, Granted

\* The ticket, its publication and its device read at one block.
LEMMA TicketKeeps ==
    ASSUME PlaybackInv, NEW p \in Viewers, getTicket(p)
    PROVE  PlaybackInv'
  <1>. DEFINE w == [play[p] EXCEPT !.pc = "decide", !.ticket = ticket, !.avail = avail, !.device = device]
  <1>1. /\ play[p] \in Requests /\ RequestHolds(play[p]) /\ play[p].pc = "start" /\ play[p].route = "v3"
        /\ avail \in Availabilities /\ ticket \in Tickets /\ device \in DeviceEnds
    BY DEF PlaybackInv, PlaybackTypes, getTicket, at
  <1>2. play' = [play EXCEPT ![p] = w] /\ w \in Requests
    BY <1>1 DEF getTicket, Requests
  <1>3. /\ w.pc = "decide" /\ w.route = "v3" /\ w.route = audience.route /\ w.ticket = ticket /\ w.avail = avail
        /\ w.device = device /\ w.since <= playTime /\ playTime <= w.since + Latency
    BY <1>1 DEF Requests, RequestHolds
  <1>. HIDE DEF w
  <1>4. Direct(w)
    BY <1>2, <1>3, DirectRead
  <1>5. RequestHolds(w)
    BY <1>3, <1>4 DEF RequestHolds
  <1>. QED BY <1>2, <1>5, MoveKeeps DEF getTicket

\* The first play asks for the ticket to be marked watched, a later one goes on.
LEMMA DecideKeeps ==
    ASSUME PlaybackInv, NEW p \in Viewers, decideTicketPlayback(p)
    PROVE  PlaybackInv'
  <1>1. /\ play[p] \in Requests /\ RequestHolds(play[p]) /\ play[p].pc = "decide"
    BY DEF PlaybackInv, PlaybackTypes, decideTicketPlayback, at
  <1>2. CASE play[p].ticket \notin Playable \/ play[p].avail \notin PlayableAvailability \/ play[p].device <= playTime
    BY <1>2, NothingAsked, MoveKeeps DEF decideTicketPlayback, refused
  <1>3. CASE ~(play[p].ticket \notin Playable \/ play[p].avail \notin PlayableAvailability \/ play[p].device <= playTime)
    <2>. DEFINE w == [play[p] EXCEPT !.pc = IF play[p].ticket = "purchased" THEN "watch" ELSE "policy"]
    <2>1. play' = [play EXCEPT ![p] = w] /\ w \in Requests
      BY <1>1, <1>3 DEF decideTicketPlayback, settlesFirst, PlaybackInv, PlaybackTypes, Requests
    <2>2. /\ w.pc = IF play[p].ticket = "purchased" THEN "watch" ELSE "policy"
          /\ w.route = play[p].route /\ w.since = play[p].since /\ w.avail = play[p].avail
          /\ w.ticket = play[p].ticket /\ w.device = play[p].device
      BY <1>1 DEF Requests
    <2>. HIDE DEF w
    <2>3. w.route = "v3" /\ Direct(w) /\ Fits(w)
      BY <1>1, <1>3, <2>2 DEF RequestHolds, Direct, Fits, Shown, Granted
    <2>4. RequestHolds(w)
      BY <1>1, <1>3, <2>2, <2>3 DEF RequestHolds, Playable
    <2>. QED BY <2>1, <2>4, MoveKeeps DEF decideTicketPlayback
  <1>. QED BY <1>2, <1>3

\* The chain marks the ticket watched before the request goes on.
LEMMA WatchKeeps ==
    ASSUME PlaybackInv, NEW p \in Viewers, forwardMarkWatched(p)
    PROVE  PlaybackInv'
  <1>1. /\ play[p] \in Requests /\ RequestHolds(play[p]) /\ play[p].pc = "watch"
    BY DEF PlaybackInv, PlaybackTypes, forwardMarkWatched, at
  <1>2. CASE refused(p) /\ UNCHANGED ticket
    BY <1>2, NothingAsked, MoveKeeps DEF forwardMarkWatched, refused, rights
  <1>3. CASE ticket \in Playable /\ ticket' = "watched" /\ play' = [play EXCEPT ![p].pc = "policy"]
    <2>1. PICK w \in Requests : play' = [play EXCEPT ![p] = w] /\ w = [play[p] EXCEPT !.pc = "policy"]
      <3>1. [play[p] EXCEPT !.pc = "policy"] \in Requests
        BY <1>1 DEF Requests
      <3>2. play' = [play EXCEPT ![p] = [play[p] EXCEPT !.pc = "policy"]]
        BY <1>3 DEF PlaybackInv, PlaybackTypes
      <3>. QED BY <3>1, <3>2
    <2>2. UNCHANGED <<audience, playTime, avail, device, key, grant, lostAt, boughtAt, cache, healthy, nonceUntil,
                      replays, token, deniedAt>>
      BY DEF forwardMarkWatched
    <2>3. /\ w.pc = "policy" /\ w.route = play[p].route /\ w.since = play[p].since /\ w.avail = play[p].avail
          /\ w.ticket = play[p].ticket /\ w.device = play[p].device
      BY <1>1, <2>1 DEF Requests
    <2>4. ticket \notin {"none", "refunded"} /\ ticket' \in Tickets /\ ticket' \notin {"none", "refunded"}
      BY <1>3 DEF Playable, Tickets
    <2>5. w.route = "v3" /\ Direct(w) /\ Fits(w)
      BY <1>1, <2>3 DEF RequestHolds, Direct, Fits, Shown, Granted
    <2>6. ASSUME NEW u \in Requests, RequestHolds(u) PROVE RequestHolds(u)'
      <3>1. u.ticket \in {"watched", "refunded"} => ticket' = u.ticket
        BY <1>3, <2>4, <2>6 DEF RequestHolds
      <3>. QED BY <1>3, <2>2, <2>4, <2>6, <3>1 DEF RequestHolds, Cached, Direct, Granted, Fits, Shown, Lasting
    <2>7. RequestHolds(w)'
      <3>1. w.ticket \in {"watched", "refunded"} => ticket' = w.ticket
        BY <1>1, <1>3, <2>3, <2>4 DEF RequestHolds
      <3>2. w.route = audience.route /\ w.since <= playTime /\ playTime <= w.since + Latency
        BY <1>1, <2>3 DEF RequestHolds
      <3>. QED BY <1>3, <2>2, <2>3, <2>5, <3>1, <3>2 DEF RequestHolds, Cached, Direct, Granted, Fits, Shown, Lasting
    <2>8. \A q \in Viewers' : RequestHolds(play[q])'
      <3>. SUFFICES ASSUME NEW q \in Viewers PROVE RequestHolds(play[q])'
        BY <2>2 DEF Viewers
      <3>1. PICK u : u = play'[q]
        OBVIOUS
      <3>2. RequestHolds(u)'
        <4>1. CASE q = p
          BY <2>1, <2>7, <3>1, <4>1 DEF PlaybackInv, PlaybackTypes
        <4>2. CASE q # p
          <5>1. u \in Requests /\ RequestHolds(u)
            BY <2>1, <3>1, <4>2 DEF PlaybackInv, PlaybackTypes
          <5>. QED BY <5>1, <2>6
        <4>. QED BY <4>1, <4>2
      <3>. QED BY <3>1, <3>2 DEF RequestHolds, Cached, Direct, Granted, Fits, Shown, Lasting
    <2>9. PlaybackTypes'
      BY <2>1, <2>2, <2>4 DEF PlaybackInv, PlaybackTypes, Viewers
    <2>10. RightsHeld' /\ TokenHolds' /\ NonceHolds' /\ PurchaseTakesHold'
      BY <1>3, <2>2, <2>4 DEF PlaybackInv, RightsHeld, TokenHolds, NonceHolds, PurchaseTakesHold, Playable
    <2>11. CacheHolds'
      <3>1. cache["entitlement"].until # 0 /\ cache["entitlement"].val \in {"watched", "refunded"}
              => ticket' = cache["entitlement"].val
        BY <1>3, <2>4 DEF PlaybackInv, CacheHolds
      <3>. QED BY <2>2, <2>4, <3>1 DEF PlaybackInv, CacheHolds, EntryHolds
    <2>. QED BY <2>8, <2>9, <2>10, <2>11 DEF PlaybackInv
  <1>. QED BY <1>2, <1>3 DEF forwardMarkWatched

\* The object parses the signed request again before it looks at its nonce.
LEMMA ParseKeeps ==
    ASSUME PlaybackInv, NEW p \in Viewers, parsePlaybackTokenRequest(p)
    PROVE  PlaybackInv'
  <1>1. /\ play[p] \in Requests /\ RequestHolds(play[p]) /\ play[p].pc = "start" /\ play[p].route = "v1"
    BY DEF PlaybackInv, PlaybackTypes, parsePlaybackTokenRequest, at
  <1>2. CASE playTime >= NonceLife \/ ~healthy
    BY <1>2, NothingAsked, MoveKeeps DEF parsePlaybackTokenRequest, refused
  <1>3. CASE ~(playTime >= NonceLife \/ ~healthy)
    <2>. DEFINE w == [play[p] EXCEPT !.pc = "nonce"]
    <2>1. play' = [play EXCEPT ![p] = w] /\ w \in Requests
      BY <1>1, <1>3 DEF parsePlaybackTokenRequest, PlaybackInv, PlaybackTypes, Requests
    <2>2. RequestHolds(w)
      BY <1>1 DEF Requests, RequestHolds
    <2>. HIDE DEF w
    <2>. QED BY <2>1, <2>2, MoveKeeps DEF parsePlaybackTokenRequest
  <1>. QED BY <1>2, <1>3

\* A nonce that is not kept is stored, and the rights read.
LEMMA NonceKeeps ==
    ASSUME PlaybackInv, NEW p \in Viewers, issuePlaybackToken(p)
    PROVE  PlaybackInv'
  <1>1. /\ play[p] \in Requests /\ RequestHolds(play[p]) /\ play[p].pc = "nonce"
        /\ avail \in Availabilities /\ ticket \in Tickets /\ grant \in DeviceEnds
    BY DEF PlaybackInv, PlaybackTypes, issuePlaybackToken, at
  <1>2. CASE nonceUntil # 0
    BY <1>2, NothingAsked, MoveKeeps DEF issuePlaybackToken, refused
  <1>3. CASE nonceUntil = 0
    <2>. DEFINE w == [play[p] EXCEPT !.pc = "grant", !.ticket = ticket, !.avail = avail, !.device = grant]
    <2>1. /\ play' = [play EXCEPT ![p] = w] /\ w \in Requests
          /\ nonceUntil' = NonceLife
          /\ replays' = IF playTime < NonceLife THEN replays + 1 ELSE replays
          /\ UNCHANGED <<playTime, rights, lostAt, boughtAt, cache, healthy, token, deniedAt>>
      BY <1>1, <1>3 DEF issuePlaybackToken, Requests
    <2>2. /\ w.pc = "grant" /\ w.route = "v1" /\ w.route = audience.route /\ w.ticket = ticket /\ w.avail = avail
          /\ w.device = grant /\ w.since <= playTime /\ playTime <= w.since + Latency
      BY <1>1 DEF Requests, RequestHolds
    <2>. HIDE DEF w
    <2>3. Direct(w)
      BY <2>1, <2>2, DirectRead
    <2>4. RequestHolds(w)
      BY <2>2, <2>3 DEF RequestHolds
    <2>5. /\ play' \in [Viewers -> Requests]
          /\ Viewers' = Viewers
          /\ \A q \in Viewers : RequestHolds(play[q])'
      BY <2>1, <2>4, OneRequest
    <2>6. replays' \in Nat /\ NonceHolds'
      <3>1. replays \in Nat /\ playTime \in Nat /\ NonceLife \in Nat
        BY PlaybackNats, PlaybackConstants DEF PlaybackInv, PlaybackTypes
      <3>. QED BY <1>3, <2>1, <3>1 DEF PlaybackInv, NonceHolds
    <2>7. PlaybackTypes'
      BY <2>1, <2>5, <2>6 DEF PlaybackInv, PlaybackTypes, rights
    <2>8. RightsHeld' /\ CacheHolds' /\ TokenHolds' /\ PurchaseTakesHold'
      BY <2>1 DEF PlaybackInv, RightsHeld, CacheHolds, EntryHolds, TokenHolds, PurchaseTakesHold, rights
    <2>. QED BY <2>5, <2>6, <2>7, <2>8 DEF PlaybackInv
  <1>. QED BY <1>2, <1>3

\* A nonce is forgotten when the request it belongs to has expired.
LEMMA PurgeKeeps ==
    ASSUME PlaybackInv, purgeExpiredControlNonces
    PROVE  PlaybackInv'
  <1>1. UNCHANGED <<playTime, rights, lostAt, boughtAt, cache, play, replays, token, deniedAt>>
    BY DEF purgeExpiredControlNonces
  <1>2. nonceUntil' = 0 /\ ~(playTime < NonceLife)
    BY PlaybackNats, PlaybackConstants DEF purgeExpiredControlNonces, PlaybackInv, PlaybackTypes
  <1>3. PlaybackTypes'
    BY <1>1, <1>2 DEF PlaybackInv, PlaybackTypes, rights, Viewers
  <1>4. RightsHeld' /\ CacheHolds' /\ TokenHolds' /\ PurchaseTakesHold' /\ NonceHolds'
    BY <1>1, <1>2 DEF PlaybackInv, RightsHeld, CacheHolds, EntryHolds, TokenHolds, PurchaseTakesHold, NonceHolds, rights
  <1>5. \A q \in Viewers' : RequestHolds(play[q])'
    BY <1>1 DEF PlaybackInv, Viewers, rights, RequestHolds, Cached, Direct, Granted, Fits, Shown, Lasting
  <1>. QED BY <1>3, <1>4, <1>5 DEF PlaybackInv

\* The grant, the ticket and the publication that were read decide.
LEMMA GrantKeeps ==
    ASSUME PlaybackInv, NEW p \in Viewers, readPlaybackAuthorization(p)
    PROVE  PlaybackInv'
  <1>1. /\ play[p] \in Requests /\ RequestHolds(play[p]) /\ play[p].pc = "grant"
    BY DEF PlaybackInv, PlaybackTypes, readPlaybackAuthorization, at
  <1>2. CASE play[p].ticket \notin Playable \/ play[p].avail \notin PlayableAvailability \/ play[p].device <= playTime
    BY <1>2, NothingAsked, MoveKeeps DEF readPlaybackAuthorization, refused
  <1>3. CASE ~(play[p].ticket \notin Playable \/ play[p].avail \notin PlayableAvailability \/ play[p].device <= playTime)
    <2>. DEFINE w == [play[p] EXCEPT !.pc = "policy"]
    <2>1. play' = [play EXCEPT ![p] = w] /\ w \in Requests
      BY <1>1, <1>3 DEF readPlaybackAuthorization, PlaybackInv, PlaybackTypes, Requests
    <2>2. /\ w.pc = "policy"
          /\ w.route = play[p].route /\ w.since = play[p].since /\ w.avail = play[p].avail
          /\ w.ticket = play[p].ticket /\ w.device = play[p].device
      BY <1>1 DEF Requests
    <2>. HIDE DEF w
    <2>3. w.route = "v1" /\ Direct(w) /\ Fits(w)
      BY <1>1, <1>3, <2>2 DEF RequestHolds, Direct, Fits, Shown, Granted
    <2>4. RequestHolds(w)
      BY <1>1, <1>3, <2>2, <2>3 DEF RequestHolds, Playable
    <2>. QED BY <2>1, <2>4, MoveKeeps DEF readPlaybackAuthorization
  <1>. QED BY <1>2, <1>3

\* A token is signed on what the request has read, and lasts no longer than its life.
LEMMA PolicyKeeps ==
    ASSUME PlaybackInv, NEW p \in Viewers, verifyStatelessProviderPolicy(p)
    PROVE  PlaybackInv'
  <1>1. /\ play[p] \in Requests /\ RequestHolds(play[p]) /\ play[p].pc = "policy"
        /\ play' = [play EXCEPT ![p] = NoPlay]
        /\ UNCHANGED <<playTime, rights, lostAt, boughtAt, cache, nonceUntil, replays, deniedAt>>
    BY DEF PlaybackInv, PlaybackTypes, verifyStatelessProviderPolicy, at, signPlayback, refused
  <1>2. CASE UNCHANGED token
    BY <1>1, <1>2, NothingAsked, MoveKeeps
  <1>3. CASE token' # token
    <2>1. PICK m : m = Min({TTL, play[p].device - playTime})
      OBVIOUS
    <2>2. /\ token' = [route |-> play[p].route, at |-> playTime, until |-> playTime + m]
          /\ ~(play[p].device - playTime < 1)
      BY <1>3, <2>1 DEF verifyStatelessProviderPolicy, signPlayback
    <2>3. playTime \in Nat /\ play[p].device \in Nat /\ play[p].since \in Nat /\ Latency \in Nat \ {0} /\ TTL \in Nat
      BY <1>1, PlaybackNats, PlaybackConstants DEF Requests, DeviceEnds
    <2>4. m \in Nat /\ m <= TTL
      <3>1. {TTL, play[p].device - playTime} \subseteq Nat
        BY <2>2, <2>3
      <3>. QED BY <2>1, <3>1, MinOfNat
    <2>5. /\ play' \in [Viewers -> Requests]
          /\ Viewers' = Viewers
          /\ \A q \in Viewers : RequestHolds(play[q])'
      BY <1>1, NothingAsked, OneRequest
    <2>6. /\ token'.route = play[p].route /\ token'.at = playTime /\ token'.until = playTime + m
          /\ playTime + m \in Nat
      BY <2>2, <2>3, <2>4
    <2>7. /\ play[p].route = audience.route /\ playTime <= play[p].since + Latency
          /\ audience \in Audiences
      BY <1>1 DEF RequestHolds, PlaybackInv, PlaybackTypes
    <2>8. PlaybackTypes'
      <3>1. token' \in [route : {audience.route}, at : 0 .. MaxPlayTime, until : Nat]
        BY <2>2, <2>6, <2>7 DEF PlaybackInv, PlaybackTypes
      <3>. QED BY <1>1, <2>5, <3>1 DEF PlaybackInv, PlaybackTypes, rights
    <2>9. ASSUME NEW kind \in Checks(play[p].route)
          PROVE  token'.until <= lostAt[kind] + Believed(play[p].route, kind) + TTL
      <3>1. kind \in Rights /\ lostAt[kind] \in Nat
        BY PlaybackNats DEF Checks, Rights, Kinds
      <3>2. play[p].route \in {"v1", "v2", "v3"}
        BY <2>7, PlaybackConstants
      <3>3. CASE play[p].route # "v2"
        <4>1. Shown(play[p], kind)
          <5>1. Direct(play[p]) /\ Fits(play[p]) /\ play[p].device # 0
            BY <1>1, <2>2, <2>3, <3>3 DEF RequestHolds
          <5>. QED BY <3>2, <3>3, <5>1 DEF Direct, Fits, Checks, Granted
        <4>2. Believed(play[p].route, kind) = Latency
          BY <3>3 DEF Believed
        <4>. QED BY <2>3, <2>4, <2>6, <2>7, <3>1, <4>1, <4>2 DEF Shown
      <3>4. CASE play[p].route = "v2"
        <4>1. PICK good \in Nat : Lasting(play[p], kind, good) /\ Believed(play[p].route, kind) = StaleFor(good)
          <5>1. /\ Lasting(play[p], "certificate", CertCache) /\ Lasting(play[p], "device", CertCache)
                /\ Lasting(play[p], "publication", PubCache) /\ Lasting(play[p], "entitlement", GoodCache)
            BY <1>1, <3>4 DEF RequestHolds, Cached
          <5>2. kind \in {"certificate", "device", "publication", "entitlement"}
            BY <3>4 DEF Checks
          <5>. QED BY <3>4, <5>1, <5>2, PlaybackConstants DEF Believed
        <4>. QED BY <2>3, <2>4, <2>6, <2>7, <3>1, <4>1 DEF Lasting, StaleFor
      <3>. QED BY <3>3, <3>4
    <2>10. TokenHolds'
      <3>1. play[p].route = "v3" => ticket' = "watched"
        BY <1>1 DEF RequestHolds, rights
      <3>2. \A kind \in Checks(token'.route) :
               token'.until <= lostAt'[kind] + Believed(token'.route, kind) + TTL
        BY <1>1, <2>6, <2>9
      <3>. QED BY <1>1, <2>3, <2>4, <2>6, <3>1, <3>2 DEF TokenHolds
    <2>11. RightsHeld' /\ CacheHolds' /\ NonceHolds' /\ PurchaseTakesHold'
      BY <1>1 DEF PlaybackInv, RightsHeld, CacheHolds, EntryHolds, NonceHolds, PurchaseTakesHold, rights
    <2>. QED BY <2>5, <2>8, <2>10, <2>11 DEF PlaybackInv
  <1>. QED BY <1>2, <1>3

\* The chain moves while the bridge stands still: rights are lost now or not at all, and the
\* ticket is bought now, refunded now or left alone.
ChainStep ==
    /\ UNCHANGED <<audience, playTime, cache, play, nonceUntil, replays, token, deniedAt>>
    /\ avail' \in Availabilities /\ ticket' \in Tickets /\ key' \in BOOLEAN
    /\ device' \in DeviceEnds /\ grant' \in DeviceEnds
    /\ lostAt' \in [Rights -> 0 .. Never]
    /\ \A right \in Rights : lostAt'[right] = lostAt[right] \/ lostAt'[right] = playTime
    /\ \/ ticket' = ticket /\ boughtAt' = boughtAt
       \/ ticket = "none" /\ ticket' = "purchased" /\ boughtAt' = playTime
       \/ ticket = "purchased" /\ ticket' = "refunded" /\ boughtAt' = boughtAt

\* No move of the chain takes back what a request under way or an entry may rely on.
LEMMA ChainKeeps ==
    ASSUME PlaybackInv, ChainStep, RightsHeld'
    PROVE  PlaybackInv'
  <1>1. PlaybackTypes'
    <2>1. boughtAt' \in 0 .. MaxPlayTime
      BY DEF PlaybackInv, PlaybackTypes, ChainStep
    <2>. QED BY <2>1 DEF PlaybackInv, PlaybackTypes, ChainStep, Viewers
  <1>2. /\ playTime \in Nat /\ Latency \in Nat \ {0} /\ boughtAt \in Nat /\ boughtAt' \in Nat
        /\ CertCache \in Nat /\ PubCache \in Nat /\ GoodCache \in Nat /\ BadCache \in Nat /\ TTL \in Nat
        /\ \A right \in Rights : lostAt[right] \in Nat /\ lostAt'[right] \in Nat
        /\ boughtAt <= playTime
    <2>1. boughtAt' = boughtAt \/ boughtAt' = playTime
      BY DEF ChainStep
    <2>2. \A right \in Rights : lostAt'[right] \in Nat
      BY PlaybackNats DEF ChainStep
    <2>. QED BY <2>1, <2>2, PlaybackNats, PlaybackConstants DEF PlaybackInv, RightsHeld
  <1>3. \A right \in Rights : lostAt'[right] = lostAt[right] \/ lostAt'[right] = playTime
    BY DEF ChainStep
  <1>4. ASSUME NEW u \in Requests, RequestHolds(u) PROVE RequestHolds(u)'
    <2>1. CASE u.pc = "idle"
      BY <1>4, <2>1 DEF RequestHolds, ChainStep
    <2>2. CASE u.pc # "idle"
      <3>1. u.since \in Nat /\ u.since <= playTime /\ u.route = audience.route /\ playTime <= u.since + Latency
        BY <1>4, <2>2, PlaybackNats DEF RequestHolds
      <3>2. ASSUME NEW right \in Rights PROVE Shown(u, right) => Shown(u, right)'
        BY <1>2, <1>3, <3>1 DEF Shown
      <3>3. ASSUME NEW right \in Rights, NEW good \in Nat PROVE Lasting(u, right, good) => Lasting(u, right, good)'
        BY <1>2, <1>3, <3>1 DEF Lasting
      <3>4. u.ticket \in {"watched", "refunded"} => ticket' = u.ticket
        BY <1>4 DEF RequestHolds, ChainStep, Tickets
      <3>5. /\ "publication" \in Rights /\ "entitlement" \in Rights /\ "certificate" \in Rights
            /\ "device" \in Rights /\ "grant" \in Rights
        BY DEF Rights, Kinds
      <3>6. Direct(u) => Direct(u)'
        BY <3>2, <3>5 DEF Direct, Granted
      <3>7. Cached(u) => Cached(u)'
        BY <1>2, <3>3, <3>5 DEF Cached
      <3>8. u.ticket = "none" /\ ticket' # "none" =>
              /\ ticket # "none" /\ u.since <= boughtAt => u.since <= boughtAt'
              /\ ticket = "none" => u.since <= boughtAt' /\ u.since <= boughtAt' + Latency + BadCache - 1
              /\ ticket # "none" /\ u.since <= boughtAt + Latency + BadCache - 1
                   => u.since <= boughtAt' + Latency + BadCache - 1
        BY <1>2, <3>1 DEF ChainStep
      <3>9. u.pc = "policy" /\ u.route = "v3" => ticket' = "watched"
        BY <1>4 DEF RequestHolds, ChainStep
      <3>10. /\ u.pc \in {"decide", "grant"} => Direct(u)'
             /\ u.pc = "watch" => u.route = "v3" /\ Direct(u)' /\ Fits(u)
             /\ u.pc = "decide" => u.route = "v3"
             /\ u.pc = "grant" => u.route = "v1"
             /\ u.pc = "nonce" => u.route = "v1"
        BY <1>4, <3>6 DEF RequestHolds
      <3>11. /\ u.pc = "cert" => /\ u.route = "v2"
                                 /\ u.key => Shown(u, "certificate")'
                                 /\ u.device # 0 => Shown(u, "device")'
             /\ u.pc = "pub" => Cached(u)'
             /\ u.pc = "policy" =>
                  /\ u.route = "v2" => /\ Cached(u)'
                                       /\ Lasting(u, "publication", PubCache)'
                                       /\ Lasting(u, "entitlement", GoodCache)'
                  /\ u.route # "v2" => Direct(u)' /\ Fits(u)
        BY <1>2, <1>4, <3>2, <3>3, <3>5, <3>6, <3>7 DEF RequestHolds
      <3>12. u.pc = "checked" =>
               /\ Cached(u)'
               /\ u.avail \in PlayableAvailability => Lasting(u, "publication", PubCache)'
               /\ u.fresh =>
                    /\ u.avail \in PlayableAvailability => Shown(u, "publication")'
                    /\ u.ticket \in Playable => Shown(u, "entitlement")'
                    /\ u.ticket = "none" /\ ticket' # "none" => u.since <= boughtAt'
        BY <1>2, <1>4, <3>2, <3>3, <3>5, <3>7, <3>8 DEF RequestHolds
      <3>13. u.pc = "entitled" =>
               /\ Cached(u)'
               /\ u.avail \in PlayableAvailability
               /\ Lasting(u, "publication", PubCache)'
               /\ u.ticket \in Playable => Lasting(u, "entitlement", GoodCache)'
               /\ u.ticket = "none" /\ ticket' # "none" => u.since <= boughtAt' + Latency + BadCache - 1
               /\ u.fresh =>
                    /\ u.ticket \in Playable => Shown(u, "entitlement")'
                    /\ u.ticket = "none" /\ ticket' # "none" => u.since <= boughtAt'
        BY <1>2, <1>4, <3>2, <3>3, <3>5, <3>7, <3>8 DEF RequestHolds
      <3>14. audience' = audience /\ playTime' = playTime
        BY DEF ChainStep
      <3>. QED BY <3>1, <3>4, <3>9, <3>10, <3>11, <3>12, <3>13, <3>14 DEF RequestHolds, Fits
    <2>. QED BY <2>1, <2>2
  <1>5. \A q \in Viewers' : RequestHolds(play[q])'
    <2>. SUFFICES ASSUME NEW q \in Viewers PROVE RequestHolds(play[q])'
      BY DEF Viewers, ChainStep
    <2>1. PICK u : u = play'[q]
      OBVIOUS
    <2>2. u \in Requests /\ RequestHolds(u)
      BY <2>1 DEF PlaybackInv, PlaybackTypes, ChainStep
    <2>3. RequestHolds(u)'
      BY <2>2, <1>4
    <2>. QED BY <2>1, <2>3 DEF RequestHolds, Cached, Direct, Granted, Fits, Shown, Lasting
  <1>6. CacheHolds'
    <2>1. ASSUME NEW kind \in Kinds, NEW right \in Rights, NEW good \in Nat, EntryHolds(kind, right, good)
          PROVE  EntryHolds(kind, right, good)'
      <3>1. cache[kind].until \in Nat
        BY PlaybackNats
      <3>. QED BY <1>2, <1>3, <2>1, <3>1 DEF EntryHolds, ChainStep
    <2>2. /\ "publication" \in Rights /\ "entitlement" \in Rights /\ "certificate" \in Rights /\ "device" \in Rights
          /\ "publication" \in Kinds /\ "entitlement" \in Kinds /\ "certificate" \in Kinds
      BY DEF Rights, Kinds
    <2>3. /\ EntryHolds("certificate", "certificate", CertCache)'
          /\ EntryHolds("certificate", "device", CertCache)'
          /\ EntryHolds("publication", "publication", PubCache)'
      BY <1>2, <2>1, <2>2 DEF PlaybackInv, CacheHolds
    <2>4. ASSUME cache["entitlement"].until # 0
          PROVE  LET val == cache["entitlement"].val
                 IN /\ val \in Tickets
                    /\ val \in Playable => EntryHolds("entitlement", "entitlement", GoodCache)'
                    /\ val \notin Playable => cache["entitlement"].until <= playTime + BadCache
                    /\ val \in {"watched", "refunded"} => ticket' = val
                    /\ val = "none" /\ ticket' # "none" => cache["entitlement"].until <= boughtAt' + Latency + BadCache
      <3>1. PICK val : val = cache["entitlement"].val
        OBVIOUS
      <3>2. /\ val \in Tickets
            /\ val \in Playable => EntryHolds("entitlement", "entitlement", GoodCache)
            /\ val \notin Playable => cache["entitlement"].until <= playTime + BadCache
            /\ val \in {"watched", "refunded"} => ticket = val
            /\ val = "none" /\ ticket # "none" => cache["entitlement"].until <= boughtAt + Latency + BadCache
        BY <2>4, <3>1 DEF PlaybackInv, CacheHolds
      <3>3. val \in Playable => EntryHolds("entitlement", "entitlement", GoodCache)'
        BY <1>2, <2>1, <2>2, <3>2
      <3>4. val \in {"watched", "refunded"} => ticket' = val
        BY <3>2 DEF ChainStep
      <3>5. val = "none" /\ ticket' # "none" => cache["entitlement"].until <= boughtAt' + Latency + BadCache
        <4>1. cache["entitlement"].until \in Nat
          BY <2>2, PlaybackNats
        <4>2. CASE ticket = "none"
          BY <1>2, <3>2, <4>1, <4>2 DEF ChainStep, Playable
        <4>3. CASE ticket # "none"
          BY <1>2, <3>2, <4>1, <4>3 DEF ChainStep
        <4>. QED BY <4>2, <4>3
      <3>. QED BY <3>1, <3>2, <3>3, <3>4, <3>5
    <2>5. cache' = cache /\ playTime' = playTime
      BY DEF ChainStep
    <2>6. /\ cache["certificate"].until # 0 => cache["certificate"].val \in DeviceEnds
          /\ cache["publication"].until # 0 => cache["publication"].val \in PlayableAvailability
      BY DEF PlaybackInv, CacheHolds
    <2>. QED BY <2>3, <2>4, <2>5, <2>6 DEF CacheHolds
  <1>7. TokenHolds'
    <2>. SUFFICES ASSUME token # NoToken PROVE TokenHolds'
      BY DEF TokenHolds, ChainStep
    <2>1. /\ token.at <= playTime /\ token.until <= token.at + TTL
          /\ \A kind \in Checks(token.route) : token.until <= lostAt[kind] + Believed(token.route, kind) + TTL
          /\ token.route = "v3" => ticket = "watched"
          /\ token.at \in Nat /\ token.until \in Nat
      BY DEF PlaybackInv, TokenHolds, PlaybackTypes
    <2>2. ASSUME NEW kind \in Checks(token.route)
          PROVE  token.until <= lostAt'[kind] + Believed(token.route, kind) + TTL
      <3>1. kind \in Rights
        BY DEF Checks, Rights, Kinds
      <3>2. Believed(token.route, kind) \in Nat
        BY <1>2 DEF Believed, StaleFor
      <3>. QED BY <1>2, <1>3, <2>1, <3>1, <3>2
    <2>3. token.route = "v3" => ticket' = "watched"
      BY <2>1 DEF ChainStep
    <2>. QED BY <2>1, <2>2, <2>3 DEF TokenHolds, ChainStep, Checks, Believed, StaleFor
  <1>8. PurchaseTakesHold'
    <2>1. deniedAt \in Nat /\ deniedAt <= playTime /\ deniedAt' = deniedAt
      BY PlaybackNats DEF PlaybackInv, RightsHeld, ChainStep
    <2>2. CASE boughtAt' = playTime
      BY <1>2, <2>1, <2>2 DEF PurchaseTakesHold, StaleFor
    <2>3. CASE boughtAt' = boughtAt /\ (ticket' \in Playable => ticket \in Playable)
      BY <1>2, <2>1, <2>3 DEF PlaybackInv, PurchaseTakesHold
    <2>. QED BY <2>2, <2>3 DEF ChainStep, Playable
  <1>9. NonceHolds'
    BY DEF PlaybackInv, NonceHolds, ChainStep
  <1>. QED BY <1>1, <1>5, <1>6, <1>7, <1>8, <1>9 DEF PlaybackInv

\* A right is lost at the time it is lost.
LEMMA Lost ==
    ASSUME PlaybackInv, NEW kind \in Rights, lostAt' = [lostAt EXCEPT ![kind] = playTime]
    PROVE  /\ lostAt' \in [Rights -> 0 .. Never]
           /\ \A right \in Rights : right # kind => lostAt'[right] = lostAt[right]
           /\ \A right \in Rights : lostAt'[right] = lostAt[right] \/ lostAt'[right] = playTime
  <1>1. playTime \in 0 .. Never
    BY PlaybackConstants DEF PlaybackInv, PlaybackTypes, Never
  <1>. QED BY <1>1 DEF PlaybackInv, PlaybackTypes

\* Buying, refunding, suspending, taking down and removing a key or a grant.
LEMMA ChainMovesKeep ==
    ASSUME PlaybackInv, ChainMoves
    PROVE  PlaybackInv'
  <1>1. /\ UNCHANGED <<audience, playTime, device, cache, play, healthy, nonceUntil, replays, token, deniedAt>>
        /\ avail \in Availabilities /\ ticket \in Tickets /\ key \in BOOLEAN
        /\ device \in DeviceEnds /\ grant \in DeviceEnds /\ 0 \in DeviceEnds
        /\ lostAt \in [Rights -> 0 .. Never]
    BY PlaybackConstants DEF ChainMoves, PlaybackInv, PlaybackTypes, DeviceEnds
  <1>2. /\ "publication" \in Rights /\ "entitlement" \in Rights /\ "certificate" \in Rights
        /\ "device" \in Rights /\ "grant" \in Rights
    BY DEF Rights, Kinds
  <1>3. CASE /\ ticket = "none" /\ ticket' = "purchased" /\ boughtAt' = playTime
             /\ UNCHANGED <<avail, key, grant, lostAt>>
    <2>1. ChainStep
      BY <1>1, <1>3 DEF ChainStep, Tickets
    <2>2. playTime <= playTime
      BY PlaybackNats
    <2>3. RightsHeld'
      BY <1>1, <1>3, <2>2 DEF RightsHeld, PlaybackInv
    <2>. QED BY <2>1, <2>3, ChainKeeps
  <1>4. CASE /\ ticket = "purchased" /\ ticket' = "refunded" /\ loses("entitlement")
             /\ UNCHANGED <<avail, key, grant, boughtAt>>
    <2>1. ChainStep
      BY <1>1, <1>2, <1>4, Lost DEF ChainStep, Tickets, loses
    <2>2. RightsHeld'
      BY <1>1, <1>2, <1>4, Lost DEF RightsHeld, PlaybackInv, loses
    <2>. QED BY <2>1, <2>2, ChainKeeps
  <1>5. CASE avail = "ACTIVE" /\ avail' = "SALES_SUSPENDED" /\ UNCHANGED <<ticket, key, grant, lostAt, boughtAt>>
    <2>1. ChainStep
      BY <1>1, <1>5 DEF ChainStep, Availabilities
    <2>2. RightsHeld'
      BY <1>1, <1>5 DEF RightsHeld, PlaybackInv
    <2>. QED BY <2>1, <2>2, ChainKeeps
  <1>6. CASE /\ avail # "TAKEDOWN" /\ avail' = "TAKEDOWN" /\ loses("publication")
             /\ UNCHANGED <<ticket, key, grant, boughtAt>>
    <2>1. ChainStep
      BY <1>1, <1>2, <1>6, Lost DEF ChainStep, Availabilities, loses
    <2>2. RightsHeld'
      BY <1>1, <1>2, <1>6, Lost DEF RightsHeld, PlaybackInv, loses
    <2>. QED BY <2>1, <2>2, ChainKeeps
  <1>7. CASE key /\ key' = FALSE /\ loses("certificate") /\ UNCHANGED <<avail, ticket, grant, boughtAt>>
    <2>1. ChainStep
      BY <1>1, <1>2, <1>7, Lost DEF ChainStep, loses
    <2>2. RightsHeld'
      BY <1>1, <1>2, <1>7, Lost DEF RightsHeld, PlaybackInv, loses
    <2>. QED BY <2>1, <2>2, ChainKeeps
  <1>8. CASE grant # 0 /\ grant' = 0 /\ loses("grant") /\ UNCHANGED <<avail, ticket, key, boughtAt>>
    <2>1. ChainStep
      BY <1>1, <1>2, <1>8, Lost DEF ChainStep, loses
    <2>2. RightsHeld'
      BY <1>1, <1>2, <1>8, Lost DEF RightsHeld, PlaybackInv, loses
    <2>. QED BY <2>1, <2>2, ChainKeeps
  <1>. QED BY <1>3, <1>4, <1>5, <1>6, <1>7, <1>8 DEF ChainMoves

\* The list of the ticket drops the device.
LEMMA DeviceKeeps ==
    ASSUME PlaybackInv, DeviceReplaced
    PROVE  PlaybackInv'
  <1>1. /\ UNCHANGED <<audience, playTime, avail, ticket, key, grant, boughtAt, cache, play, nonceUntil,
                       replays, token, deniedAt>>
        /\ device' = 0 /\ lostAt' = [lostAt EXCEPT !["device"] = playTime]
    BY DEF DeviceReplaced, loses
  <1>2. /\ avail \in Availabilities /\ ticket \in Tickets /\ key \in BOOLEAN
        /\ grant \in DeviceEnds /\ 0 \in DeviceEnds
    BY PlaybackConstants DEF PlaybackInv, PlaybackTypes, DeviceEnds
  <1>3. /\ "publication" \in Rights /\ "entitlement" \in Rights /\ "certificate" \in Rights
        /\ "device" \in Rights /\ "grant" \in Rights
    BY DEF Rights, Kinds
  <1>4. ChainStep
    BY <1>1, <1>2, <1>3, Lost DEF ChainStep
  <1>5. RightsHeld'
    BY <1>1, <1>2, <1>3, Lost DEF RightsHeld, PlaybackInv
  <1>. QED BY <1>4, <1>5, ChainKeeps

\* The health of the asset is looked at by /v1 only, and changes nothing else.
LEMMA HealthKeeps ==
    ASSUME PlaybackInv, HealthChanges
    PROVE  PlaybackInv'
  <1>1. ChainStep /\ RightsHeld'
    BY DEF HealthChanges, rights, ChainStep, PlaybackInv, PlaybackTypes, RightsHeld
  <1>. QED BY <1>1, ChainKeeps

\* Entries that are dropped make a cache no less true.
LEMMA Shorter ==
    ASSUME PlaybackInv, \A k \in Kinds : cache'[k] = cache[k] \/ cache'[k].until = 0,
           UNCHANGED <<rights, lostAt, boughtAt>>, playTime' \in Nat, playTime <= playTime'
    PROVE  CacheHolds'
  <1>1. /\ playTime \in Nat /\ Latency \in Nat /\ boughtAt \in Nat /\ BadCache \in Nat
        /\ CertCache \in Nat /\ PubCache \in Nat /\ GoodCache \in Nat
    BY PlaybackNats, PlaybackConstants
  <1>2. /\ "publication" \in Rights /\ "entitlement" \in Rights /\ "certificate" \in Rights /\ "device" \in Rights
        /\ "publication" \in Kinds /\ "entitlement" \in Kinds /\ "certificate" \in Kinds
    BY DEF Rights, Kinds
  <1>3. ASSUME NEW kind \in Kinds, NEW right \in Rights, NEW good \in Nat,
               cache'[kind] = cache[kind] => EntryHolds(kind, right, good)
        PROVE  EntryHolds(kind, right, good)'
    <2>1. cache[kind].until \in Nat /\ lostAt[right] \in Nat /\ lostAt'[right] = lostAt[right]
      BY PlaybackNats
    <2>. QED BY <1>1, <1>3, <2>1 DEF EntryHolds
  <1>4. /\ EntryHolds("certificate", "certificate", CertCache)'
        /\ EntryHolds("certificate", "device", CertCache)'
        /\ EntryHolds("publication", "publication", PubCache)'
    BY <1>1, <1>2, <1>3 DEF PlaybackInv, CacheHolds
  <1>5. /\ cache'["certificate"].until # 0 => cache'["certificate"].val \in DeviceEnds
        /\ cache'["publication"].until # 0 => cache'["publication"].val \in PlayableAvailability
    BY <1>2 DEF PlaybackInv, CacheHolds
  <1>6. ASSUME cache'["entitlement"].until # 0
        PROVE  LET val == cache'["entitlement"].val
               IN /\ val \in Tickets
                  /\ val \in Playable => EntryHolds("entitlement", "entitlement", GoodCache)'
                  /\ val \notin Playable => cache'["entitlement"].until <= playTime' + BadCache
                  /\ val \in {"watched", "refunded"} => ticket' = val
                  /\ val = "none" /\ ticket' # "none" => cache'["entitlement"].until <= boughtAt' + Latency + BadCache
    <2>1. cache'["entitlement"] = cache["entitlement"] /\ cache["entitlement"].until \in Nat
      BY <1>2, <1>6, PlaybackNats
    <2>2. PICK val : val = cache["entitlement"].val
      OBVIOUS
    <2>3. /\ val \in Tickets
          /\ val \in Playable => EntryHolds("entitlement", "entitlement", GoodCache)
          /\ val \notin Playable => cache["entitlement"].until <= playTime + BadCache
          /\ val \in {"watched", "refunded"} => ticket = val
          /\ val = "none" /\ ticket # "none" => cache["entitlement"].until <= boughtAt + Latency + BadCache
      BY <1>6, <2>1, <2>2 DEF PlaybackInv, CacheHolds
    <2>4. val \in Playable => EntryHolds("entitlement", "entitlement", GoodCache)'
      BY <1>1, <1>2, <1>3, <2>3
    <2>5. val \notin Playable => cache'["entitlement"].until <= playTime' + BadCache
      BY <1>1, <2>1, <2>3
    <2>. QED BY <2>1, <2>2, <2>3, <2>4, <2>5 DEF rights
  <1>. QED BY <1>4, <1>5, <1>6 DEF CacheHolds

\* An entry is dropped: nothing is believed for longer.
LEMMA EvictKeeps ==
    ASSUME PlaybackInv, NEW kind \in Kinds, Evict(kind)
    PROVE  PlaybackInv'
  <1>1. /\ UNCHANGED <<playTime, rights, lostAt, boughtAt, play, nonceUntil, replays, token, deniedAt>>
        /\ cache' = [cache EXCEPT ![kind] = Miss]
    BY DEF Evict
  <1>2. PlaybackTypes'
    <2>1. Miss \in Entries
      BY DEF Miss, Entries, Tickets
    <2>. QED BY <1>1, <2>1 DEF PlaybackInv, PlaybackTypes, rights, Viewers
  <1>3. CacheHolds'
    <2>1. \A k \in Kinds : cache'[k] = cache[k] \/ cache'[k].until = 0
      BY <1>1 DEF PlaybackInv, PlaybackTypes, Miss
    <2>2. playTime' \in Nat /\ playTime <= playTime'
      BY <1>1, PlaybackNats
    <2>. QED BY <1>1, <2>1, <2>2, Shorter
  <1>4. RightsHeld' /\ TokenHolds' /\ PurchaseTakesHold' /\ NonceHolds'
    BY <1>1 DEF PlaybackInv, RightsHeld, TokenHolds, PurchaseTakesHold, NonceHolds, rights
  <1>5. \A q \in Viewers' : RequestHolds(play[q])'
    BY <1>1 DEF PlaybackInv, Viewers, rights, RequestHolds, Cached, Direct, Granted, Fits, Shown, Lasting
  <1>. QED BY <1>2, <1>3, <1>4, <1>5 DEF PlaybackInv

\* Time passes while no request is at its limit; entries whose time is over are dropped.
LEMMA PlayTickKeeps ==
    ASSUME PlaybackInv, PlayTick
    PROVE  PlaybackInv'
  <1>1. /\ UNCHANGED <<rights, lostAt, boughtAt, play, nonceUntil, replays, token, deniedAt>>
        /\ playTime' = playTime + 1 /\ playTime < MaxPlayTime
        /\ \A p \in Viewers : ~at(p, "idle") => playTime - play[p].since < Latency
        /\ cache' = [k \in Kinds |-> IF cache[k].until <= playTime' THEN Miss ELSE cache[k]]
    BY DEF PlayTick
  <1>2. /\ playTime \in Nat /\ playTime' \in 0 .. MaxPlayTime /\ Latency \in Nat /\ boughtAt \in Nat /\ deniedAt \in Nat
        /\ playTime <= playTime'
    BY <1>1, PlaybackNats, PlaybackConstants
  <1>3. PlaybackTypes'
    <2>1. Miss \in Entries
      BY DEF Miss, Entries, Tickets
    <2>. QED BY <1>1, <1>2, <2>1 DEF PlaybackInv, PlaybackTypes, rights, Viewers
  <1>4. CacheHolds'
    <2>1. \A k \in Kinds : cache'[k] = cache[k] \/ cache'[k].until = 0
      BY <1>1 DEF Miss
    <2>. QED BY <1>1, <1>2, <2>1, Shorter DEF PlaybackInv
  <1>5. RightsHeld' /\ PurchaseTakesHold'
    BY <1>1, <1>2 DEF PlaybackInv, RightsHeld, PurchaseTakesHold, rights
  <1>6. TokenHolds'
    <2>1. token # NoToken => token.at \in Nat
      BY DEF PlaybackInv, PlaybackTypes
    <2>. QED BY <1>1, <1>2, <2>1 DEF PlaybackInv, TokenHolds, rights
  <1>7. NonceHolds'
    BY <1>1, <1>2, PlaybackConstants DEF PlaybackInv, NonceHolds
  <1>8. \A q \in Viewers' : RequestHolds(play[q])'
    <2>. SUFFICES ASSUME NEW q \in Viewers PROVE RequestHolds(play[q])'
      BY <1>1 DEF Viewers, rights
    <2>1. PICK u \in Requests : u = play[q]
      BY DEF PlaybackInv, PlaybackTypes
    <2>2. u.pc # "idle" => u.since <= playTime' /\ playTime' <= u.since + Latency
      BY <1>1, <1>2, <2>1, PlaybackNats DEF PlaybackInv, RequestHolds, at
    <2>3. RequestHolds(u)
      BY <2>1 DEF PlaybackInv
    <2>4. RequestHolds(u)'
      BY <1>1, <2>2, <2>3 DEF RequestHolds, Cached, Direct, Granted, Fits, Shown, Lasting, rights
    <2>5. u = play'[q]
      BY <1>1, <2>1
    <2>. QED BY <2>4, <2>5 DEF RequestHolds, Cached, Direct, Granted, Fits, Shown, Lasting
  <1>. QED BY <1>3, <1>4, <1>5, <1>6, <1>7, <1>8 DEF PlaybackInv

\* A step of playback, or of nothing that playback remembers.
LEMMA NextPlayback == PlaybackInv /\ [PlaybackNext]_playVars => PlaybackInv'
  <1>. SUFFICES ASSUME PlaybackInv, [PlaybackNext]_playVars PROVE PlaybackInv'
    OBVIOUS
  <1>1. ASSUME NEW p \in Viewers, Playback(p) PROVE PlaybackInv'
    BY <1>1, AskKeeps, CertificateKeeps, DeviceProofKeeps, PublicationKeeps, EntitlementKeeps, AuthorizationKeeps,
       TicketKeeps, DecideKeeps, WatchKeeps, ParseKeeps, NonceKeeps, GrantKeeps, PolicyKeeps DEF Playback
  <1>2. CASE UNCHANGED playVars
    <2>1. ChainStep /\ RightsHeld'
      BY <1>2 DEF playVars, rights, ChainStep, PlaybackInv, PlaybackTypes, RightsHeld
    <2>. QED BY <2>1, ChainKeeps
  <1>. QED BY <1>1, <1>2, PurgeKeeps, ChainMovesKeep, DeviceKeeps, HealthKeeps, PlayTickKeeps, EvictKeeps
           DEF PlaybackNext

\* The invariant is what the viewers and their providers rely on.
LEMMA PlaybackMeans == PlaybackInv => PlaybackSafe
  <1>. SUFFICES ASSUME PlaybackInv PROVE PlaybackSafe
    OBVIOUS
  <1>1. PlaybackTypeOK
    BY PlaybackNats DEF PlaybackInv, PlaybackTypes, PlaybackTypeOK, Tickets, Availabilities, DeviceEnds, NoToken
  <1>2. RevocationTakesHold
    BY DEF PlaybackInv, TokenHolds, RevocationTakesHold
  <1>3. SettledBeforeToken
    BY DEF PlaybackInv, TokenHolds, SettledBeforeToken, NoToken
  <1>. QED BY <1>1, <1>2, <1>3 DEF PlaybackInv, PlaybackSafe, NonceHolds, ServedOnce

-----------------------------------------------------------------------------
(* The payment by swap. *)

Settled == {"SUCCESS", "REFUNDED", "FAILED"}
Statuses == {"none", "PENDING_DEPOSIT", "PROCESSING"} \cup Settled
PageOps == {"idle", "quoting", "verifying", "rechecking", "signing", "waiting", "recovering"}
SwapPages == [shown : Checkouts, status : Statuses, op : PageOps,
              converted : BOOLEAN, owns : BOOLEAN, preview : BOOLEAN]
Converted == {q \in Quotes : swaps[q] = "SUCCESS"}

SwapTypes ==
    /\ checkout \in Checkouts
    /\ page \in [Pages -> SwapPages]
    /\ swaps \in [Quotes -> Statuses]
    /\ unpaid \subseteq Quotes
    /\ usdc \in Nat /\ buys \in Nat
    /\ registered \in BOOLEAN /\ entitled \in BOOLEAN /\ dropped \in BOOLEAN
    /\ rate \in [quote : Nat, status : 0 .. 1]
    /\ quotes \in 0 .. MaxQuotes

\* What a checkout, stored or on a screen, says of its quote is so.
Told(c) ==
    /\ c.quote = 0 <=> c.state = "none"
    /\ c.quote <= quotes
    /\ c.state \in {"usdc_final", "core_pending", "complete"} => swaps[c.quote] = "SUCCESS"
    /\ c.state = "refunded" => swaps[c.quote] = "REFUNDED"
    /\ c.state = "failed" => swaps[c.quote] = "FAILED"
    /\ c.state = "complete" => entitled

\* A tab's poll is about the checkout it shows, and brings an end only if the service came to it.
Polls(p) ==
    /\ p.status # "none" => p.shown.state \in Polled
    /\ p.status \in Settled => swaps[p.shown.quote] = p.status
    /\ p.op = "quoting" => p.shown = NoCheckout

\* A quote the service still works on, or waits for, is the stored checkout.
OpenStored ==
    \A q \in Quotes :
        swaps[q] \in {"PENDING_DEPOSIT", "PROCESSING"} /\ ~dropped
            => checkout.quote = q /\ checkout.state \in Polled

\* The account's money came from conversions, each counted once.
MoneyConverted ==
    /\ unpaid \subseteq Converted
    /\ usdc + Cardinality(unpaid) <= Cardinality(Converted)

SwapInv ==
    /\ SwapTypes
    /\ \A q \in Quotes : swaps[q] # "none" => q <= quotes
    /\ Told(checkout)
    /\ \A t \in Pages : Told(page[t].shown) /\ Polls(page[t])
    /\ OpenStored
    /\ MoneyConverted

\* The bounds are numbers, and the quotes finitely many.
LEMMA SwapConstants == {MaxQuotes, MaxSteps, QuoteLimit} \subseteq Nat /\ IsFiniteSet(Quotes)
  BY SwapAssumption, FS_Interval DEF Quotes

\* It starts with nothing stored, shown or converted.
LEMMA InitSwap == SwapInit => SwapInv
  <1>. SUFFICES ASSUME SwapInit PROVE SwapInv
    OBVIOUS
  <1>1. SwapTypes
    <2>1. MaxQuotes \in Nat
      BY SwapConstants
    <2>2. NoCheckout \in Checkouts
      BY <2>1 DEF NoCheckout, Checkouts, States
    <2>3. Fresh \in SwapPages
      BY <2>2 DEF Fresh, SwapPages, Statuses, PageOps
    <2>4. page \in [Pages -> SwapPages]
      BY <2>3 DEF SwapInit
    <2>5. swaps \in [Quotes -> Statuses]
      BY DEF SwapInit, Statuses
    <2>6. registered \in BOOLEAN /\ entitled \in BOOLEAN /\ dropped \in BOOLEAN
      BY DEF SwapInit
    <2>7. rate \in [quote : Nat, status : 0 .. 1]
      BY DEF SwapInit
    <2>. QED BY <2>1, <2>2, <2>4, <2>5, <2>6, <2>7 DEF SwapInit, SwapTypes
  <1>2. MoneyConverted
    <2>1. Converted = {} /\ unpaid = {}
      BY DEF SwapInit, Converted
    <2>. QED BY <2>1, FS_EmptySet DEF MoneyConverted, SwapInit
  <1>3. Told(NoCheckout)
    BY <1>1 DEF Told, NoCheckout, SwapTypes
  <1>4. Polls(Fresh)
    BY DEF Polls, Fresh, Settled
  <1>. QED BY <1>1, <1>2, <1>3, <1>4 DEF SwapInit, SwapInv, OpenStored, Fresh

\* Steps of the tabs and of the stored checkout, while the service and the money stand still.
LEMMA TabsMove ==
    ASSUME SwapInv,
           page' \in [Pages -> SwapPages],
           \A u \in Pages : page'[u] = page[u] \/ (Told(page'[u].shown) /\ Polls(page'[u])),
           UNCHANGED <<service, usdc, entitled, quotes>>,
           checkout' \in Checkouts, Told(checkout'),
           \A q \in Quotes : swaps[q] \in {"PENDING_DEPOSIT", "PROCESSING"} /\ ~dropped'
               => checkout'.quote = q /\ checkout'.state \in Polled,
           registered' \in BOOLEAN, dropped' \in BOOLEAN, buys' \in Nat,
           rate' \in [quote : Nat, status : 0 .. 1]
    PROVE  SwapInv'
  <1>1. SwapTypes'
    BY DEF SwapInv, SwapTypes, service
  <1>2. \A c : Told(c) => Told(c)'
    BY DEF Told, service
  <1>3. \A u \in Pages : Told(page'[u].shown) /\ Polls(page'[u])
    BY DEF SwapInv
  <1>4. \A u \in Pages : (Told(page[u].shown) /\ Polls(page[u]))'
    BY <1>3 DEF Told, Polls, service
  <1>5. Told(checkout)'
    BY DEF Told, service
  <1>6. OpenStored'
    BY DEF OpenStored, service
  <1>7. MoneyConverted'
    BY DEF SwapInv, MoneyConverted, Converted, service
  <1>. QED BY <1>1, <1>4, <1>5, <1>6, <1>7 DEF SwapInv, service

\* What the invariant says of one tab.
LEMMA OneTab ==
    ASSUME SwapInv, NEW t \in Pages
    PROVE  /\ page[t] \in SwapPages
           /\ page[t].shown \in Checkouts /\ page[t].status \in Statuses /\ page[t].op \in PageOps
           /\ page[t].converted \in BOOLEAN /\ page[t].owns \in BOOLEAN /\ page[t].preview \in BOOLEAN
           /\ Told(page[t].shown) /\ Polls(page[t])
           /\ checkout \in Checkouts /\ Told(checkout) /\ OpenStored
           /\ registered \in BOOLEAN /\ dropped \in BOOLEAN /\ entitled \in BOOLEAN /\ buys \in Nat
           /\ rate \in [quote : Nat, status : 0 .. 1]
  BY DEF SwapInv, SwapTypes, SwapPages

\* The limits count the requests.
LEMMA Limited ==
    ASSUME SwapInv, NEW kind \in {"quote", "status"}, paymentRateLimit(kind)
    PROVE  rate' \in [quote : Nat, status : 0 .. 1]
  <1>. PICK a \in Nat, b \in 0 .. 1 : rate = [quote |-> a, status |-> b]
    BY DEF SwapInv, SwapTypes
  <1>. QED BY DEF paymentRateLimit

\* One tab moves, and the stored checkout does not.
LEMMA TabMoves ==
    ASSUME SwapInv, NEW t \in Pages, NEW p \in SwapPages,
           page' = [page EXCEPT ![t] = p], Told(p.shown), Polls(p),
           UNCHANGED <<checkout, service, usdc, entitled, quotes, dropped>>,
           registered' \in BOOLEAN, buys' \in Nat, rate' \in [quote : Nat, status : 0 .. 1]
    PROVE  SwapInv'
  <1>1. page' \in [Pages -> SwapPages]
    BY DEF SwapInv, SwapTypes
  <1>2. \A u \in Pages : page'[u] = page[u] \/ (Told(page'[u].shown) /\ Polls(page'[u]))
    BY DEF SwapInv, SwapTypes
  <1>. QED BY <1>1, <1>2, OneTab, TabsMove DEF OpenStored

\* Opening the page, looking at the price, registering, asking for a quote.
LEMMA PanelKeeps ==
    ASSUME SwapInv, NEW t \in Pages,
           openPage(t) \/ getPreview(t) \/ prepareAccount(t) \/ createDeposit(t) \/ depositFails(t)
    PROVE  SwapInv'
  <1>1. CASE openPage(t)
    <2>. DEFINE p == [Fresh EXCEPT !.shown = checkout, !.owns = entitled]
    <2>1. p \in SwapPages /\ p.shown = checkout /\ p.status = "none" /\ p.op = "idle"
      BY OneTab DEF Fresh, SwapPages, Statuses, PageOps
    <2>2. Told(p.shown) /\ Polls(p)
      BY <2>1, OneTab DEF Polls, Settled
    <2>. QED BY <1>1, <2>1, <2>2, OneTab, TabMoves DEF openPage, loadActivePaymentCheckout, chain
  <1>2. CASE getPreview(t)
    <2>. PICK a \in OneClickAnswers : page' = [page EXCEPT ![t].preview = @ \/ paymentQuote(a, TRUE)]
      BY <1>2 DEF getPreview
    <2>. DEFINE p == [page[t] EXCEPT !.preview = @ \/ paymentQuote(a, TRUE)]
    <2>1. paymentQuote(a, TRUE) \in BOOLEAN
      BY DEF paymentQuote
    <2>2. p \in SwapPages /\ p.shown = page[t].shown /\ p.status = page[t].status /\ p.op = page[t].op
      BY <2>1, OneTab DEF SwapPages
    <2>3. Told(p.shown) /\ Polls(p)
      BY <2>2, OneTab DEF Polls
    <2>4. page' = [page EXCEPT ![t] = p]
      BY DEF SwapInv, SwapTypes
    <2>. QED BY <1>2, <2>2, <2>3, <2>4, OneTab, Limited, TabMoves DEF getPreview, chain
  <1>3. CASE prepareAccount(t)
    <2>1. page' = [page EXCEPT ![t] = page[t]]
      BY <1>3 DEF prepareAccount, SwapInv, SwapTypes
    <2>. QED BY <1>3, <2>1, OneTab, TabMoves DEF prepareAccount
  <1>4. CASE createDeposit(t)
    <2>. DEFINE p == [page[t] EXCEPT !.op = "quoting"]
    <2>1. p \in SwapPages /\ p.shown = page[t].shown /\ p.status = page[t].status /\ p.op = "quoting"
      BY OneTab DEF SwapPages, PageOps
    <2>2. Told(p.shown) /\ Polls(p)
      BY <1>4, <2>1, OneTab DEF Polls, createDeposit
    <2>3. page' = [page EXCEPT ![t] = p]
      BY <1>4 DEF createDeposit, SwapInv, SwapTypes
    <2>. QED BY <1>4, <2>1, <2>2, <2>3, OneTab, TabMoves DEF createDeposit, chain
  <1>5. CASE depositFails(t)
    <2>. DEFINE p == [page[t] EXCEPT !.op = "idle"]
    <2>1. p \in SwapPages /\ p.shown = page[t].shown /\ p.status = page[t].status /\ p.op = "idle"
      BY OneTab DEF SwapPages, PageOps
    <2>2. Told(p.shown) /\ Polls(p)
      BY <2>1, OneTab DEF Polls
    <2>3. page' = [page EXCEPT ![t] = p]
      BY <1>5 DEF depositFails, SwapInv, SwapTypes
    <2>. QED BY <1>5, <2>1, <2>2, <2>3, OneTab, TabMoves DEF depositFails, chain
  <1>. QED BY <1>1, <1>2, <1>3, <1>4, <1>5

\* A tab stores a checkout: over its own, none, or one that is at its end.
LEMMA StoreOpen ==
    ASSUME SwapInv, NEW c \in Checkouts, maySave(c),
           \A q \in Quotes : c.quote = q /\ swaps[q] \in {"PENDING_DEPOSIT", "PROCESSING"} => c.state \in Polled
    PROVE  \A q \in Quotes : swaps[q] \in {"PENDING_DEPOSIT", "PROCESSING"} /\ ~dropped
               => c.quote = q /\ c.state \in Polled
  <1>. SUFFICES ASSUME NEW q \in Quotes, swaps[q] \in {"PENDING_DEPOSIT", "PROCESSING"}, ~dropped
                PROVE  c.quote = q
    OBVIOUS
  <1>1. checkout.quote = q /\ checkout.state \in Polled /\ q # 0
    BY DEF SwapInv, OpenStored, Quotes
  <1>2. checkout.state \notin TERMINAL_STATES
    BY <1>1 DEF Polled, TERMINAL_STATES
  <1>. QED BY <1>1, <1>2 DEF maySave

\* The firm quote.
LEMMA DepositKeeps ==
    ASSUME SwapInv, NEW t \in Pages, depositQuoted(t)
    PROVE  SwapInv'
  <1>. PICK a \in OneClickAnswers :
       LET new == [quote |-> quotes + 1, state |-> "awaiting_deposit"] IN
       \/ /\ paymentQuote(a, FALSE)
          /\ quotes' = quotes + 1 /\ swaps' = [swaps EXCEPT ![quotes + 1] = "PENDING_DEPOSIT"]
          /\ saveActivePaymentCheckout(new)
          /\ page' = [page EXCEPT ![t].op = "idle", ![t].shown = new, ![t].preview = FALSE]
       \/ /\ ~(paymentQuote(a, FALSE) /\ maySave(new))
          /\ page' = [page EXCEPT ![t].op = "idle"]
          /\ UNCHANGED <<checkout, quotes, swaps>>
    BY DEF depositQuoted
  <1>0. quotes < MaxQuotes /\ quotes \in Nat /\ quotes + 1 \in Quotes
    BY SwapConstants DEF depositQuoted, SwapInv, SwapTypes, Quotes
  <1>. PICK new \in Checkouts : new = [quote |-> quotes + 1, state |-> "awaiting_deposit"]
    BY <1>0 DEF Checkouts, States, Quotes
  <1>1. /\ page[t].op = "quoting" /\ quotes < MaxQuotes /\ paymentRateLimit("quote")
        /\ UNCHANGED <<unpaid, chain, steps, dropped>>
    BY DEF depositQuoted
  <1>2. CASE page' = [page EXCEPT ![t].op = "idle"] /\ UNCHANGED <<checkout, quotes, swaps>>
    <2>. DEFINE p == [page[t] EXCEPT !.op = "idle"]
    <2>1. p \in SwapPages /\ p.shown = page[t].shown /\ p.status = page[t].status /\ p.op = "idle"
      BY OneTab DEF SwapPages, PageOps
    <2>2. Told(p.shown) /\ Polls(p)
      BY <2>1, OneTab DEF Polls
    <2>3. page' = [page EXCEPT ![t] = p]
      BY <1>2 DEF SwapInv, SwapTypes
    <2>. QED BY <1>1, <1>2, <2>1, <2>2, <2>3, OneTab, Limited, TabMoves DEF chain, service
  <1>3. CASE /\ quotes' = quotes + 1 /\ swaps' = [swaps EXCEPT ![quotes + 1] = "PENDING_DEPOSIT"]
             /\ saveActivePaymentCheckout(new)
             /\ page' = [page EXCEPT ![t].op = "idle", ![t].shown = new, ![t].preview = FALSE]
    <2>. DEFINE p == [page[t] EXCEPT !.op = "idle", !.shown = new, !.preview = FALSE]
    <2>1. /\ quotes \in Nat /\ quotes + 1 \in Quotes /\ quotes' \in 0 .. MaxQuotes
          /\ new.quote = quotes + 1 /\ new.state = "awaiting_deposit"
      BY <1>0, <1>3, SwapConstants DEF Quotes
    <2>2. p \in SwapPages /\ p.shown = new /\ p.status = page[t].status /\ p.op = "idle"
      BY <2>1, OneTab DEF SwapPages, PageOps
    <2>3. page' = [page EXCEPT ![t] = p]
      BY <1>3 DEF SwapInv, SwapTypes
    <2>4. \A q \in Quotes : swaps'[q] = IF q = quotes + 1 THEN "PENDING_DEPOSIT" ELSE swaps[q]
      BY <1>3, <2>1 DEF SwapInv, SwapTypes
    <2>5. swaps[quotes + 1] = "none"
      BY <2>1 DEF SwapInv
    <2>6. \A c \in Checkouts : Told(c) => Told(c)'
      <3>. SUFFICES ASSUME NEW c \in Checkouts, Told(c) PROVE Told(c)'
        OBVIOUS
      <3>1. (c.quote = 0 /\ c.state = "none") \/ (c.quote \in Quotes /\ c.quote # quotes + 1)
        BY <2>1 DEF Told, Checkouts, Quotes
      <3>. QED BY <1>1, <1>3, <2>1, <2>4, <3>1 DEF Told, Checkouts, chain
    <2>7. Told(new)'
      BY <1>3, <2>1 DEF Told
    <2>8. checkout' = new /\ maySave(new)
      BY <1>3 DEF saveActivePaymentCheckout
    <2>9. page[t].status = "none"
      BY <1>1, OneTab DEF Polls, NoCheckout, Polled
    <2>10. \A u \in Pages : (Told(page[u].shown) /\ Polls(page[u]))'
      <3>. SUFFICES ASSUME NEW u \in Pages PROVE (Told(page[u].shown) /\ Polls(page[u]))'
        OBVIOUS
      <3>1. CASE u = t
        <4>1. page'[u] = p
          BY <2>3, <3>1 DEF SwapInv, SwapTypes
        <4>. QED BY <2>2, <2>7, <2>9, <4>1 DEF Polls, Settled, Told
      <3>2. CASE u # t
        <4>1. page'[u] = page[u] /\ page[u].shown \in Checkouts /\ Told(page[u].shown) /\ Polls(page[u])
          BY <2>3, <3>2, OneTab DEF SwapInv, SwapTypes
        <4>2. Told(page[u].shown)'
          BY <2>6, <4>1
        <4>3. page[u].status \in Settled => swaps'[page[u].shown.quote] = page[u].status
          <5>. HAVE page[u].status \in Settled
          <5>1. page[u].shown.state \in Polled
            BY <4>1 DEF Polls, Settled
          <5>2. page[u].shown.quote \in Quotes /\ page[u].shown.quote # quotes + 1
            BY <2>1, <4>1, <5>1 DEF Told, Checkouts, Quotes, Polled
          <5>. QED BY <2>4, <4>1, <5>2 DEF Polls
        <4>. QED BY <4>1, <4>2, <4>3 DEF Polls
      <3>. QED BY <3>1, <3>2
    <2>11. OpenStored'
      <3>. SUFFICES ASSUME NEW q \in Quotes, swaps'[q] \in {"PENDING_DEPOSIT", "PROCESSING"}, ~dropped'
                    PROVE  checkout'.quote = q /\ checkout'.state \in Polled
        BY DEF OpenStored
      <3>1. CASE q = quotes + 1
        BY <2>1, <2>8, <3>1 DEF Polled
      <3>2. CASE q # quotes + 1
        <4>1. checkout.quote = q /\ checkout.state \in Polled
          BY <1>1, <2>4, <3>2 DEF SwapInv, OpenStored
        <4>. QED BY <2>1, <2>8, <3>2, <4>1 DEF maySave, Polled, TERMINAL_STATES, Quotes
      <3>. QED BY <3>1, <3>2
    <2>12. MoneyConverted'
      <3>1. Converted' = Converted
        BY <2>1, <2>4, <2>5 DEF Converted
      <3>. QED BY <1>1, <3>1 DEF SwapInv, MoneyConverted, chain
    <2>13. SwapTypes'
      <3>1. page' \in [Pages -> SwapPages]
        BY <2>2, <2>3 DEF SwapInv, SwapTypes
      <3>2. swaps' \in [Quotes -> Statuses]
        BY <1>3, <2>1 DEF SwapInv, SwapTypes, Statuses
      <3>. QED BY <1>1, <2>1, <2>8, <3>1, <3>2, Limited DEF SwapInv, SwapTypes, chain
    <2>14. \A q \in Quotes : swaps'[q] # "none" => q <= quotes'
      BY <1>3, <2>1, <2>4 DEF SwapInv, Quotes
    <2>. QED BY <2>6, <2>7, <2>8, <2>10, <2>11, <2>12, <2>13, <2>14 DEF SwapInv, Told
  <1>. QED BY <1>2, <1>3

\* The poll asks, and stores what it learns; "new quote" forgets.
LEMMA PollKeeps ==
    ASSUME SwapInv, NEW t \in Pages,
           readPaymentStatus(t) \/ poll(t) \/ resetTerminal(t)
    PROVE  SwapInv'
  <1>1. CASE readPaymentStatus(t)
    <2>. PICK a \in OneClickAnswers :
           page' = [page EXCEPT ![t].status = IF validateStoredQuote(a) THEN swaps[page[t].shown.quote] ELSE @]
      BY <1>1 DEF readPaymentStatus
    <2>. DEFINE read == IF validateStoredQuote(a) THEN swaps[page[t].shown.quote] ELSE page[t].status
                p == [page[t] EXCEPT !.status = read]
    <2>1. page[t].shown.state \in Polled /\ page[t].status = "none" /\ paymentRateLimit("status")
          /\ UNCHANGED <<checkout, service, chain, quotes, steps, dropped>>
      BY <1>1 DEF readPaymentStatus
    <2>2. page[t].shown.quote \in Quotes
      BY <2>1, OneTab DEF Told, Checkouts, Quotes, Polled
    <2>3. read \in Statuses /\ (read \in Settled => swaps[page[t].shown.quote] = read)
      BY <2>1, <2>2, OneTab DEF SwapInv, SwapTypes, Settled
    <2>. HIDE DEF read
    <2>4. p \in SwapPages /\ p.shown = page[t].shown /\ p.status = read /\ p.op = page[t].op
      BY <2>3, OneTab DEF SwapPages
    <2>5. Told(p.shown) /\ Polls(p)
      BY <2>1, <2>3, <2>4, OneTab DEF Polls
    <2>6. page' = [page EXCEPT ![t] = p]
      BY DEF read, SwapInv, SwapTypes
    <2>. QED BY <2>1, <2>4, <2>5, <2>6, OneTab, Limited, TabMoves DEF chain
  <1>2. CASE poll(t)
    <2>. PICK gas \in BOOLEAN :
         LET state == paymentCheckoutState(page[t].status, gas /\ verifyConvertedUsdcReady(page[t].status))
             new == [page[t].shown EXCEPT !.state = state]
         IN IF state = page[t].shown.state
            THEN page' = [page EXCEPT ![t].status = "none"] /\ UNCHANGED checkout
            ELSE \/ /\ saveActivePaymentCheckout(new)
                    /\ page' = [page EXCEPT ![t].status = "none", ![t].shown = new]
                 \/ /\ ~maySave(new)
                    /\ page' = [page EXCEPT ![t].status = "none"] /\ UNCHANGED checkout
      BY <1>2 DEF poll
    <2>. DEFINE state == paymentCheckoutState(page[t].status, gas /\ verifyConvertedUsdcReady(page[t].status))
    <2>. PICK new : new = [page[t].shown EXCEPT !.state = state]
      OBVIOUS
    <2>1. page[t].status # "none" /\ page[t].shown.state \in Polled
          /\ UNCHANGED <<service, chain, rate, quotes, steps, dropped>>
      BY <1>2, OneTab DEF poll, Polls
    <2>2. /\ state \in {"awaiting_deposit", "converting", "usdc_final", "refunded", "failed"}
          /\ state = "usdc_final" => page[t].status = "SUCCESS"
          /\ state = "refunded" => page[t].status = "REFUNDED"
          /\ state = "failed" => page[t].status = "FAILED"
      BY DEF paymentCheckoutState
    <2>3. page[t].shown.quote \in Quotes /\ page[t].shown.quote # 0
      BY <2>1, OneTab DEF Told, Checkouts, Quotes, Polled
    <2>. HIDE DEF state
    <2>4. new \in Checkouts /\ new.quote = page[t].shown.quote /\ new.state = state
      BY <2>2, OneTab DEF Checkouts, States, TERMINAL_STATES
    <2>5. Told(new)
      BY <2>2, <2>3, <2>4, OneTab DEF Told, Polls, Settled
    <2>6. CASE page' = [page EXCEPT ![t].status = "none"] /\ UNCHANGED checkout
      <3>. DEFINE p == [page[t] EXCEPT !.status = "none"]
      <3>1. p \in SwapPages /\ p.shown = page[t].shown /\ p.status = "none" /\ p.op = page[t].op
        BY OneTab DEF SwapPages, Statuses
      <3>2. Told(p.shown) /\ Polls(p)
        BY <3>1, OneTab DEF Polls, Settled
      <3>3. page' = [page EXCEPT ![t] = p]
        BY <2>6 DEF SwapInv, SwapTypes
      <3>. QED BY <2>1, <2>6, <3>1, <3>2, <3>3, OneTab, TabMoves DEF chain
    <2>7. CASE saveActivePaymentCheckout(new) /\ page' = [page EXCEPT ![t].status = "none", ![t].shown = new]
      <3>. DEFINE p == [page[t] EXCEPT !.status = "none", !.shown = new]
      <3>1. p \in SwapPages /\ p.shown = new /\ p.status = "none" /\ p.op = page[t].op
        BY <2>4, OneTab DEF SwapPages, Statuses
      <3>2. Told(p.shown) /\ Polls(p)
        BY <2>1, <2>5, <3>1, OneTab DEF Polls, Settled, Polled, NoCheckout
      <3>3. page' = [page EXCEPT ![t] = p]
        BY <2>7 DEF SwapInv, SwapTypes
      <3>4. page' \in [Pages -> SwapPages]
            /\ \A u \in Pages : page'[u] = page[u] \/ (Told(page'[u].shown) /\ Polls(page'[u]))
        BY <3>1, <3>2, <3>3 DEF SwapInv, SwapTypes
      <3>5. \A q \in Quotes : new.quote = q /\ swaps[q] \in {"PENDING_DEPOSIT", "PROCESSING"} => new.state \in Polled
        BY <2>2, <2>4, OneTab DEF Polls, Settled, Polled
      <3>6. checkout' = new /\ maySave(new)
        BY <2>7 DEF saveActivePaymentCheckout
      <3>7. \A q \in Quotes : swaps[q] \in {"PENDING_DEPOSIT", "PROCESSING"} /\ ~dropped
               => new.quote = q /\ new.state \in Polled
        BY <2>4, <3>5, <3>6, StoreOpen
      <3>. QED BY <2>1, <2>4, <2>5, <3>4, <3>6, <3>7, OneTab, TabsMove DEF chain
    <2>. QED BY <2>6, <2>7 DEF state
  <1>3. CASE resetTerminal(t)
    <2>. DEFINE p == [page[t] EXCEPT !.shown = NoCheckout, !.preview = FALSE]
    <2>1. NoCheckout \in Checkouts /\ Told(NoCheckout)
      BY SwapConstants DEF NoCheckout, Checkouts, States, Told, SwapInv, SwapTypes
    <2>2. p \in SwapPages /\ p.shown = NoCheckout /\ p.status = page[t].status /\ p.op = page[t].op
      BY <2>1, OneTab DEF SwapPages
    <2>3. page[t].shown.state \in TERMINAL_STATES \cup {"usdc_final"} /\ page[t].shown.state \notin Polled
      BY <1>3 DEF resetTerminal, TERMINAL_STATES, Polled
    <2>4. Told(p.shown) /\ Polls(p)
      BY <2>1, <2>2, <2>3, OneTab DEF Polls, Settled
    <2>5. page' = [page EXCEPT ![t] = p]
      BY <1>3 DEF resetTerminal, SwapInv, SwapTypes
    <2>6. page' \in [Pages -> SwapPages]
          /\ \A u \in Pages : page'[u] = page[u] \/ (Told(page'[u].shown) /\ Polls(page'[u]))
      BY <2>2, <2>4, <2>5 DEF SwapInv, SwapTypes
    <2>7. /\ checkout' = NoCheckout /\ UNCHANGED <<service, chain, rate, quotes>>
          /\ dropped' = (dropped \/ (checkout.quote # page[t].shown.quote /\ checkout.state \in Polled))
      BY <1>3 DEF resetTerminal
    <2>8. \A q \in Quotes : ~(swaps[q] \in {"PENDING_DEPOSIT", "PROCESSING"} /\ ~dropped')
      <3>. SUFFICES ASSUME NEW q \in Quotes, swaps[q] \in {"PENDING_DEPOSIT", "PROCESSING"}, ~dropped'
                    PROVE  FALSE
        OBVIOUS
      <3>1. checkout.quote = q /\ checkout.state \in Polled
        BY <2>7 DEF SwapInv, OpenStored
      <3>2. page[t].shown.quote = q
        BY <2>7, <3>1
      <3>. QED BY <2>3, <3>2, OneTab DEF Told, TERMINAL_STATES
    <2>9. dropped' \in BOOLEAN
      BY <2>7
    <2>. QED BY <2>1, <2>6, <2>7, <2>8, <2>9, OneTab, TabsMove DEF chain
  <1>. QED BY <1>1, <1>2, <1>3

\* The purchase marks the stored checkout.
LEMMA StateMarked ==
    ASSUME SwapInv, NEW state \in {"usdc_final", "core_pending", "complete"},
           updateActivePaymentCheckoutState(state), state = "complete" => entitled
    PROVE  /\ checkout' \in Checkouts /\ Told(checkout')
           /\ \A q \in Quotes : swaps[q] \in {"PENDING_DEPOSIT", "PROCESSING"} /\ ~dropped
                => checkout'.quote = q /\ checkout'.state \in Polled
  <1>0. checkout \in Checkouts /\ Told(checkout) /\ OpenStored
    BY DEF SwapInv, SwapTypes
  <1>1. CASE checkout' = checkout
    BY <1>0, <1>1 DEF OpenStored
  <1>2. CASE checkout.state \in {"usdc_final", "core_pending"} /\ checkout' = [checkout EXCEPT !.state = state]
    <2>1. checkout' \in Checkouts /\ checkout'.quote = checkout.quote /\ checkout'.state = state
      BY <1>0, <1>2 DEF Checkouts, States, TERMINAL_STATES
    <2>2. Told(checkout')
      BY <1>0, <1>2, <2>1 DEF Told
    <2>. QED BY <1>0, <1>2, <2>1, <2>2 DEF OpenStored, Polled
  <1>. QED BY <1>1, <1>2 DEF updateActivePaymentCheckoutState

\* A step of the purchase: the tab goes on, and the stored checkout is as it was or marked.
LEMMA PurchaseMoves ==
    ASSUME SwapInv, NEW t \in Pages, NEW op \in PageOps \ {"quoting"}, NEW converted \in BOOLEAN, NEW owns \in BOOLEAN,
           page' = [page EXCEPT ![t].op = op, ![t].converted = converted, ![t].owns = owns],
           \/ UNCHANGED checkout
           \/ \E state \in {"usdc_final", "core_pending", "complete"} :
                updateActivePaymentCheckoutState(state) /\ (state = "complete" => entitled),
           UNCHANGED <<service, usdc, registered, entitled, rate, quotes, dropped>>, buys' \in Nat
    PROVE  SwapInv'
  <1>. DEFINE p == [page[t] EXCEPT !.op = op, !.converted = converted, !.owns = owns]
  <1>1. p \in SwapPages /\ p.shown = page[t].shown /\ p.status = page[t].status /\ p.op # "quoting"
    BY OneTab DEF SwapPages
  <1>2. Told(p.shown) /\ Polls(p)
    BY <1>1, OneTab DEF Polls
  <1>3. page' = [page EXCEPT ![t] = p]
    BY DEF SwapInv, SwapTypes
  <1>4. page' \in [Pages -> SwapPages]
        /\ \A u \in Pages : page'[u] = page[u] \/ (Told(page'[u].shown) /\ Polls(page'[u]))
    BY <1>1, <1>2, <1>3 DEF SwapInv, SwapTypes
  <1>5. CASE UNCHANGED checkout
    BY <1>1, <1>2, <1>3, <1>5, OneTab, TabMoves
  <1>6. ASSUME NEW state \in {"usdc_final", "core_pending", "complete"},
               updateActivePaymentCheckoutState(state), state = "complete" => entitled
        PROVE  SwapInv'
    BY <1>4, <1>6, StateMarked, OneTab, TabsMove
  <1>. QED BY <1>5, <1>6

\* The purchase with what the account has.
LEMMA PurchaseKeeps ==
    ASSUME SwapInv, NEW t \in Pages,
           purchase(t) \/ convertedReady(t) \/ buyLivepeerTicket(t)
             \/ waitForLivepeerEntitlement(t) \/ recoverRefundedTicketPayment(t)
    PROVE  SwapInv'
  <1>. DEFINE Becomes(op, converted, owns) ==
                page' = [page EXCEPT ![t].op = op, ![t].converted = converted, ![t].owns = owns]
              MovesTo(state) == updateActivePaymentCheckoutState(state)
  <1>0. page[t].converted \in BOOLEAN /\ page[t].owns \in BOOLEAN /\ buys \in Nat /\ entitled \in BOOLEAN
    BY OneTab
  <1>1. \A op : Continues(t, op) => Becomes(op, page[t].converted, page[t].owns)
    BY DEF Continues, SwapInv, SwapTypes, SwapPages
  <1>2. Ends(t) => Becomes("idle", FALSE, page[t].owns)
    BY DEF Ends, SwapInv, SwapTypes, SwapPages
  <1>3. CASE purchase(t)
    <2>1. Becomes("verifying", page[t].converted, page[t].owns) \/ Becomes("rechecking", TRUE, page[t].owns)
            \/ Becomes("signing", page[t].converted, page[t].owns)
      <3>1. page' = [page EXCEPT ![t].op = "rechecking", ![t].converted = TRUE] => Becomes("rechecking", TRUE, page[t].owns)
        BY DEF SwapInv, SwapTypes, SwapPages
      <3>. QED BY <1>1, <1>3, <3>1 DEF purchase
    <2>. QED BY <1>0, <1>3, <2>1, PurchaseMoves DEF purchase, PageOps, chain
  <1>4. CASE convertedReady(t)
    <2>1. CASE updateActivePaymentCheckoutState("core_pending")
                 /\ page' = [page EXCEPT ![t].op = "signing", ![t].converted = (checkout.state = "usdc_final")]
      <3>. PICK converted \in BOOLEAN : converted = (checkout.state = "usdc_final")
        OBVIOUS
      <3>1. Becomes("signing", converted, page[t].owns)
        BY <2>1 DEF SwapInv, SwapTypes, SwapPages
      <3>2. UNCHANGED <<service, usdc, registered, entitled, rate, quotes, dropped>> /\ buys' \in Nat
        BY <1>0, <1>4 DEF convertedReady, chain
      <3>3. MovesTo("core_pending") /\ "signing" \in PageOps \ {"quoting"}
        BY <2>1 DEF PageOps
      <3>. QED BY <1>0, <3>1, <3>2, <3>3, PurchaseMoves
    <2>2. CASE Ends(t) /\ UNCHANGED checkout
      BY <1>0, <1>2, <1>4, <2>2, PurchaseMoves DEF convertedReady, PageOps, chain
    <2>. QED BY <1>4, <2>1, <2>2 DEF convertedReady
  <1>5. CASE buyLivepeerTicket(t)
    <2>1. Becomes("waiting", page[t].converted, page[t].owns) \/ Becomes("idle", FALSE, page[t].owns)
      BY <1>1, <1>2, <1>5 DEF buyLivepeerTicket
    <2>2. UNCHANGED checkout \/ MovesTo("usdc_final")
      BY <1>5 DEF buyLivepeerTicket
    <2>3. buys' \in Nat /\ UNCHANGED <<service, usdc, registered, entitled, rate, quotes, dropped>>
      BY <1>0, <1>5 DEF buyLivepeerTicket
    <2>. QED BY <1>0, <2>1, <2>2, <2>3, PurchaseMoves DEF PageOps
  <1>6. CASE waitForLivepeerEntitlement(t)
    <2>0. page' = [page EXCEPT ![t].op = "idle", ![t].converted = FALSE, ![t].owns = TRUE] => Becomes("idle", FALSE, TRUE)
      OBVIOUS
    <2>1. \/ Becomes("idle", FALSE, TRUE) \/ Becomes("idle", FALSE, page[t].owns)
          \/ Becomes("recovering", page[t].converted, page[t].owns)
      BY <1>1, <1>2, <1>6, <2>0 DEF waitForLivepeerEntitlement
    <2>2. UNCHANGED checkout \/ (MovesTo("complete") /\ entitled)
      BY <1>6 DEF waitForLivepeerEntitlement
    <2>3. buys' \in Nat /\ UNCHANGED <<service, usdc, registered, entitled, rate, quotes, dropped>>
      BY <1>0, <1>6 DEF waitForLivepeerEntitlement, chain
    <2>. QED BY <1>0, <2>1, <2>2, <2>3, PurchaseMoves DEF PageOps
  <1>7. CASE recoverRefundedTicketPayment(t)
    <2>1. Becomes("idle", FALSE, page[t].owns)
      BY <1>2, <1>7 DEF recoverRefundedTicketPayment
    <2>2. UNCHANGED checkout \/ MovesTo("usdc_final")
      BY <1>7 DEF recoverRefundedTicketPayment
    <2>3. buys' \in Nat /\ UNCHANGED <<service, usdc, registered, entitled, rate, quotes, dropped>>
      BY <1>0, <1>7 DEF recoverRefundedTicketPayment, chain
    <2>. QED BY <1>0, <2>1, <2>2, <2>3, PurchaseMoves DEF PageOps
  <1>. QED BY <1>3, <1>4, <1>5, <1>6, <1>7

\* The service works on quotes, none of which it takes up again at its end.
LEMMA ServiceMoves ==
    ASSUME SwapInv, NEW q \in Quotes, NEW status \in Statuses \ {"none"},
           swaps[q] \in {"PENDING_DEPOSIT", "PROCESSING"}, swaps' = [swaps EXCEPT ![q] = status],
           unpaid' = IF status = "SUCCESS" THEN unpaid \cup {q} ELSE unpaid,
           UNCHANGED <<checkout, page, chain, rate, quotes, dropped>>
    PROVE  SwapInv'
  <1>1. \A r \in Quotes : swaps'[r] = IF r = q THEN status ELSE swaps[r]
    BY DEF SwapInv, SwapTypes
  <1>2. SwapTypes'
    <2>1. swaps' \in [Quotes -> Statuses]
      BY DEF SwapInv, SwapTypes
    <2>2. unpaid' \subseteq Quotes
      BY DEF SwapInv, SwapTypes
    <2>. QED BY <2>1, <2>2 DEF SwapInv, SwapTypes, chain
  <1>3. \A c \in Checkouts : Told(c) => Told(c)'
    <2>. SUFFICES ASSUME NEW c \in Checkouts, Told(c) PROVE Told(c)'
      OBVIOUS
    <2>1. (c.quote = 0 /\ c.state = "none") \/ c.quote \in Quotes
      BY DEF Told, Checkouts, Quotes
    <2>. QED BY <1>1, <2>1 DEF Told, chain
  <1>4. Told(checkout)' /\ \A u \in Pages : Told(page[u].shown)'
    BY <1>3, OneTab DEF SwapInv, SwapTypes
  <1>5. \A u \in Pages : Polls(page[u])'
    <2>. SUFFICES ASSUME NEW u \in Pages PROVE Polls(page[u])'
      OBVIOUS
    <2>1. page[u].status \in Settled => page[u].shown.quote \in Quotes
      BY OneTab DEF Told, Polls, Checkouts, Quotes, Settled, Polled
    <2>. QED BY <1>1, <2>1, OneTab DEF Polls, Settled
  <1>6. OpenStored'
    BY <1>1 DEF SwapInv, OpenStored
  <1>7. MoneyConverted'
    <2>0. IsFiniteSet(Converted) /\ IsFiniteSet(unpaid) /\ usdc \in Nat
      <3>1. Converted \subseteq Quotes
        BY DEF Converted
      <3>. QED BY <3>1, SwapConstants, FS_Subset DEF SwapInv, SwapTypes
    <2>1. CASE status = "SUCCESS"
      <3>1. Converted' = Converted \cup {q} /\ q \notin Converted /\ unpaid' = unpaid \cup {q} /\ q \notin unpaid
        BY <1>1, <2>1 DEF Converted, SwapInv, MoneyConverted
      <3>2. /\ Cardinality(Converted') = Cardinality(Converted) + 1 /\ Cardinality(unpaid') = Cardinality(unpaid) + 1
            /\ Cardinality(Converted) \in Nat /\ Cardinality(unpaid) \in Nat
        BY <2>0, <3>1, FS_AddElement, FS_CardinalityType
      <3>. QED BY <2>0, <3>1, <3>2 DEF SwapInv, MoneyConverted, chain
    <2>2. CASE status # "SUCCESS"
      <3>1. Converted' = Converted /\ unpaid' = unpaid
        BY <1>1, <2>2 DEF Converted
      <3>. QED BY <3>1 DEF SwapInv, MoneyConverted, chain
    <2>. QED BY <2>1, <2>2
  <1>8. \A r \in Quotes : swaps'[r] # "none" => r <= quotes'
    BY <1>1 DEF SwapInv
  <1>. QED BY <1>2, <1>4, <1>5, <1>6, <1>7, <1>8 DEF SwapInv

\* The deposit is made, and the service ends the conversion.
LEMMA ConversionKeeps ==
    ASSUME SwapInv,
           (\E t \in Pages : deposit(t)) \/ (\E q \in Quotes : swapSettles(q))
    PROVE  SwapInv'
  <1>1. ASSUME NEW t \in Pages, deposit(t) PROVE SwapInv'
    <2>1. page[t].shown.quote \in Quotes
      BY <1>1, OneTab DEF deposit, Checkouts, Quotes
    <2>. QED BY <1>1, <2>1, ServiceMoves DEF deposit, Statuses
  <1>2. ASSUME NEW q \in Quotes, swapSettles(q) PROVE SwapInv'
    <2>. PICK outcome \in {"SUCCESS", "REFUNDED", "FAILED"} :
           swaps' = [swaps EXCEPT ![q] = outcome] /\ swaps[q] \in {"PENDING_DEPOSIT", "PROCESSING"}
      BY <1>2 DEF swapSettles
    <2>1. swaps'[q] = outcome
      BY DEF SwapInv, SwapTypes
    <2>. QED BY <1>2, <2>1, ServiceMoves DEF swapSettles, Statuses, Settled
  <1>. QED BY <1>1, <1>2

\* Money arrives and is spent, and the windows end.
LEMMA MoneyKeeps ==
    ASSUME SwapInv,
           (\E q \in unpaid : usdcArrives(q)) \/ buyExecutes
             \/ \E kind \in {"quote", "status"} : expirePaymentRateLimit(kind)
    PROVE  SwapInv'
  <1>0. /\ IsFiniteSet(unpaid) /\ usdc \in Nat /\ Cardinality(unpaid) \in Nat /\ buys \in Nat
        /\ IsFiniteSet(Converted) /\ Cardinality(Converted) \in Nat
    <2>1. Converted \subseteq Quotes
      BY DEF Converted
    <2>. QED BY <2>1, SwapConstants, FS_Subset, FS_CardinalityType DEF SwapInv, SwapTypes
  <1>1. UNCHANGED <<checkout, page, swaps, registered, quotes, dropped>>
    BY DEF usdcArrives, buyExecutes, expirePaymentRateLimit, service, chain
  <1>2. /\ unpaid' \subseteq unpaid /\ usdc' \in Nat /\ buys' \in Nat /\ entitled' \in BOOLEAN /\ (entitled => entitled')
        /\ rate' \in [quote : Nat, status : 0 .. 1]
        /\ usdc' + Cardinality(unpaid') <= Cardinality(Converted)
    <2>0. /\ usdc + Cardinality(unpaid) <= Cardinality(Converted) /\ entitled \in BOOLEAN
          /\ rate \in [quote : Nat, status : 0 .. 1]
      BY DEF SwapInv, SwapTypes, MoneyConverted
    <2>1. ASSUME NEW q \in unpaid, usdcArrives(q) PROVE <1>2
      <3>1. Cardinality(unpaid') = Cardinality(unpaid) - 1
        BY <1>0, <2>1, FS_RemoveElement DEF usdcArrives
      <3>. QED BY <1>0, <2>0, <2>1, <3>1 DEF usdcArrives
    <2>2. CASE buyExecutes
      <3>1. UNCHANGED <<unpaid, rate>> /\ buys' \in Nat
        BY <1>0, <2>2 DEF buyExecutes, service
      <3>2. (UNCHANGED <<entitled, usdc>>) \/ (entitled' = TRUE /\ usdc' = usdc - 1 /\ usdc >= 1)
        BY <2>2 DEF buyExecutes
      <3>3. usdc' \in Nat /\ usdc' + Cardinality(unpaid') <= Cardinality(Converted)
        BY <1>0, <2>0, <3>1, <3>2
      <3>4. entitled' \in BOOLEAN /\ (entitled => entitled')
        BY <2>0, <3>2
      <3>. QED BY <2>0, <3>1, <3>3, <3>4
    <2>3. ASSUME NEW kind \in {"quote", "status"}, expirePaymentRateLimit(kind) PROVE <1>2
      <3>. PICK a \in Nat, b \in 0 .. 1 : rate = [quote |-> a, status |-> b]
        BY <2>0
      <3>1. rate' \in [quote : Nat, status : 0 .. 1]
        BY <2>3 DEF expirePaymentRateLimit
      <3>. QED BY <1>0, <2>0, <2>3, <3>1 DEF expirePaymentRateLimit, service, chain
    <2>. QED BY <2>1, <2>2, <2>3
  <1>3. SwapTypes'
    BY <1>1, <1>2 DEF SwapInv, SwapTypes
  <1>4. \A c : Told(c) => Told(c)'
    BY <1>1, <1>2 DEF Told
  <1>5. MoneyConverted'
    BY <1>1, <1>2 DEF SwapInv, MoneyConverted, Converted
  <1>. QED BY <1>1, <1>3, <1>4, <1>5 DEF SwapInv, OpenStored, Polls

\* A step of the payment, or of nothing it remembers.
LEMMA NextSwap == SwapInv /\ [SwapNext]_swapVars => SwapInv'
  <1>. SUFFICES ASSUME SwapInv, [SwapNext]_swapVars PROVE SwapInv'
    OBVIOUS
  <1>1. CASE UNCHANGED swapVars
    BY <1>1, TabsMove DEF swapVars, chain, SwapInv, SwapTypes, OpenStored
  <1>. QED BY <1>1, PanelKeeps, DepositKeeps, PollKeeps, PurchaseKeeps, ConversionKeeps, MoneyKeeps DEF SwapNext

\* The invariant is what the buyer relies on.
LEMMA SwapMeans == SwapInv => SwapSafe
  <1>. SUFFICES ASSUME SwapInv PROVE SwapSafe
    OBVIOUS
  <1>1. usdc \in 0 .. quotes
    <2>1. Converted \subseteq 1 .. quotes /\ unpaid \subseteq Quotes /\ quotes \in Nat /\ usdc \in Nat
      BY DEF Converted, SwapInv, SwapTypes, Quotes
    <2>2. IsFiniteSet(1 .. quotes) /\ Cardinality(1 .. quotes) = quotes
      BY <2>1, FS_Interval
    <2>3. Cardinality(Converted) <= quotes /\ Cardinality(unpaid) \in Nat /\ Cardinality(Converted) \in Nat
      BY <2>1, <2>2, FS_Subset, FS_CardinalityType, SwapConstants
    <2>. QED BY <2>1, <2>3 DEF SwapInv, MoneyConverted
  <1>2. SwapTypeOK
    BY <1>1, OneTab DEF SwapTypeOK, SwapInv, SwapTypes
  <1>3. DepositRemembered
    BY DEF SwapInv, OpenStored, DepositRemembered
  <1>4. ConversionFirst
    BY DEF SwapInv, Told, ConversionFirst
  <1>. QED BY <1>2, <1>3, <1>4 DEF SwapSafe

-----------------------------------------------------------------------------
(* The device session. *)

Updates == {"none", "clear", "suspend", "posting"}
Waiting == {"clear", "suspend"}     \* for the store
WorkOps == {"idle", "reading", "checking", "revising", "saving", "confirming", "authorizing"}
PlayerOps == {"off", "reading", "checking", "asking", "idle"}
HasRead == {"checking", "asking", "idle"}
WorkRecords == [op : WorkOps, gen : Nat, rev : Nat, key : Nat, listens : BOOLEAN]
Players == [on : BOOLEAN, op : PlayerOps, gen : Nat, rev : Nat, key : Nat, early : BOOLEAN]
ScreenRecords ==
    [gen : Nat, observed : Nat \cup {Undefined}, watches : BOOLEAN, update : Updates, updated : Nat,
     work : WorkRecords, player : Players]

SessionTypes ==
    /\ browser \in Browsers
    /\ store \in [revision : Nat, key : Nat, valid : BOOLEAN]
    /\ screen \in [Screens -> ScreenRecords]
    /\ news \in [Screens -> SUBSET (1 .. store.revision)]
    /\ devices \subseteq 1 .. made /\ orders \subseteq 1 .. made
    /\ made \in 0 .. MaxKeysMade /\ store.key <= made
    /\ born \in [1 .. MaxKeysMade -> 0 .. store.revision]
    /\ cleared \in 0 .. store.revision

\* Every revision was asked for; an update that waits for the store has not had its own yet.
Unstored == {t \in Screens : screen[t].update \in Waiting}
UpdatesCounted ==
    /\ updates \in Nat /\ updates <= browser.updates
    /\ IsFiniteSet(Unstored) /\ store.revision + Cardinality(Unstored) <= updates

\* A market device prepared after the last logout is the browser's.
KeyHolds(k) == byMarket /\ born[k] >= cleared => store.key = k

\* What a tab's preparation has in hand.
WorkHolds(w) ==
    /\ w.op = "checking" => w.key <= made
    /\ w.op = "saving" => w.key \in 1 .. made /\ born[w.key] = w.rev
    /\ w.op \in {"confirming", "authorizing"} => w.key \in 1 .. made
    /\ w.op = "authorizing" => KeyHolds(w.key)

\* The tab will hear of this revision.
Coming(r, unread) == r \in unread \/ \E u \in Screens : screen[u].update = "posting" /\ screen[u].updated = r

\* A player plays by the last revision its tab has seen, and will hear of every later one.
PlayerHolds(s, unread) ==
    s.player.op \in HasRead =>
        /\ s.watches /\ s.observed # Undefined
        /\ ~s.player.early =>
             /\ s.player.rev = s.observed
             /\ s.update \notin Waiting
             /\ s.update = "posting" => s.updated <= s.player.rev
        /\ \A r \in 1 .. store.revision : r > s.observed => Coming(r, unread)

ScreenHolds(s, unread) ==
    /\ s.observed <= store.revision
    /\ s.update = "posting" => s.updated \in 1 .. store.revision
    /\ WorkHolds(s.work)
    /\ PlayerHolds(s, unread)

SessionInv ==
    /\ SessionTypes
    /\ UpdatesCounted
    /\ LogoutHolds
    /\ \A k \in devices \cup orders : KeyHolds(k)
    /\ \A t \in Screens : ScreenHolds(screen[t], news[t])

-----------------------------------------------------------------------------
\* The bounds are numbers.
LEMMA SessionConstants == MaxKeysMade \in Nat /\ \A b \in Browsers : b.updates \in Nat
  BY SessionAssumption

\* The larger of two numbers...
LEMMA MaxOfTwo ==
    ASSUME NEW a \in Int, NEW b \in Int
    PROVE  Max({a, b}) = IF a >= b THEN a ELSE b
  <1>. DEFINE m == IF a >= b THEN a ELSE b
  <1>1. m \in {a, b} /\ \A y \in {a, b} : m >= y
    OBVIOUS
  <1>2. \A x \in {a, b} : (\A y \in {a, b} : x >= y) => x = m
    OBVIOUS
  <1>. QED BY <1>1, <1>2 DEF Max

\* ... and of three.
LEMMA MaxOfThree ==
    ASSUME NEW a \in Int, NEW b \in Int, NEW c \in Int
    PROVE  /\ Max({a, b, c}) \in {a, b, c}
           /\ Max({a, b, c}) >= a /\ Max({a, b, c}) >= b /\ Max({a, b, c}) >= c
  <1>1. PICK x \in {a, b, c} : \A y \in {a, b, c} : x >= y
    <2>1. CASE a >= b /\ a >= c
      BY <2>1
    <2>2. CASE b >= a /\ b >= c
      BY <2>2
    <2>3. CASE c >= a /\ c >= b
      BY <2>3
    <2>. QED BY <2>1, <2>2, <2>3
  <1>. QED BY <1>1 DEF Max

\* At first no session is stored and no tab has read anything.
LEMMA InitSession == SessionInit => SessionInv
  <1>. SUFFICES ASSUME SessionInit PROVE SessionInv
    OBVIOUS
  <1>1. Cold \in ScreenRecords /\ Cold.update = "none" /\ Cold.observed = -1 /\ Cold.work.op = "idle" /\ Cold.player.op = "off"
    BY DEF Cold, NoWork, NoPlayer, ScreenRecords, WorkRecords, Players, WorkOps, PlayerOps, Updates, Undefined
  <1>2. SessionTypes
    <2>1. screen \in [Screens -> ScreenRecords]
      BY <1>1 DEF SessionInit
    <2>2. news \in [Screens -> SUBSET (1 .. store.revision)]
      BY DEF SessionInit
    <2>3. store \in [revision : Nat, key : Nat, valid : BOOLEAN] /\ store.revision = 0 /\ store.key = 0
      BY DEF SessionInit
    <2>. QED BY <2>1, <2>2, <2>3, SessionConstants DEF SessionInit, SessionTypes
  <1>3. UpdatesCounted
    <2>1. Unstored = {}
      BY <1>1 DEF SessionInit, Unstored, Waiting
    <2>2. browser.updates \in Nat
      BY SessionConstants DEF SessionInit
    <2>. QED BY <2>1, <2>2, FS_EmptySet DEF SessionInit, UpdatesCounted
  <1>4. \A t \in Screens : ScreenHolds(screen[t], news[t])
    BY <1>1 DEF SessionInit, ScreenHolds, WorkHolds, PlayerHolds, HasRead
  <1>. QED BY <1>2, <1>3, <1>4 DEF SessionInv, SessionInit, LogoutHolds

\* What the invariant says of one tab.
LEMMA OneScreen ==
    ASSUME SessionInv, NEW t \in Screens
    PROVE  /\ screen[t] \in ScreenRecords /\ ScreenHolds(screen[t], news[t])
           /\ screen[t].work \in WorkRecords /\ screen[t].player \in Players
           /\ screen[t].gen \in Nat /\ screen[t].observed \in Nat \cup {-1} /\ screen[t].watches \in BOOLEAN
           /\ screen[t].update \in Updates /\ screen[t].updated \in Nat
           /\ news[t] \subseteq 1 .. store.revision
           /\ store.revision \in Nat /\ store.key \in Nat /\ store.valid \in BOOLEAN /\ made \in Nat
  BY DEF SessionInv, SessionTypes, ScreenRecords, Undefined

\* One tab moves; the store, the market and the other tabs' news do not.
LEMMA ScreenMoves ==
    ASSUME SessionInv, NEW t \in Screens, NEW s \in ScreenRecords,
           screen' = [screen EXCEPT ![t] = s],
           UNCHANGED <<browser, store, news, devices, made, born, cleared>>,
           ScreenHolds(s, news[t]),
           orders' \subseteq orders \cup {k \in 1 .. made : KeyHolds(k)},
           \/ s.update = screen[t].update /\ s.updated = screen[t].updated /\ updates' = updates
           \/ /\ screen[t].update = "none" /\ s.update \in Waiting
              /\ updates < browser.updates /\ updates' = updates + 1
    PROVE  SessionInv'
  <1>1. \A u \in Screens : screen'[u] = IF u = t THEN s ELSE screen[u]
    BY DEF SessionInv, SessionTypes
  <1>2. SessionTypes'
    BY DEF SessionInv, SessionTypes
  <1>3. UpdatesCounted'
    <2>0. /\ updates \in Nat /\ updates <= browser.updates /\ browser.updates \in Nat
          /\ IsFiniteSet(Unstored) /\ store.revision + Cardinality(Unstored) <= updates
          /\ store.revision \in Nat
      BY SessionConstants DEF SessionInv, SessionTypes, UpdatesCounted
    <2>1. CASE s.update = screen[t].update /\ updates' = updates
      <3>1. Unstored' = Unstored
        BY <1>1, <2>1 DEF Unstored
      <3>. QED BY <2>0, <2>1, <3>1 DEF UpdatesCounted
    <2>2. CASE screen[t].update = "none" /\ s.update \in Waiting /\ updates < browser.updates /\ updates' = updates + 1
      <3>1. Unstored' = Unstored \cup {t} /\ t \notin Unstored
        BY <1>1, <2>2 DEF Unstored, Waiting
      <3>2. /\ IsFiniteSet(Unstored') /\ Cardinality(Unstored') = Cardinality(Unstored) + 1
            /\ Cardinality(Unstored) \in Nat
        BY <2>0, <3>1, FS_AddElement, FS_CardinalityType
      <3>. QED BY <2>0, <2>2, <3>2 DEF UpdatesCounted
    <2>. QED BY <2>1, <2>2
  <1>4. \A k : KeyHolds(k) => KeyHolds(k)'
    BY DEF KeyHolds, byMarket
  <1>5. \A r, n : Coming(r, n) => Coming(r, n)'
    <2>. SUFFICES ASSUME NEW r, NEW u \in Screens, screen[u].update = "posting", screen[u].updated = r
                  PROVE  screen'[u].update = "posting" /\ screen'[u].updated = r
      BY DEF Coming
    <2>. QED BY <1>1 DEF Waiting
  <1>6. \A p \in ScreenRecords : \A n : ScreenHolds(p, n) => ScreenHolds(p, n)'
    <2>1. \A w : WorkHolds(w) => WorkHolds(w)'
      BY <1>4 DEF WorkHolds
    <2>2. \A p, n : PlayerHolds(p, n) => PlayerHolds(p, n)'
      BY <1>5 DEF PlayerHolds
    <2>. QED BY <2>1, <2>2 DEF ScreenHolds
  <1>7. \A u \in Screens : ScreenHolds(screen[u], news[u])'
    <2>1. \A u \in Screens : screen'[u] \in ScreenRecords /\ ScreenHolds(screen'[u], news[u])
      BY <1>1 DEF SessionInv, SessionTypes
    <2>. SUFFICES ASSUME NEW u \in Screens PROVE ScreenHolds(screen[u], news[u])'
      OBVIOUS
    <2>2. PICK p \in ScreenRecords : p = screen'[u]
      BY <2>1
    <2>3. PICK n : n = news[u]
      OBVIOUS
    <2>4. ScreenHolds(p, n)'
      BY <1>6, <2>1, <2>2, <2>3
    <2>. QED BY <2>2, <2>3, <2>4 DEF ScreenHolds, PlayerHolds, WorkHolds, Coming
  <1>8. \A k \in devices' \cup orders' : KeyHolds(k)'
    BY <1>4 DEF SessionInv
  <1>9. LogoutHolds'
    BY DEF SessionInv, LogoutHolds
  <1>. QED BY <1>2, <1>3, <1>7, <1>8, <1>9 DEF SessionInv

\* A tab that reads the store has seen its revision: if it is a new one, its player has stopped.
LEMMA ReadsStore ==
    ASSUME SessionInv, NEW t \in Screens, NEW s, s = readStored(screen[t])
    PROVE  /\ s \in ScreenRecords /\ ScreenHolds(s, news[t])
           /\ s.watches /\ s.observed = store.revision /\ s.gen = screen[t].gen
           /\ s.update = screen[t].update /\ s.updated = screen[t].updated
           /\ s.work = screen[t].work \/ s.work = NoWork
           /\ s.player = screen[t].player \/ s.player = NoPlayer
           /\ s.player # screen[t].player => screen[t].observed # Undefined /\ store.revision > screen[t].observed
  <1>. PICK c \in ScreenRecords : c = screen[t]
    BY OneScreen
  <1>0. /\ c.observed \in Nat \cup {-1} /\ c.observed <= store.revision /\ store.revision \in Nat
        /\ c.work \in WorkRecords /\ c.player \in Players
    BY OneScreen DEF ScreenHolds
  <1>1. Max({c.observed, store.revision}) = store.revision
    BY <1>0, MaxOfTwo
  <1>2. PICK seen \in ScreenRecords : seen = [c EXCEPT !.watches = TRUE, !.observed = store.revision]
    BY <1>0 DEF ScreenRecords
  <1>3. NoWork \in WorkRecords /\ NoPlayer \in Players
    BY DEF NoWork, NoPlayer, WorkRecords, Players, WorkOps, PlayerOps
  <1>4. PICK stopped \in ScreenRecords :
          stopped = [seen EXCEPT !.player = NoPlayer, !.work = IF c.work.listens THEN NoWork ELSE c.work]
    BY <1>0, <1>2, <1>3 DEF ScreenRecords
  <1>5. s = IF c.observed # Undefined /\ store.revision > c.observed THEN stopped ELSE seen
    <2>1. [watchSessionChanges(c) EXCEPT !.observed = Max({c.observed, store.revision})] = seen
      BY <1>1, <1>2 DEF watchSessionChanges
    <2>2. listenersRun(seen) = stopped
      BY <1>2, <1>4 DEF listenersRun
    <2>3. [watchSessionChanges(c) EXCEPT !.observed = Max({@, store.revision})]
            = [watchSessionChanges(c) EXCEPT !.observed = Max({c.observed, store.revision})]
      BY DEF watchSessionChanges
    <2>. QED BY <2>1, <2>2, <2>3 DEF readStored
  <1>6. /\ s \in ScreenRecords
        /\ s.watches /\ s.observed = store.revision /\ s.gen = screen[t].gen
        /\ s.update = screen[t].update /\ s.updated = screen[t].updated
        /\ s.work = screen[t].work \/ s.work = NoWork
        /\ s.player = screen[t].player \/ s.player = NoPlayer
        /\ s.player # screen[t].player => screen[t].observed # Undefined /\ store.revision > screen[t].observed
    BY <1>2, <1>4, <1>5 DEF ScreenRecords
  <1>7. ScreenHolds(c, news[t])
    BY OneScreen
  <1>8. WorkHolds(s.work)
    BY <1>6, <1>7 DEF ScreenHolds, WorkHolds, NoWork
  <1>9. PlayerHolds(s, news[t])
    <2>. SUFFICES ASSUME s.player.op \in HasRead PROVE PlayerHolds(s, news[t])
      BY DEF PlayerHolds
    <2>1. c.player.op \in HasRead /\ s.player = c.player
      BY <1>6 DEF NoPlayer, HasRead
    <2>2. c.observed # Undefined
      BY <1>7, <2>1 DEF ScreenHolds, PlayerHolds
    <2>3. s = seen /\ c.observed = store.revision
      <3>1. ~(store.revision > c.observed)
        BY <1>4, <1>5, <2>1, <2>2 DEF NoPlayer, HasRead, ScreenRecords
      <3>. QED BY <1>0, <1>5, <2>2, <3>1 DEF Undefined
    <2>. QED BY <1>0, <1>6, <1>7, <2>1, <2>3 DEF ScreenHolds, PlayerHolds, Undefined
  <1>. QED BY <1>0, <1>6, <1>7, <1>8, <1>9 DEF ScreenHolds

\* A tab that stops its players, and the preparation that listens.
LEMMA Invalidates ==
    ASSUME NEW c \in ScreenRecords, NEW s, s = invalidate(c)
    PROVE  /\ s \in ScreenRecords /\ s.player = NoPlayer /\ s.gen = c.gen + 1
           /\ s.work = c.work \/ s.work = NoWork
           /\ s.observed = c.observed /\ s.watches = c.watches /\ s.update = c.update /\ s.updated = c.updated
  <1>1. NoWork \in WorkRecords /\ NoPlayer \in Players
    BY DEF NoWork, NoPlayer, WorkRecords, Players, WorkOps, PlayerOps
  <1>0. c.gen + 1 \in Nat
    BY DEF ScreenRecords
  <1>2. PICK d \in ScreenRecords : d = [c EXCEPT !.gen = c.gen + 1]
    BY <1>0 DEF ScreenRecords
  <1>3. s = [d EXCEPT !.player = NoPlayer, !.work = IF d.work.listens THEN NoWork ELSE d.work]
    BY <1>2 DEF invalidate, listenersRun
  <1>. QED BY <1>1, <1>2, <1>3 DEF ScreenRecords

\* Without a player there is nothing to hear of.
LEMMA NoPlayerHolds == ASSUME NEW s, NEW n, s.player = NoPlayer PROVE PlayerHolds(s, n)
  BY DEF NoPlayer, PlayerHolds, HasRead

\* Without a preparation nothing is in hand.
LEMMA NoWorkHolds == WorkHolds(NoWork)
  BY DEF NoWork, WorkHolds

\* Only the preparation of a tab moves.
LEMMA WorkMoves ==
    ASSUME SessionInv, NEW t \in Screens, NEW w \in WorkRecords, WorkHolds(w), Works(t, w),
           UNCHANGED <<browser, store, news, devices, made, updates, born, cleared>>,
           orders' \subseteq orders \cup {k \in 1 .. made : KeyHolds(k)}
    PROVE  SessionInv'
  <1>. DEFINE s == [screen[t] EXCEPT !.work = w]
  <1>1. /\ s \in ScreenRecords /\ s.work = w /\ s.player = screen[t].player /\ s.observed = screen[t].observed
        /\ s.watches = screen[t].watches /\ s.update = screen[t].update /\ s.updated = screen[t].updated
    BY OneScreen DEF ScreenRecords
  <1>2. ScreenHolds(s, news[t])
    BY <1>1, OneScreen DEF ScreenHolds, PlayerHolds
  <1>3. screen' = [screen EXCEPT ![t] = s]
    BY DEF Works, SessionInv, SessionTypes
  <1>. QED BY <1>1, <1>2, <1>3, ScreenMoves

\* Only the player of a tab moves.
LEMMA PlayerMoves ==
    ASSUME SessionInv, NEW t \in Screens, NEW p \in Players, Plays(t, p),
           p.op \in HasRead => screen[t].player.op \in HasRead /\ p.rev = screen[t].player.rev /\ p.early = screen[t].player.early,
           UNCHANGED <<browser, store, news, devices, orders, made, updates, born, cleared>>
    PROVE  SessionInv'
  <1>. DEFINE s == [screen[t] EXCEPT !.player = p]
  <1>1. /\ s \in ScreenRecords /\ s.work = screen[t].work /\ s.player = p /\ s.observed = screen[t].observed
        /\ s.watches = screen[t].watches /\ s.update = screen[t].update /\ s.updated = screen[t].updated
    BY OneScreen DEF ScreenRecords
  <1>2. ScreenHolds(s, news[t])
    BY <1>1, OneScreen DEF ScreenHolds, PlayerHolds
  <1>3. screen' = [screen EXCEPT ![t] = s]
    BY DEF Plays, SessionInv, SessionTypes
  <1>. QED BY <1>1, <1>2, <1>3, ScreenMoves

\* A logout or switch begins: the tab's own players stop.
LEMMA UpdateBegins ==
    ASSUME SessionInv, NEW t \in Screens, NEW clear \in BOOLEAN, updateDeviceSession(t, clear)
    PROVE  SessionInv'
  <1>1. PICK c : c = invalidate(screen[t])
    OBVIOUS
  <1>2. PICK update \in Waiting : update = IF clear THEN "clear" ELSE "suspend"
    BY DEF Waiting
  <1>. DEFINE s == [c EXCEPT !.update = update]
  <1>3. /\ c \in ScreenRecords /\ c.player = NoPlayer
        /\ c.work = screen[t].work \/ c.work = NoWork
        /\ c.observed = screen[t].observed
    BY <1>1, OneScreen, Invalidates
  <1>4. s \in ScreenRecords /\ s.player = NoPlayer /\ s.work = c.work /\ s.observed = screen[t].observed /\ s.update = update
    BY <1>1, <1>3, OneScreen, Invalidates DEF ScreenRecords, Waiting, Updates
  <1>5. ScreenHolds(s, news[t])
    <2>1. WorkHolds(s.work)
      BY <1>1, <1>4, OneScreen, Invalidates, NoWorkHolds DEF ScreenHolds
    <2>. QED BY <1>4, <2>1, OneScreen, NoPlayerHolds DEF ScreenHolds, Waiting
  <1>6. /\ screen' = [screen EXCEPT ![t] = s] /\ screen[t].update = "none"
        /\ updates < browser.updates /\ updates' = updates + 1
        /\ UNCHANGED <<browser, store, news, devices, orders, made, born, cleared>>
    BY <1>1, <1>2 DEF updateDeviceSession, SessionInv, SessionTypes
  <1>. QED BY <1>4, <1>5, <1>6, ScreenMoves

\* The store has a new revision.
LEMMA UpdateStored ==
    ASSUME SessionInv, NEW t \in Screens, updateCommits(t)
    PROVE  SessionInv'
  <1>. PICK r \in Nat : r = store.revision + 1
    BY OneScreen
  <1>. PICK clears \in BOOLEAN : clears = (screen[t].update = "clear")
    OBVIOUS
  <1>. DEFINE s == [screen[t] EXCEPT !.update = "posting", !.updated = r]
  <1>1. /\ screen[t].update \in Waiting
        /\ UNCHANGED <<browser, news, devices, orders, made, updates, born>>
        /\ store' = [store EXCEPT !.revision = r, !.key = IF clears THEN 0 ELSE store.key,
                                  !.valid = IF clears THEN TRUE ELSE store.valid]
        /\ cleared' = IF clears THEN r ELSE cleared
        /\ screen' = [screen EXCEPT ![t] = s]
    BY DEF updateCommits, Waiting, SessionInv, SessionTypes
  <1>2. /\ store \in [revision : Nat, key : Nat, valid : BOOLEAN] /\ store.revision \in Nat /\ cleared \in 0 .. store.revision
        /\ made \in Nat /\ made <= MaxKeysMade /\ store.key <= made /\ store.key \in Nat /\ MaxKeysMade \in Nat
        /\ born \in [1 .. MaxKeysMade -> 0 .. store.revision]
        /\ devices \subseteq 1 .. made /\ orders \subseteq 1 .. made
    BY SessionConstants DEF SessionInv, SessionTypes
  <1>3. /\ store' \in [revision : Nat, key : Nat, valid : BOOLEAN] /\ store'.revision = r
        /\ store'.key = IF clears THEN 0 ELSE store.key
    <2>. PICK k \in Nat, valid \in BOOLEAN :
            k = (IF clears THEN 0 ELSE store.key) /\ valid = (IF clears THEN TRUE ELSE store.valid)
      BY <1>2
    <2>1. store' = [store EXCEPT !.revision = r, !.key = k, !.valid = valid]
      BY <1>1
    <2>. QED BY <1>2, <2>1
  <1>4. /\ s \in ScreenRecords /\ s.update = "posting" /\ s.updated = r /\ s.work = screen[t].work
        /\ s.player = screen[t].player /\ s.observed = screen[t].observed /\ s.watches = screen[t].watches
    BY <1>2, OneScreen DEF ScreenRecords, Updates
  <1>5. \A u \in Screens : screen'[u] = IF u = t THEN s ELSE screen[u]
    BY <1>1 DEF SessionInv, SessionTypes
  <1>. HIDE DEF s
  <1>6. SessionTypes'
    <2>1. screen' \in [Screens -> ScreenRecords]
      BY <1>1, <1>4 DEF SessionInv, SessionTypes
    <2>2. news' \in [Screens -> SUBSET (1 .. store'.revision)]
      <3>1. 1 .. store.revision \subseteq 1 .. store'.revision
        BY <1>2, <1>3
      <3>. QED BY <1>1, <3>1 DEF SessionInv, SessionTypes
    <2>3. born' \in [1 .. MaxKeysMade -> 0 .. store'.revision]
      <3>1. 0 .. store.revision \subseteq 0 .. store'.revision
        BY <1>2, <1>3
      <3>. QED BY <1>1, <1>2, <3>1
    <2>4. cleared' \in 0 .. store'.revision /\ store'.key <= made'
      BY <1>1, <1>2, <1>3
    <2>. QED BY <1>1, <1>3, <2>1, <2>2, <2>3, <2>4 DEF SessionInv, SessionTypes
  <1>7. UpdatesCounted'
    <2>1. Unstored' = Unstored \ {t} /\ t \in Unstored
      BY <1>1, <1>4, <1>5 DEF Unstored, Waiting
    <2>2. IsFiniteSet(Unstored') /\ Cardinality(Unstored') = Cardinality(Unstored) - 1 /\ Cardinality(Unstored) \in Nat
      BY <2>1, FS_RemoveElement, FS_CardinalityType DEF SessionInv, UpdatesCounted
    <2>. QED BY <1>1, <1>2, <1>3, <2>2 DEF SessionInv, UpdatesCounted
  <1>8. \A k \in 1 .. made : KeyHolds(k) => KeyHolds(k)'
    <2>. SUFFICES ASSUME NEW k \in 1 .. made, KeyHolds(k), byMarket', born'[k] >= cleared' PROVE store'.key = k
      BY DEF KeyHolds
    <2>1. born[k] \in 0 .. store.revision
      BY <1>2
    <2>. QED BY <1>1, <1>2, <1>3, <2>1 DEF KeyHolds, byMarket
  <1>9. LogoutHolds'
    <2>1. store'.key # 0 => store'.key = store.key /\ ~clears
      BY <1>3
    <2>. QED BY <1>1, <2>1 DEF SessionInv, LogoutHolds
  <1>10. \A q, n : Coming(q, n) => Coming(q, n)'
    <2>. SUFFICES ASSUME NEW q, NEW u \in Screens, screen[u].update = "posting", screen[u].updated = q
                  PROVE  screen'[u].update = "posting" /\ screen'[u].updated = q
      BY DEF Coming
    <2>. QED BY <1>1, <1>5 DEF Waiting
  <1>11. \A n : Coming(r, n)'
    BY <1>4, <1>5 DEF Coming
  <1>12. \A u \in Screens : ScreenHolds(screen[u], news[u])'
    <2>. SUFFICES ASSUME NEW u \in Screens PROVE ScreenHolds(screen[u], news[u])'
      OBVIOUS
    <2>1. /\ screen'[u].observed = screen[u].observed /\ screen'[u].work = screen[u].work
          /\ screen'[u].player = screen[u].player /\ screen'[u].watches = screen[u].watches
      BY <1>4, <1>5
    <2>2. WorkHolds(screen[u].work)'
      <3>1. PICK w \in WorkRecords : w = screen[u].work /\ WorkHolds(w)
        BY OneScreen DEF ScreenHolds
      <3>2. WorkHolds(w)'
        BY <1>1, <1>8, <3>1 DEF WorkHolds
      <3>. QED BY <2>1, <3>1, <3>2 DEF WorkHolds
    <2>3. screen'[u].observed <= store'.revision
      BY <1>2, <1>3, <2>1, OneScreen DEF ScreenHolds
    <2>4. screen'[u].update = "posting" => screen'[u].updated \in 1 .. store'.revision
      BY <1>2, <1>3, <1>4, <1>5, OneScreen DEF ScreenHolds
    <2>5. PlayerHolds(screen[u], news[u])'
      <3>. SUFFICES ASSUME screen'[u].player.op \in HasRead PROVE PlayerHolds(screen[u], news[u])'
        BY DEF PlayerHolds
      <3>1. screen[u].player.op \in HasRead /\ PlayerHolds(screen[u], news[u])
        BY <2>1, OneScreen DEF ScreenHolds
      <3>2. \A q \in 1 .. store'.revision : q > screen[u].observed => Coming(q, news[u])'
        <4>. SUFFICES ASSUME NEW q \in 1 .. store'.revision, q > screen[u].observed PROVE Coming(q, news[u])'
          OBVIOUS
        <4>1. q = r \/ q \in 1 .. store.revision
          BY <1>2, <1>3
        <4>2. PICK n : n = news[u]
          OBVIOUS
        <4>3. Coming(q, n)'
          BY <1>10, <1>11, <3>1, <4>1, <4>2 DEF PlayerHolds
        <4>. QED BY <1>1, <4>2, <4>3 DEF Coming
      <3>3. u = t => screen[u].player.early
        BY <1>1, <3>1 DEF PlayerHolds
      <3>. QED BY <1>5, <2>1, <3>1, <3>2, <3>3 DEF PlayerHolds
    <2>. QED BY <2>2, <2>3, <2>4, <2>5 DEF ScreenHolds
  <1>13. \A k \in devices' \cup orders' : KeyHolds(k)'
    BY <1>1, <1>2, <1>8 DEF SessionInv
  <1>. QED BY <1>6, <1>7, <1>9, <1>12, <1>13 DEF SessionInv

\* The tabs and what they are told move, the store and the market do not.
LEMMA NewsMoves ==
    ASSUME SessionInv, NEW t \in Screens, NEW s \in ScreenRecords,
           screen' = [screen EXCEPT ![t] = s],
           UNCHANGED <<browser, store, devices, orders, made, updates, born, cleared>>,
           news' \in [Screens -> SUBSET (1 .. store.revision)],
           s.update \in Waiting <=> screen[t].update \in Waiting,
           s.observed <= store.revision, s.update = "posting" => s.updated \in 1 .. store.revision,
           WorkHolds(s.work), PlayerHolds(s, news[t])',
           \A u \in Screens \ {t} : screen[u].player.op \in HasRead =>
               \A r \in 1 .. store.revision : r > screen[u].observed => Coming(r, news[u])'
    PROVE  SessionInv'
  <1>1. \A u \in Screens : screen'[u] = IF u = t THEN s ELSE screen[u]
    BY DEF SessionInv, SessionTypes
  <1>2. SessionTypes'
    BY DEF SessionInv, SessionTypes
  <1>3. UpdatesCounted'
    <2>1. Unstored' = Unstored
      BY <1>1 DEF Unstored
    <2>. QED BY <2>1 DEF SessionInv, UpdatesCounted
  <1>4. \A k : KeyHolds(k) => KeyHolds(k)'
    BY DEF KeyHolds, byMarket
  <1>5. \A w \in WorkRecords : WorkHolds(w) => WorkHolds(w)'
    BY <1>4 DEF WorkHolds
  <1>6. \A u \in Screens : ScreenHolds(screen[u], news[u])'
    <2>. SUFFICES ASSUME NEW u \in Screens PROVE ScreenHolds(screen[u], news[u])'
      OBVIOUS
    <2>1. CASE u = t
      <3>1. screen'[u] = s
        BY <1>1, <2>1
      <3>2. WorkHolds(s.work)'
        <4>1. s.work \in WorkRecords
          BY DEF ScreenRecords
        <4>2. PICK w \in WorkRecords : w = s.work
          BY <4>1
        <4>. QED BY <1>5, <4>2 DEF WorkHolds
      <3>. QED BY <2>1, <3>1, <3>2 DEF ScreenHolds, PlayerHolds, WorkHolds, Coming
    <2>2. CASE u # t
      <3>1. screen'[u] = screen[u] /\ ScreenHolds(screen[u], news[u]) /\ screen[u].work \in WorkRecords
        BY <1>1, <2>2, OneScreen
      <3>2. WorkHolds(screen[u].work)'
        <4>1. PICK w \in WorkRecords : w = screen[u].work
          BY <3>1
        <4>. QED BY <1>5, <3>1, <4>1 DEF WorkHolds, ScreenHolds
      <3>3. PlayerHolds(screen[u], news[u])'
        BY <2>2, <3>1 DEF ScreenHolds, PlayerHolds, Coming
      <3>. QED BY <3>1, <3>2, <3>3 DEF ScreenHolds
    <2>. QED BY <2>1, <2>2
  <1>7. \A k \in devices' \cup orders' : KeyHolds(k)'
    BY <1>4 DEF SessionInv
  <1>8. LogoutHolds'
    BY DEF SessionInv, LogoutHolds
  <1>. QED BY <1>2, <1>3, <1>6, <1>7, <1>8 DEF SessionInv

\* The other tabs are told of the update.
LEMMA UpdatePosted ==
    ASSUME SessionInv, NEW t \in Screens, postRevision(t)
    PROVE  SessionInv'
  <1>. PICK c \in ScreenRecords : c = screen[t] /\ ScreenHolds(c, news[t])
    BY OneScreen
  <1>0. /\ c.update = "posting" /\ c.updated \in 1 .. store.revision /\ c.updated \in Nat /\ store.revision \in Nat
        /\ c.observed \in Nat \cup {-1} /\ c.observed <= store.revision /\ c.work \in WorkRecords /\ c.player \in Players
    BY OneScreen DEF postRevision, ScreenHolds
  <1>1. PICK m \in Nat : m = Max({c.observed, 0, c.updated})
                           /\ m \in {c.observed, 0, c.updated} /\ m >= c.observed /\ m >= c.updated
    <2>. PICK m : m = Max({c.observed, 0, c.updated})
      OBVIOUS
    <2>1. m \in {c.observed, 0, c.updated} /\ m >= c.observed /\ m >= 0 /\ m >= c.updated
      <3>. PICK a \in Int, b \in Int, z \in Int : a = c.observed /\ b = c.updated /\ z = 0
        BY <1>0
      <3>. QED BY MaxOfThree
    <2>2. m \in Nat
      BY <1>0, <2>1
    <2>. QED BY <2>1, <2>2
  <1>2. PICK s \in ScreenRecords :
          s = [c EXCEPT !.watches = TRUE, !.observed = m, !.update = "none", !.updated = 0]
    BY <1>0 DEF ScreenRecords, Updates
  <1>3. /\ s.watches /\ s.observed = m /\ s.update = "none" /\ s.work = c.work /\ s.player = c.player
    BY <1>2 DEF ScreenRecords
  <1>4. /\ screen' = [screen EXCEPT ![t] = s]
        /\ news' = [u \in Screens |-> IF u # t /\ screen[u].watches THEN news[u] \cup {c.updated} ELSE news[u]]
        /\ UNCHANGED <<browser, store, devices, orders, made, updates, born, cleared>>
    <2>. PICK w \in ScreenRecords : w = watchSessionChanges(c)
      BY DEF watchSessionChanges, ScreenRecords
    <2>1. w.observed = c.observed
      BY DEF watchSessionChanges, ScreenRecords
    <2>2. screen' = [screen EXCEPT ![t] =
             [w EXCEPT !.observed = Max({w.observed, 0, c.updated}), !.update = "none", !.updated = 0]]
      BY DEF postRevision
    <2>3. [w EXCEPT !.observed = m, !.update = "none", !.updated = 0] = s
      BY <1>2 DEF watchSessionChanges, ScreenRecords
    <2>. QED BY <1>1, <2>1, <2>2, <2>3 DEF postRevision
  <1>5. news' \in [Screens -> SUBSET (1 .. store.revision)]
    BY <1>0, <1>4, OneScreen
  <1>6. \A u \in Screens : screen'[u] = IF u = t THEN s ELSE screen[u]
    BY <1>4 DEF SessionInv, SessionTypes
  <1>7. ASSUME NEW u \in Screens, NEW n, NEW r, Coming(r, n), r # c.updated PROVE Coming(r, n)'
    BY <1>6, <1>7 DEF Coming
  <1>8. ASSUME NEW u \in Screens \ {t}, screen[u].player.op \in HasRead,
               NEW r \in 1 .. store.revision, r > screen[u].observed
        PROVE  Coming(r, news[u])'
    <2>1. PlayerHolds(screen[u], news[u])
      BY OneScreen DEF ScreenHolds
    <2>2. screen[u].watches /\ Coming(r, news[u])
      BY <1>8, <2>1 DEF PlayerHolds
    <2>3. PICK n : n = news'[u]
      OBVIOUS
    <2>4. CASE r = c.updated
      <3>1. r \in n
        BY <1>4, <2>2, <2>3, <2>4
      <3>. QED BY <2>3, <3>1 DEF Coming
    <2>5. CASE r # c.updated
      <3>1. news[u] \subseteq n
        BY <1>4, <2>3
      <3>2. Coming(r, n)
        BY <2>2, <3>1 DEF Coming
      <3>3. Coming(r, n)'
        BY <1>7, <2>5, <3>2
      <3>. QED BY <2>3, <3>3 DEF Coming
    <2>. QED BY <2>4, <2>5
  <1>9. PlayerHolds(s, news[t])'
    <2>. SUFFICES ASSUME s.player.op \in HasRead PROVE PlayerHolds(s, news[t])'
      BY DEF PlayerHolds
    <2>1. PlayerHolds(c, news[t]) /\ c.player.op \in HasRead
      BY <1>3 DEF ScreenHolds
    <2>2. ~c.player.early => c.player.rev = c.observed /\ c.updated <= c.observed /\ m = c.observed
      BY <1>0, <1>1, <2>1 DEF PlayerHolds
    <2>3. \A r \in 1 .. store.revision : r > m => Coming(r, news[t])'
      <3>. SUFFICES ASSUME NEW r \in 1 .. store.revision, r > m PROVE Coming(r, news[t])'
        OBVIOUS
      <3>1. r > c.observed /\ r # c.updated
        BY <1>0, <1>1
      <3>2. PICK n : n = news[t]
        OBVIOUS
      <3>3. Coming(r, n)'
        BY <1>7, <2>1, <3>1, <3>2 DEF PlayerHolds
      <3>4. news'[t] = n
        BY <1>4, <3>2
      <3>. QED BY <3>3, <3>4 DEF Coming
    <2>4. s.observed # Undefined
      BY <1>3 DEF Undefined
    <2>. QED BY <1>3, <1>4, <2>1, <2>2, <2>3, <2>4 DEF PlayerHolds, Waiting
  <1>10. WorkHolds(s.work) /\ s.observed <= store.revision
    BY <1>0, <1>1, <1>3 DEF ScreenHolds
  <1>. QED BY <1>0, <1>3, <1>4, <1>5, <1>8, <1>9, <1>10, NewsMoves DEF Waiting

\* A tab hears of an update: if it is news, its player stops.
LEMMA NewsHeard ==
    ASSUME SessionInv, NEW t \in Screens, onmessage(t)
    PROVE  SessionInv'
  <1>. PICK c \in ScreenRecords : c = screen[t] /\ ScreenHolds(c, news[t])
    BY OneScreen
  <1>. PICK data \in news[t] :
         /\ news' = [news EXCEPT ![t] = @ \ {data}]
         /\ screen' = [screen EXCEPT ![t] =
              IF data > Max({@.observed, 0}) THEN invalidate([@ EXCEPT !.observed = data]) ELSE @]
    BY DEF onmessage
  <1>0. /\ data \in 1 .. store.revision /\ data \in Nat /\ store.revision \in Nat
        /\ c.observed \in Nat \cup {-1} /\ c.observed <= store.revision /\ c.work \in WorkRecords
        /\ UNCHANGED <<browser, store, devices, orders, made, updates, born, cleared>>
    BY OneScreen DEF onmessage, ScreenHolds
  <1>1. Max({c.observed, 0}) = IF c.observed >= 0 THEN c.observed ELSE 0
    BY <1>0, MaxOfTwo
  <1>2. PICK d \in ScreenRecords : d = [c EXCEPT !.observed = data]
    BY <1>0 DEF ScreenRecords
  <1>3. PICK s : s = IF data > Max({c.observed, 0}) THEN invalidate(d) ELSE c
    OBVIOUS
  <1>4. screen' = [screen EXCEPT ![t] = s]
    BY <1>2, <1>3 DEF SessionInv, SessionTypes
  <1>5. /\ s \in ScreenRecords /\ s.update = c.update /\ s.updated = c.updated
        /\ s.work = c.work \/ s.work = NoWork
        /\ \/ s = c /\ data <= Max({c.observed, 0})
           \/ s.observed = data /\ s.player = NoPlayer
    <2>1. CASE data > Max({c.observed, 0})
      <3>1. s = invalidate(d) /\ d.update = c.update /\ d.updated = c.updated /\ d.observed = data /\ d.work = c.work
        BY <1>2, <1>3, <2>1 DEF ScreenRecords
      <3>. QED BY <3>1, Invalidates
    <2>2. CASE ~(data > Max({c.observed, 0}))
      BY <1>0, <1>1, <1>3, <2>2
    <2>. QED BY <2>1, <2>2
  <1>6. \A u \in Screens : screen'[u] = IF u = t THEN s ELSE screen[u]
    BY <1>4 DEF SessionInv, SessionTypes
  <1>7. \A r, n : Coming(r, n) => Coming(r, n)'
    BY <1>5, <1>6 DEF Coming
  <1>8. ASSUME NEW u \in Screens \ {t}, screen[u].player.op \in HasRead,
               NEW r \in 1 .. store.revision, r > screen[u].observed
        PROVE  Coming(r, news[u])'
    <2>1. Coming(r, news[u])
      BY <1>8, OneScreen DEF ScreenHolds, PlayerHolds
    <2>2. PICK n : n = news[u]
      OBVIOUS
    <2>3. news'[u] = n
      BY <2>2 DEF SessionInv, SessionTypes
    <2>. QED BY <1>7, <2>1, <2>2, <2>3 DEF Coming
  <1>9. PlayerHolds(s, news[t])'
    <2>. SUFFICES ASSUME s.player.op \in HasRead PROVE PlayerHolds(s, news[t])'
      BY DEF PlayerHolds
    <2>1. s = c /\ data <= Max({c.observed, 0}) /\ PlayerHolds(c, news[t])
      BY <1>5 DEF NoPlayer, HasRead, ScreenHolds
    <2>2. c.observed # Undefined /\ data <= c.observed
      BY <1>0, <1>1, <2>1 DEF PlayerHolds, Undefined
    <2>3. \A r \in 1 .. store.revision : r > c.observed => Coming(r, news[t])'
      <3>. SUFFICES ASSUME NEW r \in 1 .. store.revision, r > c.observed PROVE Coming(r, news[t])'
        OBVIOUS
      <3>1. Coming(r, news[t]) /\ r # data
        BY <1>0, <2>1, <2>2 DEF PlayerHolds
      <3>2. PICK n : n = news'[t]
        OBVIOUS
      <3>3. n = news[t] \ {data}
        BY <3>2 DEF SessionInv, SessionTypes
      <3>4. Coming(r, n)
        BY <3>1, <3>3 DEF Coming
      <3>. QED BY <1>7, <3>2, <3>4 DEF Coming
    <2>. QED BY <1>0, <2>1, <2>2, <2>3 DEF PlayerHolds
  <1>10. WorkHolds(s.work)
    BY <1>5, NoWorkHolds DEF ScreenHolds
  <1>11. s.observed <= store.revision /\ (s.update = "posting" => s.updated \in 1 .. store.revision)
    BY <1>0, <1>5 DEF ScreenHolds
  <1>12. news' \in [Screens -> SUBSET (1 .. store.revision)]
    BY DEF SessionInv, SessionTypes
  <1>. QED BY <1>0, <1>4, <1>5, <1>8, <1>9, <1>10, <1>11, <1>12, NewsMoves

\* The preparation begins, reads the store and checks what it read.
LEMMA PreparationKeeps ==
    ASSUME SessionInv, NEW t \in Screens,
           (\E listens \in BOOLEAN : prepareSession(t, listens)) \/ readsSession(t) \/ readValidDeviceSession(t)
    PROVE  SessionInv'
  <1>. PICK c \in ScreenRecords : c = screen[t] /\ ScreenHolds(c, news[t])
    BY OneScreen
  <1>0. /\ c.gen \in Nat /\ c.work \in WorkRecords /\ c.player \in Players /\ c.observed \in Nat \cup {-1}
        /\ store.revision \in Nat /\ store.key \in Nat /\ store.key <= made /\ NoWork \in WorkRecords
    BY OneScreen DEF SessionInv, SessionTypes, NoWork, WorkRecords, WorkOps
  <1>1. ASSUME NEW listens \in BOOLEAN, prepareSession(t, listens) PROVE SessionInv'
    <2>1. PICK w \in WorkRecords : w = [NoWork EXCEPT !.op = "reading", !.gen = c.gen, !.listens = listens]
      BY <1>0 DEF NoWork, WorkRecords, WorkOps
    <2>2. WorkHolds(w)
      BY <2>1 DEF WorkHolds, NoWork
    <2>. QED BY <1>1, <2>1, <2>2, WorkMoves DEF prepareSession
  <1>2. CASE readsSession(t)
    <2>1. PICK s : s = readStored(c)
      OBVIOUS
    <2>2. /\ s \in ScreenRecords /\ ScreenHolds(s, news[t]) /\ s.update = c.update /\ s.updated = c.updated
          /\ s.work \in WorkRecords
      BY <1>0, <2>1, ReadsStore
    <2>3. PICK w \in WorkRecords : w = [s.work EXCEPT !.op = "checking", !.rev = store.revision, !.key = store.key]
      BY <1>0, <2>2 DEF WorkRecords, WorkOps
    <2>4. PICK n \in ScreenRecords : n = [s EXCEPT !.work = w]
      BY <2>2 DEF ScreenRecords
    <2>5. ScreenHolds(n, news[t]) /\ n.update = c.update /\ n.updated = c.updated
      <3>1. WorkHolds(w)
        BY <1>0, <2>2, <2>3 DEF WorkHolds, WorkRecords
      <3>2. /\ n.work = w /\ n.player = s.player /\ n.observed = s.observed /\ n.watches = s.watches
            /\ n.update = s.update /\ n.updated = s.updated
        BY <2>2, <2>4 DEF ScreenRecords
      <3>. QED BY <2>2, <3>1, <3>2 DEF ScreenHolds, PlayerHolds
    <2>6. [s EXCEPT !.work.op = "checking", !.work.rev = store.revision, !.work.key = store.key] = n
      BY <2>2, <2>3, <2>4 DEF ScreenRecords, WorkRecords
    <2>7. PICK m \in {s, n} : screen' = [screen EXCEPT ![t] = m]
      BY <1>2, <2>1, <2>6 DEF readsSession, reads
    <2>. QED BY <1>2, <2>2, <2>5, <2>7, ScreenMoves DEF readsSession
  <1>3. CASE readValidDeviceSession(t)
    <2>. DEFINE same == c.work.gen = c.gen
    <2>0. /\ c.work.op = "checking" /\ c.update = "none" /\ WorkHolds(c.work)
          /\ UNCHANGED <<browser, store, news, devices, orders, made, born, cleared>>
      BY <1>3 DEF readValidDeviceSession, ScreenHolds
    <2>1. CASE /\ updates < browser.updates /\ updates' = updates + 1
               /\ reads(t, [invalidate(c) EXCEPT !.update = "clear",
                              !.work = IF c.work.listens THEN NoWork
                                       ELSE [c.work EXCEPT !.op = "revising", !.gen = c.gen + 1]])
      <3>1. PICK w \in WorkRecords :
              w = IF c.work.listens THEN NoWork ELSE [c.work EXCEPT !.op = "revising", !.gen = c.gen + 1]
        <4>1. c.gen + 1 \in Nat
          BY <1>0
        <4>. QED BY <1>0, <4>1 DEF WorkRecords, WorkOps
      <3>2. WorkHolds(w)
        BY <1>0, <3>1 DEF WorkHolds, NoWork, WorkRecords
      <3>3. PICK i \in ScreenRecords : i = invalidate(c) /\ i.player = NoPlayer /\ i.observed = c.observed
        BY Invalidates
      <3>4. PICK s \in ScreenRecords : s = [i EXCEPT !.update = "clear", !.work = w]
        BY DEF ScreenRecords, Updates
      <3>5. s.update = "clear" /\ s.work = w /\ s.player = NoPlayer /\ s.observed = c.observed
        BY <3>3, <3>4 DEF ScreenRecords
      <3>6. ScreenHolds(s, news[t])
        BY <3>2, <3>5, NoPlayerHolds DEF ScreenHolds
      <3>7. screen' = [screen EXCEPT ![t] = s]
        BY <2>1, <3>1, <3>3, <3>4 DEF reads
      <3>. QED BY <2>0, <2>1, <3>5, <3>6, <3>7, ScreenMoves DEF Waiting
    <2>2. CASE Works(t, NoWork) /\ UNCHANGED updates
      BY <1>0, <2>0, <2>2, NoWorkHolds, WorkMoves
    <2>3. CASE c.work.key # 0 /\ Works(t, [c.work EXCEPT !.op = "confirming"]) /\ UNCHANGED updates
      <3>1. PICK w \in WorkRecords : w = [c.work EXCEPT !.op = "confirming"]
        BY <1>0 DEF WorkRecords, WorkOps
      <3>2. w.key = c.work.key /\ w.key \in Nat /\ w.op = "confirming"
        BY <1>0, <3>1 DEF WorkRecords
      <3>3. WorkHolds(w)
        <4>1. w.key \in 1 .. made
          BY <2>0, <2>3, <3>2, OneScreen DEF WorkHolds
        <4>. QED BY <3>2, <4>1 DEF WorkHolds
      <3>. QED BY <2>0, <2>3, <3>1, <3>3, WorkMoves
    <2>4. CASE Works(t, [c.work EXCEPT !.op = "revising"]) /\ UNCHANGED updates
      <3>1. PICK w \in WorkRecords : w = [c.work EXCEPT !.op = "revising"]
        BY <1>0 DEF WorkRecords, WorkOps
      <3>2. WorkHolds(w)
        BY <1>0, <3>1 DEF WorkRecords, WorkHolds
      <3>. QED BY <2>0, <2>4, <3>1, <3>2, WorkMoves
    <2>. QED BY <1>3, <2>1, <2>2, <2>3, <2>4 DEF readValidDeviceSession, WorkAt
  <1>. QED BY <1>1, <1>2, <1>3

\* A key is made for the revision just read.
LEMMA KeyKeeps ==
    ASSUME SessionInv, NEW t \in Screens, makesKey(t)
    PROVE  SessionInv'
  <1>. PICK c \in ScreenRecords : c = screen[t] /\ ScreenHolds(c, news[t])
    BY OneScreen
  <1>0. /\ c.work \in WorkRecords /\ store.revision \in Nat /\ made \in 0 .. MaxKeysMade /\ made < MaxKeysMade
        /\ made \in Nat /\ MaxKeysMade \in Nat
        /\ UNCHANGED <<browser, store, news, devices, orders, updates, cleared>>
    BY OneScreen, SessionConstants DEF makesKey, SessionInv, SessionTypes
  <1>1. PICK s : s = readStored(c)
    OBVIOUS
  <1>2. /\ s \in ScreenRecords /\ ScreenHolds(s, news[t]) /\ s.update = c.update /\ s.updated = c.updated
        /\ s.work \in WorkRecords
    <2>1. NoWork \in WorkRecords
      BY DEF NoWork, WorkRecords, WorkOps
    <2>. QED BY <1>0, <1>1, <2>1, ReadsStore
  <1>3. CASE reads(t, s) /\ UNCHANGED <<made, born>>
    BY <1>0, <1>2, <1>3, ScreenMoves DEF reads
  <1>4. CASE /\ made' = made + 1 /\ born' = [born EXCEPT ![made + 1] = store.revision]
             /\ reads(t, [s EXCEPT !.work.op = "saving", !.work.rev = store.revision, !.work.key = made + 1])
    <2>0. made + 1 \in 1 .. MaxKeysMade /\ made + 1 \in Nat
      BY <1>0
    <2>1. PICK w \in WorkRecords : w = [s.work EXCEPT !.op = "saving", !.rev = store.revision, !.key = made + 1]
      BY <1>0, <1>2, <2>0 DEF WorkRecords, WorkOps
    <2>2. PICK n \in ScreenRecords : n = [s EXCEPT !.work = w]
      BY <1>2 DEF ScreenRecords
    <2>3. /\ n.work = w /\ n.player = s.player /\ n.observed = s.observed /\ n.watches = s.watches
          /\ n.update = c.update /\ n.updated = c.updated
      BY <1>2, <2>2 DEF ScreenRecords
    <2>4. [s EXCEPT !.work.op = "saving", !.work.rev = store.revision, !.work.key = made + 1] = n
      BY <1>2, <2>1, <2>2 DEF ScreenRecords, WorkRecords
    <2>5. screen' = [screen EXCEPT ![t] = n]
      BY <1>4, <2>4 DEF reads
    <2>6. /\ \A k \in 1 .. made : born'[k] = born[k] /\ k \in 1 .. made'
          /\ born'[made + 1] = store.revision /\ made + 1 \in 1 .. made'
          /\ born' \in [1 .. MaxKeysMade -> 0 .. store.revision]
      BY <1>0, <1>4, <2>0 DEF SessionInv, SessionTypes
    <2>7. \A k \in 1 .. made : KeyHolds(k) => KeyHolds(k)'
      BY <1>0, <2>6 DEF KeyHolds, byMarket
    <2>8. SessionTypes'
      <3>1. 1 .. made \subseteq 1 .. made'
        BY <1>0, <1>4
      <3>2. made' \in 0 .. MaxKeysMade /\ store.key <= made'
        BY <1>0, <1>4, OneScreen DEF SessionInv, SessionTypes
      <3>. QED BY <1>0, <2>5, <2>6, <3>1, <3>2 DEF SessionInv, SessionTypes
    <2>9. \A u \in Screens : screen'[u] = IF u = t THEN n ELSE screen[u]
      BY <2>5 DEF SessionInv, SessionTypes
    <2>10. UpdatesCounted'
      <3>1. Unstored' = Unstored
        BY <2>3, <2>9 DEF Unstored
      <3>. QED BY <1>0, <3>1 DEF SessionInv, UpdatesCounted
    <2>11. \A q, x : Coming(q, x) => Coming(q, x)'
      BY <2>3, <2>9 DEF Coming
    <2>12. \A p \in ScreenRecords : \A x : PlayerHolds(p, x) => PlayerHolds(p, x)'
      BY <1>0, <2>11 DEF PlayerHolds
    <2>13. \A v \in WorkRecords : WorkHolds(v) => WorkHolds(v)'
      <3>. SUFFICES ASSUME NEW v \in WorkRecords, WorkHolds(v) PROVE WorkHolds(v)'
        OBVIOUS
      <3>1. v.key <= made => v.key <= made'
        BY <1>0, <1>4 DEF WorkRecords
      <3>. QED BY <2>6, <2>7, <3>1 DEF WorkHolds
    <2>14. WorkHolds(w)'
      BY <1>2, <2>1, <2>6 DEF WorkHolds, WorkRecords
    <2>15. \A u \in Screens : ScreenHolds(screen[u], news[u])'
      <3>. SUFFICES ASSUME NEW u \in Screens PROVE ScreenHolds(screen[u], news[u])'
        OBVIOUS
      <3>1. PICK p \in ScreenRecords : p = screen'[u]
        BY <2>8 DEF SessionTypes
      <3>2. PICK x : x = news[u]
        OBVIOUS
      <3>3. WorkHolds(p.work)'
        <4>1. PICK v \in WorkRecords : v = p.work
          BY DEF ScreenRecords
        <4>2. WorkHolds(v)'
          BY <2>3, <2>9, <2>13, <2>14, <3>1, <4>1, OneScreen DEF ScreenHolds
        <4>. QED BY <4>1, <4>2 DEF WorkHolds
      <3>4. PlayerHolds(p, x)
        BY <1>2, <2>3, <2>9, <3>1, <3>2, OneScreen DEF ScreenHolds, PlayerHolds
      <3>5. PlayerHolds(p, x)'
        BY <2>12, <3>4
      <3>6. p.observed <= store.revision /\ (p.update = "posting" => p.updated \in 1 .. store.revision)
        BY <1>2, <2>3, <2>9, <3>1, OneScreen DEF ScreenHolds
      <3>. QED BY <1>0, <3>1, <3>2, <3>3, <3>5, <3>6 DEF ScreenHolds, WorkHolds, PlayerHolds, Coming
    <2>16. LogoutHolds'
      <3>1. store.key # 0 => store.key \in 1 .. made
        BY <1>0, OneScreen DEF SessionInv, SessionTypes
      <3>. QED BY <1>0, <2>6, <3>1 DEF SessionInv, LogoutHolds
    <2>17. \A k \in devices' \cup orders' : KeyHolds(k)'
      BY <1>0, <2>7 DEF SessionInv, SessionTypes
    <2>. QED BY <2>8, <2>10, <2>15, <2>16, <2>17 DEF SessionInv
  <1>. QED BY <1>1, <1>3, <1>4 DEF makesKey

\* The session's key, or its validity, changes while the revision stays; one tab's preparation goes on.
LEMMA SessionMoves ==
    ASSUME SessionInv, NEW t \in Screens, NEW w \in WorkRecords, NEW k \in 0 .. made, NEW valid \in BOOLEAN,
           store' = [store EXCEPT !.key = k, !.valid = valid], Works(t, w),
           UNCHANGED <<browser, news, devices, orders, made, updates, born, cleared>>,
           k = store.key \/ ~byMarket \/ store.key = 0,
           k # store.key => born[k] >= cleared,
           WorkHolds(w), w.op # "authorizing"
    PROVE  SessionInv'
  <1>0. /\ store \in [revision : Nat, key : Nat, valid : BOOLEAN] /\ made \in Nat /\ cleared \in Nat
        /\ devices \subseteq 1 .. made /\ orders \subseteq 1 .. made /\ k \in Nat
    BY SessionConstants DEF SessionInv, SessionTypes
  <1>1. /\ store' \in [revision : Nat, key : Nat, valid : BOOLEAN] /\ store'.revision = store.revision /\ store'.key = k
    BY <1>0
  <1>2. PICK s \in ScreenRecords : s = [screen[t] EXCEPT !.work = w]
    BY OneScreen DEF ScreenRecords
  <1>3. /\ s.work = w /\ s.player = screen[t].player /\ s.observed = screen[t].observed
        /\ s.watches = screen[t].watches /\ s.update = screen[t].update /\ s.updated = screen[t].updated
    BY <1>2, OneScreen DEF ScreenRecords
  <1>4. screen' = [screen EXCEPT ![t] = s] /\ \A u \in Screens : screen'[u] = IF u = t THEN s ELSE screen[u]
    BY <1>2 DEF Works, SessionInv, SessionTypes
  <1>5. SessionTypes'
    BY <1>0, <1>1, <1>4 DEF SessionInv, SessionTypes
  <1>6. UpdatesCounted'
    <2>1. Unstored' = Unstored
      BY <1>3, <1>4 DEF Unstored
    <2>. QED BY <1>1, <2>1 DEF SessionInv, UpdatesCounted
  <1>7. LogoutHolds'
    BY <1>1 DEF SessionInv, LogoutHolds
  <1>8. \A d \in 1 .. made : KeyHolds(d) => KeyHolds(d)'
    BY <1>0, <1>1 DEF KeyHolds, byMarket
  <1>9. \A q, x : Coming(q, x) => Coming(q, x)'
    BY <1>3, <1>4 DEF Coming
  <1>10. \A u \in Screens : ScreenHolds(screen[u], news[u])'
    <2>. SUFFICES ASSUME NEW u \in Screens PROVE ScreenHolds(screen[u], news[u])'
      OBVIOUS
    <2>1. PICK p \in ScreenRecords : p = screen'[u]
      BY <1>5 DEF SessionTypes
    <2>2. PICK x : x = news[u]
      OBVIOUS
    <2>3. WorkHolds(p.work)'
      <3>1. PICK v \in WorkRecords : v = p.work
        BY DEF ScreenRecords
      <3>2. WorkHolds(v)
        BY <1>3, <1>4, <2>1, <3>1, OneScreen DEF ScreenHolds
      <3>3. WorkHolds(v)'
        BY <1>0, <1>8, <3>2 DEF WorkHolds
      <3>. QED BY <3>1, <3>3 DEF WorkHolds
    <2>4. PlayerHolds(p, x)
      BY <1>3, <1>4, <2>1, <2>2, OneScreen DEF ScreenHolds, PlayerHolds
    <2>5. PlayerHolds(p, x)'
      BY <1>1, <1>9, <2>4 DEF PlayerHolds
    <2>6. p.observed <= store.revision /\ (p.update = "posting" => p.updated \in 1 .. store.revision)
      BY <1>3, <1>4, <2>1, OneScreen DEF ScreenHolds
    <2>. QED BY <1>1, <2>1, <2>2, <2>3, <2>5, <2>6 DEF ScreenHolds, WorkHolds, PlayerHolds, Coming
  <1>11. \A d \in devices' \cup orders' : KeyHolds(d)'
    BY <1>0, <1>8 DEF SessionInv
  <1>. QED BY <1>5, <1>6, <1>7, <1>10, <1>11 DEF SessionInv

\* The session is saved at the revision its key was made for, and handed to the caller.
LEMMA SavingKeeps ==
    ASSUME SessionInv, NEW t \in Screens,
           saveSession(t) \/ confirmsSession(t) \/ activatePlaybackDevice(t)
    PROVE  SessionInv'
  <1>. PICK c \in ScreenRecords : c = screen[t] /\ ScreenHolds(c, news[t])
    BY OneScreen
  <1>0. /\ c.work \in WorkRecords /\ NoWork \in WorkRecords /\ WorkHolds(c.work)
        /\ store.revision \in Nat /\ store.key \in Nat /\ store.key <= made /\ made \in Nat /\ store.valid \in BOOLEAN
        /\ store \in [revision : Nat, key : Nat, valid : BOOLEAN]
        /\ cleared \in 0 .. store.revision
    BY OneScreen DEF SessionInv, SessionTypes, NoWork, WorkRecords, WorkOps, ScreenHolds
  <1>1. CASE saveSession(t)
    <2>0. /\ c.work.op = "saving" /\ c.work.key \in 1 .. made /\ born[c.work.key] = c.work.rev
          /\ UNCHANGED <<browser, news, devices, orders, made, updates, born, cleared>>
      BY <1>0, <1>1 DEF saveSession, WorkHolds
    <2>1. CASE Works(t, NoWork) /\ UNCHANGED store
      BY <1>0, <2>0, <2>1, NoWorkHolds, WorkMoves
    <2>2. CASE /\ byMarket /\ store.key # 0 /\ store' = store
               /\ Works(t, [c.work EXCEPT !.op = "confirming", !.key = store.key])
      <3>1. PICK w \in WorkRecords : w = [c.work EXCEPT !.op = "confirming", !.key = store.key]
        BY <1>0 DEF WorkRecords, WorkOps
      <3>2. w.op = "confirming" /\ w.key \in 1 .. made
        BY <1>0, <2>2, <3>1 DEF WorkRecords
      <3>3. WorkHolds(w)
        BY <3>2 DEF WorkHolds
      <3>. QED BY <2>0, <2>2, <3>1, <3>3, WorkMoves
    <2>3. CASE /\ ~byMarket \/ store.key = 0
               /\ store.revision = c.work.rev
               /\ store' = [store EXCEPT !.key = c.work.key, !.valid = TRUE]
               /\ Works(t, [c.work EXCEPT !.op = "confirming"])
      <3>1. PICK w \in WorkRecords : w = [c.work EXCEPT !.op = "confirming"]
        BY <1>0 DEF WorkRecords, WorkOps
      <3>2. w.op = "confirming" /\ w.key = c.work.key
        BY <1>0, <3>1 DEF WorkRecords
      <3>3. WorkHolds(w)
        BY <2>0, <3>2 DEF WorkHolds
      <3>4. PICK k \in 0 .. made : k = c.work.key
        BY <1>0, <2>0
      <3>5. born[k] >= cleared
        BY <1>0, <2>0, <2>3, <3>4
      <3>6. store' = [store EXCEPT !.key = k, !.valid = TRUE] /\ Works(t, w)
        BY <2>3, <3>1, <3>4
      <3>. QED BY <2>0, <2>3, <3>2, <3>3, <3>5, <3>6, SessionMoves
    <2>. QED BY <1>1, <2>1, <2>2, <2>3 DEF saveSession, saves, WorkAt
  <1>2. CASE confirmsSession(t)
    <2>0. /\ c.work.op = "confirming" /\ c.work.key \in 1 .. made
          /\ UNCHANGED <<browser, store, news, devices, orders, made, updates, born, cleared>>
      BY <1>0, <1>2 DEF confirmsSession, WorkHolds
    <2>1. PICK s : s = IF byMarket THEN readStored(c) ELSE c
      OBVIOUS
    <2>2. /\ s \in ScreenRecords /\ ScreenHolds(s, news[t]) /\ s.update = c.update /\ s.updated = c.updated
          /\ s.work \in {c.work, NoWork}
      BY <1>0, <2>1, ReadsStore
    <2>3. CASE reads(t, s)
      BY <2>0, <2>2, <2>3, ScreenMoves DEF reads
    <2>4. CASE byMarket /\ store.key = s.work.key /\ s.work.op # "idle" /\ reads(t, [s EXCEPT !.work.op = "authorizing"])
      <3>1. s.work = c.work
        BY <2>2, <2>4 DEF NoWork
      <3>2. PICK w \in WorkRecords : w = [s.work EXCEPT !.op = "authorizing"]
        BY <1>0, <2>2 DEF WorkRecords, WorkOps
      <3>3. w.op = "authorizing" /\ w.key = c.work.key
        BY <1>0, <3>1, <3>2 DEF WorkRecords
      <3>4. WorkHolds(w)
        BY <2>0, <2>4, <3>1, <3>3 DEF WorkHolds, KeyHolds
      <3>5. PICK n \in ScreenRecords : n = [s EXCEPT !.work = w]
        BY <2>2 DEF ScreenRecords
      <3>6. /\ n.work = w /\ n.player = s.player /\ n.observed = s.observed /\ n.watches = s.watches
            /\ n.update = s.update /\ n.updated = s.updated
        BY <2>2, <3>5 DEF ScreenRecords
      <3>7. ScreenHolds(n, news[t])
        BY <2>2, <3>4, <3>6 DEF ScreenHolds, PlayerHolds
      <3>8. screen' = [screen EXCEPT ![t] = n]
        BY <2>2, <2>4, <3>2, <3>5 DEF reads, ScreenRecords, WorkRecords
      <3>. QED BY <2>0, <2>2, <3>6, <3>7, <3>8, ScreenMoves
    <2>5. CASE reads(t, [s EXCEPT !.work = NoWork])
      <3>1. PICK n \in ScreenRecords : n = [s EXCEPT !.work = NoWork]
        BY <1>0, <2>2 DEF ScreenRecords
      <3>2. /\ n.work = NoWork /\ n.player = s.player /\ n.observed = s.observed /\ n.watches = s.watches
            /\ n.update = s.update /\ n.updated = s.updated
        BY <2>2, <3>1 DEF ScreenRecords
      <3>3. ScreenHolds(n, news[t])
        BY <2>2, <3>2, NoWorkHolds DEF ScreenHolds, PlayerHolds
      <3>. QED BY <2>0, <2>2, <2>5, <3>1, <3>2, <3>3, ScreenMoves DEF reads
    <2>. QED BY <1>2, <2>1, <2>3, <2>4, <2>5 DEF confirmsSession
  <1>3. CASE activatePlaybackDevice(t)
    <2>1. c.work.op = "authorizing" /\ c.work.key \in 1 .. made /\ KeyHolds(c.work.key)
      BY <1>0, <1>3 DEF activatePlaybackDevice, WorkHolds
    <2>2. orders' \subseteq orders \cup {k \in 1 .. made : KeyHolds(k)}
      BY <1>3, <2>1 DEF activatePlaybackDevice
    <2>. QED BY <1>0, <1>3, <2>2, NoWorkHolds, WorkMoves DEF activatePlaybackDevice
  <1>. QED BY <1>1, <1>2, <1>3

\* The market registers a device; a certificate expires.
LEMMA MarketKeeps ==
    ASSUME SessionInv, (\E k \in orders : activate_playback_device(k)) \/ certificateExpires
    PROVE  SessionInv'
  <1>1. UNCHANGED <<browser, screen, news, made, updates, born, cleared>>
        /\ devices' \subseteq devices \cup orders /\ orders' \subseteq orders
    BY DEF activate_playback_device, certificateExpires
  <1>2. /\ store' \in [revision : Nat, key : Nat, valid : BOOLEAN]
        /\ store'.revision = store.revision /\ store'.key = store.key
    BY DEF activate_playback_device, certificateExpires, SessionInv, SessionTypes
  <1>3. SessionTypes'
    BY <1>1, <1>2 DEF SessionInv, SessionTypes
  <1>4. UpdatesCounted' /\ LogoutHolds'
    BY <1>1, <1>2 DEF SessionInv, UpdatesCounted, Unstored, LogoutHolds
  <1>5. \A k : KeyHolds(k) => KeyHolds(k)'
    BY <1>1, <1>2 DEF KeyHolds, byMarket
  <1>6. \A t \in Screens : ScreenHolds(screen[t], news[t])'
    <2>. SUFFICES ASSUME NEW t \in Screens PROVE ScreenHolds(screen[t], news[t])'
      OBVIOUS
    <2>1. ScreenHolds(screen[t], news[t])
      BY DEF SessionInv
    <2>2. WorkHolds(screen[t].work)'
      BY <1>1, <1>5, <2>1 DEF ScreenHolds, WorkHolds
    <2>3. PlayerHolds(screen[t], news[t])'
      BY <1>1, <1>2, <2>1 DEF ScreenHolds, PlayerHolds, Coming
    <2>. QED BY <1>1, <1>2, <2>1, <2>2, <2>3 DEF ScreenHolds
  <1>7. \A k \in devices' \cup orders' : KeyHolds(k)'
    BY <1>1, <1>5 DEF SessionInv
  <1>. QED BY <1>3, <1>4, <1>6, <1>7 DEF SessionInv

\* The player opens, renews, and asks; at each step it stops if the session is not the one it read.
LEMMA PlayerKeeps ==
    ASSUME SessionInv, NEW t \in Screens,
           startLivepeerPlaybackSession(t) \/ refresh(t) \/ requestStatelessPlaybackToken(t) \/ playerStops(t)
    PROVE  SessionInv'
  <1>. PICK c \in ScreenRecords : c = screen[t] /\ ScreenHolds(c, news[t])
    BY OneScreen
  <1>0. c.gen \in Nat /\ c.player \in Players /\ NoPlayer \in Players
    BY OneScreen DEF NoPlayer, Players, PlayerOps
  <1>1. CASE startLivepeerPlaybackSession(t)
    <2>1. PICK p \in Players : p = [NoPlayer EXCEPT !.op = "reading", !.gen = c.gen]
      BY <1>0 DEF NoPlayer, Players, PlayerOps
    <2>2. PICK s \in ScreenRecords : s = [c EXCEPT !.watches = TRUE, !.player = p]
      BY DEF ScreenRecords
    <2>3. /\ s.player = p /\ s.work = c.work /\ s.observed = c.observed /\ s.update = c.update /\ s.updated = c.updated
          /\ p.op = "reading"
      BY <1>0, <2>1, <2>2 DEF ScreenRecords, NoPlayer
    <2>4. ScreenHolds(s, news[t])
      BY <2>3 DEF ScreenHolds, PlayerHolds, HasRead
    <2>5. screen' = [screen EXCEPT ![t] = s]
      BY <1>1, <2>1, <2>2 DEF startLivepeerPlaybackSession, watchSessionChanges
    <2>. QED BY <1>1, <2>3, <2>4, <2>5, ScreenMoves DEF startLivepeerPlaybackSession
  <1>2. CASE refresh(t)
    <2>1. PICK p \in Players : p = [c.player EXCEPT !.op = "reading", !.gen = c.gen]
      BY <1>0 DEF Players, PlayerOps
    <2>2. p.op = "reading"
      BY <1>0, <2>1 DEF Players
    <2>. QED BY <1>2, <2>1, <2>2, PlayerMoves DEF refresh, HasRead
  <1>3. CASE requestStatelessPlaybackToken(t)
    <2>1. PICK p \in Players : p = [c.player EXCEPT !.on = TRUE, !.op = "idle"]
      BY <1>0 DEF Players, PlayerOps
    <2>2. PICK q \in Players : q = [c.player EXCEPT !.op = "idle"]
      BY <1>0 DEF Players, PlayerOps
    <2>3. PICK r \in {p, q, NoPlayer} : Plays(t, r)
      BY <1>3, <2>1, <2>2 DEF requestStatelessPlaybackToken
    <2>4. c.player.op = "asking"
      BY <1>3 DEF requestStatelessPlaybackToken
    <2>5. r.op \in HasRead => r.rev = c.player.rev /\ r.early = c.player.early
      <3>1. p.rev = c.player.rev /\ p.early = c.player.early
        BY <1>0, <2>1 DEF Players
      <3>2. q.rev = c.player.rev /\ q.early = c.player.early
        BY <1>0, <2>2 DEF Players
      <3>. QED BY <2>3, <3>1, <3>2 DEF NoPlayer, HasRead
    <2>. QED BY <1>0, <1>3, <2>3, <2>4, <2>5, PlayerMoves DEF requestStatelessPlaybackToken, HasRead
  <1>4. CASE playerStops(t)
    BY <1>0, <1>4, PlayerMoves DEF playerStops, NoPlayer, HasRead
  <1>. QED BY <1>1, <1>2, <1>3, <1>4

\* The session as stored, and once more when the chain has answered.
LEMMA RequestKeeps ==
    ASSUME SessionInv, NEW t \in Screens,
           createStatelessPlaybackRequest(t) \/ getDeviceSession(t)
    PROVE  SessionInv'
  <1>. PICK c \in ScreenRecords : c = screen[t] /\ ScreenHolds(c, news[t])
    BY OneScreen
  <1>0. /\ c.player \in Players /\ NoPlayer \in Players /\ store.revision \in Nat /\ store.key \in Nat
    BY OneScreen DEF NoPlayer, Players, PlayerOps
  <1>1. ASSUME NEW s \in ScreenRecords, ScreenHolds(s, news[t]), s.update = c.update, s.updated = c.updated,
               screen' = [screen EXCEPT ![t] = [s EXCEPT !.player = NoPlayer]],
               UNCHANGED <<browser, store, news, devices, orders, made, updates, born, cleared>>
        PROVE  SessionInv'
    <2>1. PICK n \in ScreenRecords : n = [s EXCEPT !.player = NoPlayer]
      BY <1>0 DEF ScreenRecords
    <2>2. /\ n.player = NoPlayer /\ n.work = s.work /\ n.observed = s.observed
          /\ n.update = s.update /\ n.updated = s.updated
      BY <2>1 DEF ScreenRecords
    <2>3. ScreenHolds(n, news[t])
      BY <1>1, <2>2, NoPlayerHolds DEF ScreenHolds
    <2>. QED BY <1>1, <2>1, <2>2, <2>3, ScreenMoves
  <1>2. CASE createStatelessPlaybackRequest(t)
    <2>1. PICK s : s = readStored(c)
      OBVIOUS
    <2>2. /\ s \in ScreenRecords /\ ScreenHolds(s, news[t]) /\ s.update = c.update /\ s.updated = c.updated
          /\ s.watches /\ s.observed = store.revision /\ s.player \in Players /\ s.update \in Updates
      <3>1. s \in ScreenRecords
        BY <2>1, ReadsStore
      <3>. QED BY <2>1, <3>1, ReadsStore DEF ScreenRecords
    <2>3. PICK invalid \in BOOLEAN : invalid = (s.player.op # "off" /\ store.key # 0 /\ ~store.valid)
      OBVIOUS
    <2>4. /\ UNCHANGED <<browser, store, news, devices, orders, made, born, cleared>>
          /\ invalid => s.update = "none" /\ updates < browser.updates
          /\ updates' = IF invalid THEN updates + 1 ELSE updates
      BY <1>2, <2>1, <2>3 DEF createStatelessPlaybackRequest
    <2>5. CASE ~invalid /\ reads(t, s)
      BY <2>2, <2>4, <2>5, ScreenMoves DEF reads
    <2>6. CASE ~invalid /\ reads(t, [s EXCEPT !.player = NoPlayer])
      BY <1>1, <2>2, <2>4, <2>6 DEF reads
    <2>7. CASE invalid /\ reads(t, [invalidate(s) EXCEPT !.update = "clear"])
      <3>1. PICK i \in ScreenRecords : /\ i = invalidate(s) /\ i.player = NoPlayer /\ i.observed = s.observed
                                       /\ i.work = s.work \/ i.work = NoWork
        BY <2>2, Invalidates
      <3>2. PICK n \in ScreenRecords : n = [i EXCEPT !.update = "clear"]
        BY DEF ScreenRecords, Updates
      <3>3. n.update = "clear" /\ n.work = i.work /\ n.player = NoPlayer /\ n.observed = s.observed
        BY <3>1, <3>2 DEF ScreenRecords
      <3>4. ScreenHolds(n, news[t])
        BY <2>2, <3>1, <3>3, NoPlayerHolds, NoWorkHolds DEF ScreenHolds
      <3>. QED BY <2>2, <2>4, <2>7, <3>1, <3>2, <3>3, <3>4, ScreenMoves DEF reads, Waiting
    <2>8. CASE /\ ~invalid
               /\ reads(t, [s EXCEPT !.player.op = "checking", !.player.key = store.key, !.player.rev = store.revision,
                                     !.player.early = (s.update \in {"clear", "suspend"})])
      <3>0. PICK early \in BOOLEAN : early = (s.update \in {"clear", "suspend"})
        <4>1. CASE s.update \in {"clear", "suspend"}
          BY <4>1, (s.update \in {"clear", "suspend"}) = TRUE
        <4>2. CASE s.update \notin {"clear", "suspend"}
          BY <4>2, (s.update \in {"clear", "suspend"}) = FALSE
        <4>. QED BY <4>1, <4>2
      <3>1. PICK p \in Players :
              p = [s.player EXCEPT !.op = "checking", !.key = store.key, !.rev = store.revision, !.early = early]
        BY <1>0, <2>2 DEF Players, PlayerOps
      <3>2. p.rev = store.revision /\ p.early = early
        BY <2>2, <3>1 DEF Players
      <3>3. PICK n \in ScreenRecords : n = [s EXCEPT !.player = p]
        BY <2>2 DEF ScreenRecords
      <3>4. /\ n.player = p /\ n.work = s.work /\ n.observed = store.revision /\ n.watches
            /\ n.update = s.update /\ n.updated = s.updated
        BY <2>2, <3>3 DEF ScreenRecords
      <3>5. PlayerHolds(n, news[t])
        <4>1. n.observed # Undefined /\ \A v \in 1 .. store.revision : ~(v > n.observed)
          BY <1>0, <3>4 DEF Undefined
        <4>2. ~early => n.update \notin Waiting
          BY <3>0, <3>4 DEF Waiting
        <4>3. n.update = "posting" => n.updated \in 1 .. store.revision
          BY <2>2, <3>4 DEF ScreenHolds
        <4>4. n.player.rev = n.observed /\ n.player.early = early
          BY <3>2, <3>4
        <4>5. n.update = "posting" => n.updated <= n.player.rev
          BY <1>0, <3>4, <4>3, <4>4
        <4>. QED BY <3>4, <4>1, <4>2, <4>4, <4>5 DEF PlayerHolds
      <3>6. ScreenHolds(n, news[t])
        BY <1>0, <2>2, <3>4, <3>5 DEF ScreenHolds
      <3>7. screen' = [screen EXCEPT ![t] = n]
        BY <2>2, <2>8, <3>0, <3>1, <3>3 DEF reads, ScreenRecords, Players
      <3>. QED BY <2>2, <2>4, <2>8, <3>4, <3>6, <3>7, ScreenMoves
    <2>. QED BY <1>2, <2>1, <2>3, <2>5, <2>6, <2>7, <2>8 DEF createStatelessPlaybackRequest
  <1>3. CASE getDeviceSession(t)
    <2>1. PICK s : s = IF byMarket THEN readStored(c) ELSE c
      OBVIOUS
    <2>2. /\ s \in ScreenRecords /\ ScreenHolds(s, news[t]) /\ s.update = c.update /\ s.updated = c.updated
          /\ s.player = c.player \/ s.player = NoPlayer
      BY <2>1, ReadsStore
    <2>3. /\ UNCHANGED <<browser, store, news, devices, orders, made, updates, born, cleared>>
          /\ c.player.op = "checking"
      BY <1>3 DEF getDeviceSession
    <2>4. CASE reads(t, s)
      BY <2>2, <2>3, <2>4, ScreenMoves DEF reads
    <2>5. CASE reads(t, [s EXCEPT !.player = NoPlayer])
      BY <1>1, <2>2, <2>3, <2>5 DEF reads
    <2>6. CASE s.player.op # "off" /\ reads(t, [s EXCEPT !.player.op = "asking"])
      <3>0. s.player = c.player
        BY <2>2, <2>6 DEF NoPlayer
      <3>1. PICK p \in Players : p = [s.player EXCEPT !.op = "asking"]
        BY <1>0, <3>0 DEF Players, PlayerOps
      <3>2. p.rev = s.player.rev /\ p.early = s.player.early
        BY <1>0, <3>0, <3>1 DEF Players
      <3>3. PICK n \in ScreenRecords : n = [s EXCEPT !.player = p]
        BY <2>2 DEF ScreenRecords
      <3>4. /\ n.player = p /\ n.work = s.work /\ n.observed = s.observed /\ n.watches = s.watches
            /\ n.update = s.update /\ n.updated = s.updated
        BY <2>2, <3>3 DEF ScreenRecords
      <3>5. ScreenHolds(n, news[t])
        BY <2>2, <2>3, <3>0, <3>2, <3>4 DEF ScreenHolds, PlayerHolds, HasRead
      <3>6. screen' = [screen EXCEPT ![t] = n]
        BY <2>2, <2>6, <3>1, <3>3 DEF reads, ScreenRecords, Players
      <3>. QED BY <2>2, <2>3, <3>4, <3>5, <3>6, ScreenMoves
    <2>. QED BY <1>3, <2>1, <2>4, <2>5, <2>6 DEF getDeviceSession
  <1>. QED BY <1>2, <1>3

\* A step of the sessions, or of nothing they remember.
LEMMA NextSession == SessionInv /\ [SessionNext]_sessionVars => SessionInv'
  <1>. SUFFICES ASSUME SessionInv, [SessionNext]_sessionVars PROVE SessionInv'
    OBVIOUS
  <1>1. ASSUME NEW t \in Screens, clearDeviceSession(t) \/ suspendDeviceSession(t) PROVE SessionInv'
    BY <1>1, UpdateBegins DEF clearDeviceSession, suspendDeviceSession
  <1>2. ASSUME NEW t \in Screens, Prepares(t) PROVE SessionInv'
    BY <1>2, PreparationKeeps, KeyKeeps, SavingKeeps DEF Prepares
  <1>3. ASSUME NEW t \in Screens, Watches(t) PROVE SessionInv'
    BY <1>3, PlayerKeeps, RequestKeeps DEF Watches
  <1>4. CASE UNCHANGED sessionVars
    BY <1>4 DEF sessionVars, SessionInv, SessionTypes, UpdatesCounted, Unstored, LogoutHolds, KeyHolds, byMarket,
       ScreenHolds, WorkHolds, PlayerHolds, Coming
  <1>. QED BY <1>1, <1>2, <1>3, <1>4, UpdateStored, UpdatePosted, NewsHeard, MarketKeeps DEF SessionNext

\* The invariant is what the account's owner relies on.
LEMMA SessionMeans == SessionInv => SessionsSafe
  <1>. SUFFICES ASSUME SessionInv PROVE SessionsSafe
    OBVIOUS
  <1>1. SessionTypeOK
    <2>1. store.revision \in 0 .. browser.updates
      <3>1. Cardinality(Unstored) \in Nat /\ store.revision \in Nat /\ browser.updates \in Nat
        BY FS_CardinalityType, SessionConstants DEF SessionInv, UpdatesCounted, SessionTypes
      <3>. QED BY <3>1 DEF SessionInv, UpdatesCounted
    <2>2. \A t \in Screens : screen[t].observed \in -1 .. store.revision
      BY OneScreen DEF ScreenHolds
    <2>3. store.key \in 0 .. made
      BY DEF SessionInv, SessionTypes
    <2>. QED BY <2>1, <2>2, <2>3, OneScreen DEF SessionTypeOK, SessionInv, SessionTypes
  <1>2. PlayersStop
    <2>. SUFFICES ASSUME \A u \in Screens : news[u] = {} /\ screen[u].update = "none",
                         NEW t \in Screens, screen[t].player.op = "idle", ~screen[t].player.early
                  PROVE  screen[t].player.rev = store.revision
      BY DEF PlayersStop
    <2>1. PlayerHolds(screen[t], news[t]) /\ screen[t].observed \in Nat \cup {-1}
          /\ screen[t].observed <= store.revision /\ store.revision \in Nat
      BY OneScreen DEF ScreenHolds
    <2>2. screen[t].player.rev = screen[t].observed /\ screen[t].observed # -1
      BY <2>1 DEF PlayerHolds, HasRead, Undefined
    <2>3. ~Coming(store.revision, news[t])
      BY DEF Coming
    <2>4. ~(store.revision > screen[t].observed)
      <3>. SUFFICES ASSUME store.revision > screen[t].observed PROVE FALSE
        OBVIOUS
      <3>1. store.revision \in 1 .. store.revision
        BY <2>1, <2>2
      <3>. QED BY <2>1, <2>3, <3>1 DEF PlayerHolds, HasRead
    <2>. QED BY <2>1, <2>2, <2>4
  <1>3. DeviceKept
    BY DEF DeviceKept, SessionInv, KeyHolds
  <1>. QED BY <1>1, <1>2, <1>3 DEF SessionsSafe, SessionInv

-----------------------------------------------------------------------------
(* The upload form. *)

Stages == {"draft", "preflight", "payment_required", "payment_pending", "authorized", "intent_pending",
           "upload_ready", "uploading", "provider_processing", "published"}
\* From these the form may go on to a payment.
Payables == {"payment_required", "payment_pending", "authorized", "intent_pending", "upload_ready", "uploading"}
Paying == {"authorizing", "quoting", "signing", "relaying", "failing", "waiting"}
Forms == [file : Files \cup {0}, job : Nat, ui : Stages, resumable : BOOLEAN, payable : BOOLEAN,
          tracked : Nat, shown : Nat, op : Operations, seen : Nat, had : BOOLEAN]
Drafts == [job : Nat, file : Nat, stage : 0 .. 4, paymentAttempted : BOOLEAN,
           keyReplacementPending : BOOLEAN, fingerprint : Nat]
PaidJobs == [state : {"none", "authorized", "published"}, key : Nat, size : Nat]

ClientTypes ==
    /\ form \in [Tabs -> Forms]
    /\ session \in [Tabs -> [Jobs -> 0 .. keys]]
    /\ draft \in Drafts /\ draft.job <= jobs /\ bookmark \in 0 .. jobs /\ abandoned \subseteq 1 .. jobs
    /\ market \in [Jobs -> PaidJobs] /\ expired \subseteq Jobs
    /\ relays \subseteq [job : Jobs, key : Nat, size : Nat]
    /\ replacements \subseteq [job : Jobs, key : Nat]
    /\ uploads \in [Jobs -> {"none", "open", "done", "cancelled"}] /\ hint \in 0 .. jobs
    /\ jobs \in 0 .. MaxJobs /\ keys \in Nat /\ overlooked \in BOOLEAN
    /\ \A r \in relays : r.job <= jobs

\* What a form shows is where its operation has come to.
FormHolds(f) ==
    /\ f.op \notin {"idle", "matching", "looking"} \/ f.ui = "provider_processing" => f.job # 0
    /\ f.job # 0 \/ f.op \in {"matching", "looking"} => f.file # 0
    /\ f.op = "matching" => f.ui = "draft" /\ ~f.payable /\ f.job = 0
    /\ f.op = "looking" => f.ui = "preflight" /\ ~f.payable
    /\ f.op \in Paying => f.ui = "payment_pending"
    /\ f.op = "asking" => f.ui = "intent_pending"
    /\ f.op = "transferring" => f.ui = "uploading"
    /\ f.payable => f.ui \in Payables \cup Uploaded
Within(f, n) == f.job <= n /\ f.tracked <= n /\ f.shown <= n /\ f.seen <= n

\* A job that a lookup must not overlook, and one of them that the browser is to remember.
Live(j) == readPendingLivepeerUpload(j) \/ \E r \in relays : r.job = j
Owed(j) ==
    /\ j \notin abandoned /\ j \notin expired /\ uploads[j] # "cancelled"
    /\ \/ market[j].state = "authorized"
       \/ market[j].state = "none" /\ \E r \in relays : r.job = j
Marked == draft.paymentAttempted \/ draft.stage > 0

\* One job is live, and no other one's draft stored meanwhile...
OneLive ==
    /\ \A j \in Jobs : Live(j) => draft.job \in {0, j}
    /\ \A j, k \in Jobs : Live(j) /\ Live(k) => j = k
\* ... the draft is marked as paid...
OwedKept == \A j \in Jobs : Owed(j) => draft.job = j /\ Marked
\* ... and whoever has a job in hand has the same file for it.
FilesAgree ==
    \A j \in Jobs : uploads[j] # "cancelled" =>
        /\ \A t \in Tabs : form[t].job = j /\ draft.job = j => form[t].file = draft.file
        /\ \A t, u \in Tabs : form[t].job = j /\ form[u].job = j => form[t].file = form[u].file

ClientInv ==
    /\ ClientTypes
    /\ \A t \in Tabs : FormHolds(form[t]) /\ Within(form[t], jobs)
    /\ ~overlooked => OneLive /\ OwedKept /\ FilesAgree

-----------------------------------------------------------------------------
\* The bounds are numbers, and the files are numbered.
LEMMA ClientConstants ==
    /\ MaxJobs \in Nat /\ MaxKeys \in Nat /\ MaxClicks \in Nat
    /\ Files \subseteq Nat \ {0} /\ \A f \in Files : SizeOf[f] \in Nat
  BY UploadClientAssumption

\* The moves the form makes are in the table.
LEMMA StageMoves ==
    /\ \A c \in Stages : transitionUploadStage(c, "draft") = "draft" /\ transitionUploadStage(c, "published") = "published"
    /\ transitionUploadStage("draft", "preflight") = "preflight"
    /\ transitionUploadStage("preflight", "payment_required") = "payment_required"
    /\ \A c \in Payables : transitionUploadStage(c, "payment_pending") = "payment_pending"
    /\ transitionUploadStage("payment_pending", "authorized") = "authorized"
    /\ transitionUploadStage("draft", "authorized") = "authorized"
    /\ transitionUploadStage("authorized", "intent_pending") = "intent_pending"
    /\ transitionUploadStage("intent_pending", "upload_ready") = "upload_ready"
    /\ transitionUploadStage("upload_ready", "uploading") = "uploading"
    /\ transitionUploadStage("uploading", "provider_processing") = "provider_processing"
    /\ transitionUploadStage("draft", "provider_processing") = "provider_processing"
  BY DEF transitionUploadStage, UPLOAD_STAGE_TRANSITIONS, Stages, Payables

\* A stored stage is shown as one of four.
LEMMA StageRestored ==
    ASSUME NEW n \in 0 .. 4
    PROVE  transitionUploadStage("draft", restoreUploadStage(n))
             \in {"payment_required", "authorized", "upload_ready", "provider_processing"}
  <1>1. restoreUploadStage(n) \in {"payment_required", "authorized", "upload_ready", "provider_processing"}
    BY DEF restoreUploadStage
  <1>. QED BY <1>1 DEF transitionUploadStage, UPLOAD_STAGE_TRANSITIONS

\* What the invariant says of one form, and of what all tabs share.
LEMMA OneForm ==
    ASSUME ClientInv, NEW t \in Tabs
    PROVE  /\ form[t] \in Forms /\ FormHolds(form[t]) /\ Within(form[t], jobs)
           /\ form[t].job \in 0 .. MaxJobs /\ form[t].tracked \in Nat /\ form[t].shown \in Nat /\ form[t].seen \in Nat
           /\ form[t].file \in Nat /\ form[t].op \in Operations /\ form[t].ui \in Stages
           /\ form[t].resumable \in BOOLEAN /\ form[t].payable \in BOOLEAN /\ form[t].had \in BOOLEAN
           /\ form[t].job # 0 => form[t].job \in Jobs
           /\ jobs \in Nat /\ keys \in Nat /\ MaxJobs \in Nat
  <1>1. form[t] \in Forms /\ FormHolds(form[t]) /\ Within(form[t], jobs) /\ jobs \in 0 .. MaxJobs /\ keys \in Nat
    BY DEF ClientInv, ClientTypes
  <1>2. /\ form[t].job \in Nat /\ form[t].tracked \in Nat /\ form[t].shown \in Nat /\ form[t].seen \in Nat
        /\ form[t].op \in Operations /\ form[t].ui \in Stages /\ form[t].file \in Files \cup {0}
        /\ form[t].resumable \in BOOLEAN /\ form[t].payable \in BOOLEAN /\ form[t].had \in BOOLEAN
    BY <1>1 DEF Forms
  <1>3. form[t].file \in Nat
    <2>1. \A f \in Files : f \in Nat
      BY ClientConstants
    <2>. QED BY <1>2, <2>1
  <1>4. form[t].job \in 0 .. MaxJobs /\ jobs \in Nat /\ MaxJobs \in Nat
    BY <1>1, <1>2, ClientConstants DEF Within
  <1>. QED BY <1>1, <1>2, <1>3, <1>4 DEF Jobs

\* A job or file a tab has in hand was its own, or the stored draft's, before.
Carried(g, f) ==
    \/ g.job = 0
    \/ g.job = f.job /\ g.file = f.file
    \/ g.job = draft.job /\ g.file = draft.file

\* What one tab shows changes, as its operation allows.
LEMMA FormMoves ==
    ASSUME ClientInv, NEW t \in Tabs, NEW f \in Forms, FormHolds(f), Within(f, jobs), form' = [form EXCEPT ![t] = f],
           Carried(f, form[t])
    PROVE  /\ form' \in [Tabs -> Forms]
           /\ \A u \in Tabs : FormHolds(form'[u]) /\ Within(form'[u], jobs) /\ Carried(form'[u], form[u])
  <1>1. \A u \in Tabs : form'[u] = IF u = t THEN f ELSE form[u]
    BY DEF ClientInv, ClientTypes
  <1>2. \A u \in Tabs : Carried(form[u], form[u])
    BY DEF Carried
  <1>. QED BY <1>1, <1>2 DEF ClientInv, ClientTypes

\* Nothing is live, or owed, that was not.
NothingNew ==
    \A j \in Jobs : /\ Live(j)' => Live(j)
                    /\ Owed(j)' => Owed(j)
                    /\ uploads[j] = "cancelled" => uploads'[j] = "cancelled"

\* The draft stays, and its mark, or it or the mark goes when nothing is owed.
DraftKept ==
    \/ /\ draft'.job = draft.job /\ draft'.file = draft.file
       /\ Marked => Marked'
    \/ /\ draft' = NoDraft \/ (draft'.job = draft.job /\ draft'.file = draft.file)
       /\ ~overlooked' => \A j \in Jobs : ~Owed(j)'

\* Steps that put no other job in the tabs' hands keep the invariant.
LEMMA ClientKeeps ==
    ASSUME ClientInv, ClientTypes', \A u \in Tabs : FormHolds(form'[u]) /\ Within(form'[u], jobs') /\ Carried(form'[u], form[u]),
           overlooked => overlooked', ~overlooked' => NothingNew, DraftKept
    PROVE  ClientInv'
  <1>1. ASSUME ~overlooked' PROVE OneLive' /\ OwedKept' /\ FilesAgree'
    <2>1. OneLive /\ OwedKept /\ FilesAgree /\ NothingNew
      BY <1>1 DEF ClientInv
    <2>2. OneLive'
      <3>1. draft'.job \in {0, draft.job}
        BY DEF DraftKept, NoDraft
      <3>2. \A j \in Jobs : Live(j)' => Live(j)
        BY <2>1 DEF NothingNew
      <3>3. \A j, k \in Jobs : Live(j) /\ Live(k) => j = k
        BY <2>1 DEF OneLive
      <3>4. \A j \in Jobs : Live(j)' => draft'.job \in {0, j}
        BY <2>1, <3>1, <3>2 DEF OneLive
      <3>5. \A j, k \in Jobs : Live(j)' /\ Live(k)' => j = k
        BY <3>2, <3>3
      <3>. QED BY <3>4, <3>5 DEF OneLive
    <2>3. OwedKept'
      <3>1. \A j \in Jobs : Owed(j)' => Owed(j) /\ draft'.job = draft.job /\ (Marked => Marked')
        BY <1>1, <2>1 DEF DraftKept, NothingNew
      <3>. QED BY <2>1, <3>1 DEF OwedKept
    <2>4. FilesAgree'
      <3>. SUFFICES ASSUME NEW j \in Jobs, uploads'[j] # "cancelled"
                    PROVE  /\ \A t \in Tabs : form'[t].job = j /\ draft'.job = j => form'[t].file = draft'.file
                           /\ \A t, u \in Tabs : form'[t].job = j /\ form'[u].job = j => form'[t].file = form'[u].file
        BY DEF FilesAgree
      <3>1. uploads[j] # "cancelled" /\ j # 0
        BY <2>1, ClientConstants DEF NothingNew, Jobs
      <3>2. draft'.job = j => draft.job = j /\ draft'.file = draft.file
        BY <3>1 DEF DraftKept, NoDraft
      <3>3. \A u \in Tabs : form'[u].job = j => \/ form[u].job = j /\ form'[u].file = form[u].file
                                                \/ draft.job = j /\ form'[u].file = draft.file
        BY <3>1 DEF Carried
      <3>. QED BY <2>1, <3>1, <3>2, <3>3 DEF FilesAgree
    <2>. QED BY <2>2, <2>3, <2>4
  <1>2. \A t \in Tabs' : FormHolds(form[t])' /\ Within(form[t], jobs)'
    BY DEF FormHolds, Within
  <1>. QED BY <1>1, <1>2 DEF ClientInv

\* What is live and owed is in the jobs' records and the payments on their way.
LEMMA SameJobs ==
    ASSUME ClientInv, UNCHANGED <<abandoned, market, expired, relays>>,
           \A j \in Jobs : uploads[j] = "cancelled" => uploads'[j] = "cancelled"
    PROVE  NothingNew
  BY DEF NothingNew, Live, Owed, readPendingLivepeerUpload

\* What a lookup finds is a job of the browser or none; unless it overlooked one, nothing else is live.
LEMMA LooksUpAll ==
    ASSUME ClientInv, NEW s \in Nat, s <= jobs, NEW f, f = findPendingLivepeerUpload(s)
    PROVE  /\ f \in Nat /\ f <= jobs
           /\ f # 0 => f \in Jobs /\ readPendingLivepeerUpload(f)
           /\ rememberedJob(s) \in 0 .. jobs
           /\ ~Missed(f) => \A j \in Jobs : Live(j) => j = f
  <1>1. f \in {s, hint, 0} /\ (f # 0 => readPendingLivepeerUpload(f))
    BY DEF findPendingLivepeerUpload, readPendingLivepeerUpload
  <1>2. /\ hint \in Nat /\ hint <= jobs /\ bookmark \in 0 .. jobs /\ jobs \in Nat /\ jobs <= MaxJobs /\ MaxJobs \in Nat
    BY ClientConstants DEF ClientInv, ClientTypes
  <1>3. f \in Nat /\ f <= jobs /\ (f # 0 => f \in Jobs)
    BY <1>1, <1>2 DEF Jobs
  <1>4. rememberedJob(s) \in 0 .. jobs
    BY <1>1, <1>2 DEF rememberedJob
  <1>5. ~Missed(f) => \A j \in Jobs : Live(j) => j = f
    BY DEF Missed, Live
  <1>. QED BY <1>1, <1>2, <1>3, <1>4, <1>5

\* A lookup that overlooks nothing keeps the draft of a job that is owed.
LEMMA OwedStays ==
    ASSUME ClientInv, NEW s \in Nat, s <= jobs, NEW had \in BOOLEAN, ~overlooked,
           ~Missed(findPendingLivepeerUpload(s)),
           ~(isPaidUploadDraft(draft) /\ releasedDraft(s, had) # draft /\ draft.job # s)
    PROVE  \A j \in Jobs : Owed(j) =>
               /\ j = findPendingLivepeerUpload(s) /\ releasedDraft(s, had) = draft
               /\ draft.job = j /\ Marked
  <1>. SUFFICES ASSUME NEW j \in Jobs, Owed(j)
                PROVE  /\ j = findPendingLivepeerUpload(s) /\ releasedDraft(s, had) = draft
                       /\ draft.job = j /\ Marked
    OBVIOUS
  <1>1. draft.job = j /\ Marked
    BY DEF ClientInv, OwedKept
  <1>2. Live(j)
    BY ClientConstants DEF Owed, Live, readPendingLivepeerUpload, Jobs
  <1>3. j = findPendingLivepeerUpload(s) /\ readPendingLivepeerUpload(j)
    BY <1>2, LooksUpAll, ClientConstants DEF Jobs
  <1>4. isPaidUploadDraft(draft)
    BY <1>1 DEF Marked, isPaidUploadDraft, ClientInv, ClientTypes, Drafts
  <1>5. releasedDraft(s, had) = draft
    BY <1>1, <1>3, <1>4 DEF releasedDraft
  <1>. QED BY <1>1, <1>3, <1>5

\* A draft is released when nothing is owed, or the lookup is noted to have overlooked something.
LEMMA ReleasedKept ==
    ASSUME ClientInv, NEW s \in Nat, s <= jobs, NEW had \in BOOLEAN, draft' = releasedDraft(s, had), NothingNew,
           ~overlooked' => /\ ~overlooked /\ ~Missed(findPendingLivepeerUpload(s))
                           /\ ~(isPaidUploadDraft(draft) /\ releasedDraft(s, had) # draft /\ draft.job # s)
    PROVE  DraftKept /\ draft' \in {draft, NoDraft}
  <1>1. draft' \in {draft, NoDraft}
    BY DEF releasedDraft
  <1>2. CASE draft' = draft
    BY <1>2 DEF DraftKept, Marked
  <1>3. ASSUME draft' # draft, ~overlooked', NEW j \in Jobs, Owed(j)' PROVE FALSE
    <2>1. Owed(j)
      BY <1>3 DEF NothingNew
    <2>. QED BY <1>3, <2>1, OwedStays
  <1>. QED BY <1>1, <1>2, <1>3 DEF DraftKept

\* A tab's step that leaves the jobs' records alone and at most adds marks to the draft.
LEMMA FormStepKeeps ==
    ASSUME ClientInv, NEW t \in Tabs, NEW f \in Forms, FormHolds(f), Within(f, jobs), Carried(f, form[t]),
           form' = [form EXCEPT ![t] = f],
           session' \in [Tabs -> [Jobs -> 0 .. keys']], keys' \in Nat, bookmark' \in 0 .. jobs,
           draft' \in Drafts, draft'.job = draft.job, draft'.file = draft.file, Marked => Marked',
           uploads' \in [Jobs -> {"none", "open", "done", "cancelled"}],
           \A j \in Jobs : uploads[j] = "cancelled" => uploads'[j] = "cancelled",
           replacements' \subseteq [job : Jobs, key : Nat],
           UNCHANGED <<abandoned, jobs, market, expired, relays, hint, overlooked>>
    PROVE  ClientInv'
  <1>1. /\ form' \in [Tabs -> Forms]
        /\ \A u \in Tabs : FormHolds(form'[u]) /\ Within(form'[u], jobs) /\ Carried(form'[u], form[u])
    BY FormMoves
  <1>2. ClientTypes'
    BY <1>1 DEF ClientInv, ClientTypes
  <1>3. NothingNew
    BY SameJobs
  <1>4. DraftKept
    BY DEF DraftKept
  <1>. QED BY <1>1, <1>2, <1>3, <1>4, ClientKeeps

\* An operation goes on, or ends: the form keeps its job, file and stage.
LEMMA FormGoes ==
    ASSUME ClientInv, NEW t \in Tabs, NEW op \in {"idle", "reopening", "replacing", "replaced"} \cup Paying,
           Enters(t, op) \/ (op = "idle" /\ Fails(t)),
           op # "idle" => form[t].job # 0, op \in Paying => form[t].ui = "payment_pending"
    PROVE  \E f \in Forms : /\ form' = [form EXCEPT ![t] = f] /\ FormHolds(f) /\ Within(f, jobs)
                            /\ f.job = form[t].job /\ f.file = form[t].file
  <1>. PICK c \in Forms : c = form[t] /\ FormHolds(c) /\ Within(c, jobs)
    BY OneForm
  <1>0. op \in Operations
    BY DEF Operations, Paying
  <1>1. PICK b \in BOOLEAN : form' = [form EXCEPT ![t] = [c EXCEPT !.op = op, !.resumable = b]]
    <2>1. CASE Enters(t, op)
      <3>1. c.resumable \in BOOLEAN /\ [c EXCEPT !.op = op] = [c EXCEPT !.op = op, !.resumable = c.resumable]
        BY DEF Forms
      <3>. QED BY <2>1, <3>1 DEF Enters
    <2>2. CASE op = "idle" /\ Fails(t)
      <3>1. PICK a \in BOOLEAN : a = readLivepeerUploadDraft(c.file).paymentAttempted
        BY DEF readLivepeerUploadDraft, NoDraft, ClientInv, ClientTypes, Drafts
      <3>2. PICK b \in BOOLEAN : b = (c.resumable \/ a)
        <4>1. c.resumable \in BOOLEAN
          BY DEF Forms
        <4>2. CASE c.resumable \/ a
          BY <4>2, (c.resumable \/ a) = TRUE
        <4>3. CASE ~(c.resumable \/ a)
          BY <4>3, (c.resumable \/ a) = FALSE
        <4>. QED BY <4>2, <4>3
      <3>. QED BY <2>2, <3>1, <3>2 DEF Fails
    <2>. QED BY <2>1, <2>2
  <1>2. PICK f \in Forms : f = [c EXCEPT !.op = op, !.resumable = b]
    BY <1>0 DEF Forms
  <1>3. /\ f.op = op /\ f.job = c.job /\ f.file = c.file /\ f.ui = c.ui /\ f.payable = c.payable
        /\ f.tracked = c.tracked /\ f.shown = c.shown /\ f.seen = c.seen
    BY <1>2 DEF Forms
  <1>4. FormHolds(f)
    BY <1>3 DEF FormHolds, Paying
  <1>5. Within(f, jobs)
    BY <1>3 DEF Within
  <1>. QED BY <1>1, <1>2, <1>3, <1>4, <1>5

\* ... and so the invariant, when the step changes no more than marks.
LEMMA TabGoes ==
    ASSUME ClientInv, NEW t \in Tabs, NEW op \in {"idle", "reopening", "replacing", "replaced"} \cup Paying,
           Enters(t, op) \/ (op = "idle" /\ Fails(t)),
           op # "idle" => form[t].job # 0, op \in Paying => form[t].ui = "payment_pending",
           session' \in [Tabs -> [Jobs -> 0 .. keys']], keys' \in Nat,
           draft' \in Drafts, draft'.job = draft.job, draft'.file = draft.file, Marked => Marked',
           replacements' \subseteq [job : Jobs, key : Nat],
           UNCHANGED <<bookmark, uploads, abandoned, jobs, market, expired, relays, hint, overlooked>>
    PROVE  ClientInv'
  <1>1. PICK f \in Forms : /\ form' = [form EXCEPT ![t] = f] /\ FormHolds(f) /\ Within(f, jobs)
                           /\ f.job = form[t].job /\ f.file = form[t].file
    BY FormGoes
  <1>2. Carried(f, form[t])
    BY <1>1 DEF Carried
  <1>3. bookmark' \in 0 .. jobs /\ uploads' \in [Jobs -> {"none", "open", "done", "cancelled"}]
    BY DEF ClientInv, ClientTypes
  <1>. QED BY <1>1, <1>2, <1>3, FormStepKeeps

\* The invariant of what a step leaves alone.
LEMMA StoredTypes ==
    ASSUME ClientInv
    PROVE  /\ session \in [Tabs -> [Jobs -> 0 .. keys]] /\ keys \in Nat /\ bookmark \in 0 .. jobs
           /\ draft \in Drafts /\ draft.job \in Nat /\ draft.job <= jobs /\ draft.stage \in 0 .. 4
           /\ draft.paymentAttempted \in BOOLEAN /\ draft.keyReplacementPending \in BOOLEAN /\ draft.fingerprint \in Nat
           /\ uploads \in [Jobs -> {"none", "open", "done", "cancelled"}]
           /\ replacements \subseteq [job : Jobs, key : Nat]
           /\ market \in [Jobs -> PaidJobs] /\ hint \in 0 .. jobs /\ jobs \in Nat /\ jobs <= MaxJobs /\ MaxJobs \in Nat
           /\ NoDraft \in Drafts /\ NoDraft.job = 0
  BY ClientConstants DEF ClientInv, ClientTypes, Drafts, NoDraft

\* A page opens.
LEMMA OpenKeeps ==
    ASSUME ClientInv, NEW t \in Tabs, NEW keep \in BOOLEAN, openForm(t, keep)
    PROVE  ClientInv'
  <1>1. PICK x \in Nat : x <= jobs /\ form' = [form EXCEPT ![t] = [Blank EXCEPT !.tracked = x]]
    <2>1. localJob \in Nat /\ localJob <= jobs
      BY StoredTypes DEF localJob
    <2>2. findPendingLivepeerUpload(localJob) \in Nat /\ findPendingLivepeerUpload(localJob) <= jobs
      BY <2>1, LooksUpAll
    <2>. QED BY <2>2, StoredTypes DEF openForm
  <1>2. PICK f \in Forms : f = [Blank EXCEPT !.tracked = x]
    BY <1>1 DEF Blank, Forms, Stages, Operations
  <1>3. f.job = 0 /\ f.op = "idle" /\ f.ui = "draft" /\ ~f.payable /\ f.tracked = x /\ f.shown = 0 /\ f.seen = 0
    BY <1>2 DEF Blank
  <1>4. FormHolds(f) /\ Within(f, jobs) /\ Carried(f, form[t])
    BY <1>1, <1>3, StoredTypes DEF FormHolds, Within, Carried, Paying
  <1>5. /\ form' \in [Tabs -> Forms]
        /\ \A u \in Tabs : FormHolds(form'[u]) /\ Within(form'[u], jobs) /\ Carried(form'[u], form[u])
    BY <1>1, <1>2, <1>4, FormMoves
  <1>6. session' \in [Tabs -> [Jobs -> 0 .. keys]]
    <2>1. [j \in Jobs |-> 0] \in [Jobs -> 0 .. keys]
      BY StoredTypes
    <2>2. session' = [session EXCEPT ![t] = IF keep THEN session[t] ELSE [j \in Jobs |-> 0]]
      BY DEF openForm
    <2>. QED BY <2>1, <2>2, StoredTypes
  <1>7. /\ UNCHANGED <<abandoned, jobs, keys, market, expired, relays, replacements, uploads, hint>>
        /\ NothingNew
    <2>1. UNCHANGED <<abandoned, jobs, keys, market, expired, relays, replacements, uploads, hint>>
      BY DEF openForm, counters, storage
    <2>. QED BY <2>1, SameJobs
  <1>8. CASE UNCHANGED <<draft, bookmark, overlooked>>
    <2>1. ClientTypes'
      BY <1>5, <1>6, <1>7, <1>8 DEF ClientInv, ClientTypes
    <2>2. DraftKept
      BY <1>8 DEF DraftKept, Marked
    <2>. QED BY <1>5, <1>7, <1>8, <2>1, <2>2, ClientKeeps
  <1>9. CASE /\ draft' = releasedDraft(localJob, isPaidUploadDraft(draft))
             /\ bookmark' = rememberedJob(localJob)
             /\ overlooked' = (overlooked \/ Missed(findPendingLivepeerUpload(localJob)))
    <2>1. PICK s \in Nat : s = localJob /\ s <= jobs
      BY StoredTypes DEF localJob
    <2>2. PICK had \in BOOLEAN : had = isPaidUploadDraft(draft)
      <3>1. CASE isPaidUploadDraft(draft)
        BY <3>1, isPaidUploadDraft(draft) = TRUE
      <3>2. CASE ~isPaidUploadDraft(draft)
        BY <3>2, isPaidUploadDraft(draft) = FALSE
      <3>. QED BY <3>1, <3>2
    <2>3. draft' = releasedDraft(s, had) /\ draft' \in {draft, NoDraft}
      BY <1>9, <2>1, <2>2 DEF releasedDraft
    <2>4. ClientTypes'
      <3>1. bookmark' \in 0 .. jobs
        BY <1>9, <2>1, LooksUpAll
      <3>2. draft' \in Drafts /\ draft'.job <= jobs
        BY <2>3, StoredTypes
      <3>3. overlooked' \in BOOLEAN
        <4>1. CASE overlooked'
          BY <4>1, overlooked' = TRUE, <1>9
        <4>2. CASE ~overlooked'
          BY <4>2, <1>9
        <4>. QED BY <4>1, <4>2
      <3>. QED BY <1>5, <1>6, <1>7, <3>1, <3>2, <3>3 DEF ClientInv, ClientTypes
    <2>5. DraftKept
      <3>1. ~(isPaidUploadDraft(draft) /\ releasedDraft(s, had) # draft /\ draft.job # s)
        BY <2>1 DEF localJob
      <3>. QED BY <1>7, <1>9, <2>1, <2>2, <2>3, <3>1, ReleasedKept
    <2>6. overlooked => overlooked'
      BY <1>9
    <2>. QED BY <1>5, <1>7, <2>4, <2>5, <2>6, ClientKeeps
  <1>. QED BY <1>8, <1>9 DEF openForm, storage

\* The status card bookmarks the job it shows.
LEMMA StatusKeeps ==
    ASSUME ClientInv, NEW t \in Tabs, LivepeerUploadStatus(t)
    PROVE  ClientInv'
  <1>1. bookmark' \in 0 .. jobs
    BY OneForm DEF LivepeerUploadStatus, Within
  <1>2. UNCHANGED <<form, session, draft, abandoned, jobs, keys, market, expired, relays, replacements, uploads, hint, overlooked>>
    BY DEF LivepeerUploadStatus, counters, world, unclicked
  <1>3. ClientTypes'
    BY <1>1, <1>2 DEF ClientInv, ClientTypes
  <1>4. \A u \in Tabs : FormHolds(form'[u]) /\ Within(form'[u], jobs) /\ Carried(form'[u], form[u])
    BY <1>2 DEF ClientInv, Carried
  <1>5. DraftKept /\ NothingNew
    BY <1>2, SameJobs DEF DraftKept, Marked
  <1>. QED BY <1>2, <1>3, <1>4, <1>5, ClientKeeps

\* A draft shown in the form: its job, and a stage of the four.
LEMMA LoadsDraft ==
    ASSUME NEW f \in Forms, NEW d \in Drafts, NEW n \in Nat, f.op = "idle", f.ui = "draft", ~f.payable, f.job = 0, f.file # 0,
           Within(f, n), d.job <= n
    PROVE  /\ Loaded(f, d) \in Forms /\ FormHolds(Loaded(f, d)) /\ Within(Loaded(f, d), n)
           /\ Loaded(f, d).job = d.job /\ Loaded(f, d).file = f.file
  <1>1. CASE d.job = 0
    BY <1>1 DEF Loaded, FormHolds, Paying
  <1>2. CASE d.job # 0
    <2>1. PICK ui \in {"payment_required", "authorized", "upload_ready", "provider_processing"} :
            ui = transitionUploadStage("draft", restoreUploadStage(d.stage))
      BY StageRestored DEF Drafts
    <2>2. PICK b \in BOOLEAN : b = isPaidUploadDraft(d)
      <3>1. CASE isPaidUploadDraft(d)
        BY <3>1, isPaidUploadDraft(d) = TRUE
      <3>2. CASE ~isPaidUploadDraft(d)
        BY <3>2, isPaidUploadDraft(d) = FALSE
      <3>. QED BY <3>1, <3>2
    <2>3. d.job \in Nat
      BY DEF Drafts
    <2>4. PICK g \in Forms : g = [f EXCEPT !.job = d.job, !.resumable = b, !.ui = ui]
      BY <2>3 DEF Forms, Stages
    <2>5. Loaded(f, d) = g
      BY <1>2, <2>1, <2>2, <2>4 DEF Loaded
    <2>6. /\ g.op = f.op /\ g.job = d.job /\ g.file = f.file /\ g.ui = ui /\ g.payable = f.payable
          /\ g.tracked = f.tracked /\ g.shown = f.shown /\ g.seen = f.seen
      BY <2>4 DEF Forms
    <2>7. FormHolds(g)
      BY <1>2, <2>6 DEF FormHolds, Paying
    <2>8. Within(g, n)
      BY <2>6 DEF Within
    <2>. QED BY <2>5, <2>6, <2>7, <2>8
  <1>. QED BY <1>1, <1>2

\* Another file is chosen.
LEMMA SelectKeeps ==
    ASSUME ClientInv, NEW t \in Tabs, NEW n \in Files, selectFile(t, n)
    PROVE  ClientInv'
  <1>. PICK c \in Forms : c = form[t] /\ FormHolds(c) /\ Within(c, jobs)
    BY OneForm
  <1>1. PICK fresh \in Forms : fresh = [Blank EXCEPT !.tracked = c.tracked, !.file = n]
    <2>1. PICK x \in Nat : x = c.tracked
      BY DEF Forms
    <2>2. PICK b \in Forms : b = [Blank EXCEPT !.tracked = x]
      BY DEF Blank, Forms, Stages, Operations
    <2>3. [b EXCEPT !.file = n] \in Forms
      BY DEF Forms
    <2>. QED BY <2>1, <2>2, <2>3 DEF Blank
  <1>2. /\ fresh.op = "idle" /\ fresh.ui = "draft" /\ ~fresh.payable /\ fresh.job = 0 /\ fresh.file = n /\ n # 0
        /\ fresh.tracked = c.tracked /\ fresh.shown = 0 /\ fresh.seen = 0
    BY <1>1, ClientConstants DEF Blank
  <1>3. Within(fresh, jobs)
    BY <1>2, StoredTypes DEF Within
  <1>4. PICK s \in Nat : s = localJob /\ s <= jobs
    BY StoredTypes DEF localJob
  <1>5. PICK had \in BOOLEAN : had = isPaidUploadDraft(draft)
    <2>1. CASE isPaidUploadDraft(draft)
      BY <2>1, isPaidUploadDraft(draft) = TRUE
    <2>2. CASE ~isPaidUploadDraft(draft)
      BY <2>2, isPaidUploadDraft(draft) = FALSE
    <2>. QED BY <2>1, <2>2
  <1>6. PICK f \in Forms : /\ form' = [form EXCEPT ![t] = f] /\ FormHolds(f) /\ Within(f, jobs) /\ Carried(f, form[t])
    <2>1. CASE draft.file = n
      <3>1. PICK f \in Forms : f = Loaded(fresh, draft)
        BY <1>2, <1>3, LoadsDraft, StoredTypes
      <3>2. FormHolds(f) /\ Within(f, jobs) /\ f.job = draft.job /\ f.file = draft.file
        BY <1>2, <1>3, <2>1, <3>1, LoadsDraft, StoredTypes
      <3>3. form' = [form EXCEPT ![t] = f]
        BY <1>1, <2>1, <3>1 DEF selectFile
      <3>. QED BY <3>2, <3>3 DEF Carried
    <2>2. CASE draft.file # n
      <3>1. PICK f \in Forms : f = [fresh EXCEPT !.op = "matching", !.seen = s, !.had = had]
        BY DEF Forms, Operations
      <3>2. /\ f.op = "matching" /\ f.job = 0 /\ f.file = n /\ f.ui = "draft" /\ ~f.payable
            /\ f.tracked = fresh.tracked /\ f.shown = fresh.shown /\ f.seen = s
        BY <1>2, <3>1 DEF Forms
      <3>3. FormHolds(f)
        BY <1>2, <3>2 DEF FormHolds, Paying
      <3>4. Within(f, jobs)
        BY <1>2, <1>3, <1>4, <3>2, StoredTypes DEF Within
      <3>5. form' = [form EXCEPT ![t] = f]
        BY <1>1, <1>4, <1>5, <2>2, <3>1 DEF selectFile
      <3>. QED BY <3>2, <3>3, <3>4, <3>5 DEF Carried
    <2>. QED BY <2>1, <2>2
  <1>7. UNCHANGED <<session, keys, draft, bookmark, uploads, replacements, abandoned, jobs, market, expired, relays, hint, overlooked>>
    BY DEF selectFile, storage, counters, unclicked
  <1>. QED BY <1>6, <1>7, StoredTypes, FormStepKeeps DEF Marked

\* A lookup gets no answer: the form is idle again.
LEMMA LookupFails ==
    ASSUME ClientInv, NEW t \in Tabs, matchFails(t) \/ prepareFails(t)
    PROVE  ClientInv'
  <1>. PICK c \in Forms : c = form[t] /\ FormHolds(c) /\ Within(c, jobs)
    BY OneForm
  <1>1. PICK f \in Forms : f = [c EXCEPT !.op = "idle", !.seen = 0, !.had = FALSE]
    BY DEF Forms, Operations
  <1>2. /\ f.op = "idle" /\ f.job = c.job /\ f.file = c.file /\ f.ui = c.ui /\ f.payable = c.payable
        /\ f.tracked = c.tracked /\ f.shown = c.shown /\ f.seen = 0
    BY <1>1 DEF Forms
  <1>3. FormHolds(f)
    BY <1>2 DEF FormHolds, Paying
  <1>4. Within(f, jobs)
    BY <1>2, StoredTypes DEF Within
  <1>5. Carried(f, form[t])
    BY <1>2 DEF Carried
  <1>6. form' = [form EXCEPT ![t] = f]
    BY <1>1 DEF matchFails, prepareFails
  <1>7. UNCHANGED <<session, keys, draft, bookmark, uploads, replacements, abandoned, jobs, market, expired, relays, hint, overlooked>>
    BY DEF matchFails, prepareFails, storage, counters, world, unclicked
  <1>. QED BY <1>3, <1>4, <1>5, <1>6, <1>7, StoredTypes, FormStepKeeps DEF Marked

\* A payment is prepared: the pending job is looked up first.
LEMMA PrepareKeeps ==
    ASSUME ClientInv, NEW t \in Tabs, preparePayment(t)
    PROVE  ClientInv'
  <1>. PICK c \in Forms : c = form[t] /\ FormHolds(c) /\ Within(c, jobs)
    BY OneForm
  <1>1. PICK s \in Nat : s = localJob /\ s <= jobs
    BY StoredTypes DEF localJob
  <1>2. PICK had \in BOOLEAN : had = isPaidUploadDraft(draft)
    <2>1. CASE isPaidUploadDraft(draft)
      BY <2>1, isPaidUploadDraft(draft) = TRUE
    <2>2. CASE ~isPaidUploadDraft(draft)
      BY <2>2, isPaidUploadDraft(draft) = FALSE
    <2>. QED BY <2>1, <2>2
  <1>3. transitionUploadStage(moveUploadStage(t, "draft"), "preflight") = "preflight"
    BY OneForm, StageMoves DEF moveUploadStage
  <1>4. PICK f \in Forms : f = [c EXCEPT !.op = "looking", !.seen = s, !.had = had, !.ui = "preflight"]
    BY DEF Forms, Operations, Stages
  <1>5. /\ f.op = "looking" /\ f.job = c.job /\ f.file = c.file /\ f.ui = "preflight" /\ f.payable = c.payable
        /\ f.tracked = c.tracked /\ f.shown = c.shown /\ f.seen = s
    BY <1>4 DEF Forms
  <1>6. FormHolds(f)
    BY <1>5 DEF FormHolds, Paying, preparePayment
  <1>7. Within(f, jobs) /\ Carried(f, form[t])
    BY <1>1, <1>5 DEF Within, Carried
  <1>8. form' = [form EXCEPT ![t] = f]
    BY <1>1, <1>2, <1>3, <1>4 DEF preparePayment
  <1>9. UNCHANGED <<session, keys, draft, bookmark, uploads, replacements, abandoned, jobs, market, expired, relays, hint, overlooked>>
    BY DEF preparePayment, storage, counters, unclicked
  <1>. QED BY <1>6, <1>7, <1>8, <1>9, StoredTypes, FormStepKeeps DEF Marked

\* What a tab's lookup did, by the tab's record of what it asked for.
LEMMA LookedUp ==
    ASSUME ClientInv, NEW t \in Tabs, LooksUp(t),
           UNCHANGED <<abandoned, market, expired, relays, uploads>>
    PROVE  /\ bookmark' \in 0 .. jobs /\ overlooked' \in BOOLEAN /\ (overlooked => overlooked') /\ NothingNew
           /\ form[t].seen \in Nat /\ form[t].seen <= jobs /\ form[t].had \in BOOLEAN
           /\ findPendingLivepeerUpload(form[t].seen) \in 0 .. jobs
           /\ releasedDraft(form[t].seen, form[t].had) \in {draft, NoDraft}
           /\ ~overlooked' =>
                /\ ~overlooked /\ ~Missed(findPendingLivepeerUpload(form[t].seen))
                /\ ~(/\ isPaidUploadDraft(draft) /\ releasedDraft(form[t].seen, form[t].had) # draft
                     /\ draft.job # form[t].seen)
  <1>1. form[t].seen \in Nat /\ form[t].seen <= jobs /\ form[t].had \in BOOLEAN /\ jobs \in Nat
    BY OneForm DEF Within
  <1>2. bookmark' \in 0 .. jobs
    BY <1>1, LooksUpAll DEF LooksUp
  <1>3. overlooked' \in BOOLEAN
    <2>1. CASE overlooked'
      BY <2>1, overlooked' = TRUE DEF LooksUp
    <2>2. CASE ~overlooked'
      BY <2>2, overlooked' = FALSE DEF LooksUp
    <2>. QED BY <2>1, <2>2
  <1>4. findPendingLivepeerUpload(form[t].seen) \in 0 .. jobs
    BY <1>1, LooksUpAll
  <1>5. /\ overlooked => overlooked'
        /\ ~overlooked' =>
                /\ ~overlooked /\ ~Missed(findPendingLivepeerUpload(form[t].seen))
                /\ ~(/\ isPaidUploadDraft(draft) /\ releasedDraft(form[t].seen, form[t].had) # draft
                     /\ draft.job # form[t].seen)
    BY DEF LooksUp
  <1>. QED BY <1>1, <1>2, <1>3, <1>4, <1>5, SameJobs DEF releasedDraft

\* A new draft.
NewDraft(j, n) == [NoDraft EXCEPT !.job = j, !.file = n]
LEMMA DraftMade ==
    ASSUME NEW j \in Nat, NEW n \in Nat
    PROVE  NewDraft(j, n) \in Drafts /\ NewDraft(j, n).job = j /\ NewDraft(j, n).file = n /\ NewDraft(j, n).stage = 0
  <1>1. NoDraft \in Drafts
    BY DEF NoDraft, Drafts
  <1>2. PICK c \in Drafts : c = NoDraft
    BY <1>1
  <1>3. ~c.keyReplacementPending /\ ~c.paymentAttempted /\ c.stage = 0 /\ c.fingerprint = 0
    BY <1>2 DEF NoDraft
  <1>4. PICK d \in Drafts : d = [c EXCEPT !.job = j, !.file = n]
    BY DEF Drafts
  <1>5. /\ d.job = j /\ d.file = n /\ d.stage = c.stage /\ d.paymentAttempted = c.paymentAttempted
        /\ d.keyReplacementPending = c.keyReplacementPending /\ d.fingerprint = c.fingerprint
    BY <1>4 DEF Drafts
  <1>6. NewDraft(j, n) = d
    BY <1>2, <1>4 DEF NewDraft
  <1>. QED BY <1>3, <1>5, <1>6

\* ... and one built again from the chain.
RebuiltDraft(j, n) == [NoDraft EXCEPT !.job = j, !.file = n, !.stage = 1, !.paymentAttempted = TRUE]
LEMMA DraftRebuilt ==
    ASSUME NEW j \in Nat, NEW n \in Nat
    PROVE  RebuiltDraft(j, n) \in Drafts /\ RebuiltDraft(j, n).job = j /\ RebuiltDraft(j, n).file = n
  <1>1. NoDraft \in Drafts
    BY DEF NoDraft, Drafts
  <1>2. PICK c \in Drafts : c = NoDraft
    BY <1>1
  <1>3. PICK d \in Drafts : d = [c EXCEPT !.job = j, !.file = n, !.stage = 1, !.paymentAttempted = TRUE]
    <2>1. 1 \in 0 .. 4
      OBVIOUS
    <2>. QED BY <2>1 DEF Drafts
  <1>4. d.job = j /\ d.file = n
    BY <1>3 DEF Drafts
  <1>5. RebuiltDraft(j, n) = d
    BY <1>2, <1>3 DEF RebuiltDraft
  <1>. QED BY <1>4, <1>5

\* A lost record is built again only for a job that was cancelled: any other's was not lost.
LEMMA MatchKeeps ==
    ASSUME ClientInv, NEW t \in Tabs, matchPendingLivepeerUpload(t)
    PROVE  ClientInv'
  <1>. PICK c \in Forms : c = form[t] /\ FormHolds(c) /\ Within(c, jobs)
    BY OneForm
  <1>0. UNCHANGED <<session, abandoned, jobs, keys, market, expired, relays, replacements, uploads, hint>>
    BY DEF matchPendingLivepeerUpload, counters
  <1>1. /\ bookmark' \in 0 .. jobs /\ overlooked' \in BOOLEAN /\ (overlooked => overlooked') /\ NothingNew
        /\ c.seen \in Nat /\ c.seen <= jobs /\ c.had \in BOOLEAN
        /\ findPendingLivepeerUpload(c.seen) \in 0 .. jobs
        /\ releasedDraft(c.seen, c.had) \in {draft, NoDraft}
        /\ ~overlooked' =>
             /\ ~overlooked /\ ~Missed(findPendingLivepeerUpload(c.seen))
             /\ ~(isPaidUploadDraft(draft) /\ releasedDraft(c.seen, c.had) # draft /\ draft.job # c.seen)
    BY <1>0, LookedUp DEF matchPendingLivepeerUpload
  <1>2. PICK pending \in 0 .. jobs : pending = findPendingLivepeerUpload(c.seen)
    BY <1>1
  <1>3. PICK kept \in Drafts : kept = releasedDraft(c.seen, c.had) /\ kept \in {draft, NoDraft} /\ kept.job <= jobs
    BY <1>1, StoredTypes
  <1>4. c.op = "matching" /\ c.ui = "draft" /\ ~c.payable /\ c.job = 0 /\ c.file # 0 /\ c.file \in Nat /\ pending \in Nat
    BY OneForm, StoredTypes DEF matchPendingLivepeerUpload, FormHolds
  <1>5. PICK rebuilt \in Drafts :
          /\ rebuilt = RebuiltDraft(pending, c.file)
          /\ rebuilt.job = pending /\ rebuilt.file = c.file
    BY <1>4, DraftRebuilt
  <1>6. ASSUME NEW found \in Drafts, found.job <= jobs,
               form' = [form EXCEPT ![t] = Loaded([c EXCEPT !.op = "idle", !.seen = 0, !.had = FALSE,
                                                    !.shown = IF found.job = 0 THEN pending ELSE 0], found)]
        PROVE  \E f \in Forms : /\ form' = [form EXCEPT ![t] = f] /\ FormHolds(f) /\ Within(f, jobs)
                                /\ f.job = found.job /\ f.file = c.file
    <2>1. PICK x \in 0 .. jobs : x = IF found.job = 0 THEN pending ELSE 0
      BY StoredTypes
    <2>2. x \in Nat /\ x <= jobs
      BY StoredTypes
    <2>3. PICK g \in Forms : g = [c EXCEPT !.op = "idle", !.seen = 0, !.had = FALSE, !.shown = x]
      BY <2>2 DEF Forms, Operations
    <2>4. /\ g.op = "idle" /\ g.job = c.job /\ g.file = c.file /\ g.ui = c.ui /\ g.payable = c.payable
          /\ g.tracked = c.tracked /\ g.shown = x /\ g.seen = 0
      BY <2>3 DEF Forms
    <2>5. Within(g, jobs)
      BY <2>2, <2>4, StoredTypes DEF Within
    <2>6. /\ Loaded(g, found) \in Forms /\ FormHolds(Loaded(g, found)) /\ Within(Loaded(g, found), jobs)
          /\ Loaded(g, found).job = found.job /\ Loaded(g, found).file = g.file
      BY <1>4, <1>6, <2>4, <2>5, LoadsDraft, StoredTypes
    <2>. QED BY <1>6, <2>1, <2>3, <2>4, <2>6
  <1>7. CASE /\ draft' = rebuilt /\ pending # 0 /\ kept.job # pending
             /\ form' = [form EXCEPT ![t] = Loaded([c EXCEPT !.op = "idle", !.seen = 0, !.had = FALSE,
                                                    !.shown = IF rebuilt.job = 0 THEN pending ELSE 0], rebuilt)]
    <2>1. PICK f \in Forms : /\ form' = [form EXCEPT ![t] = f] /\ FormHolds(f) /\ Within(f, jobs)
                             /\ f.job = pending /\ f.file = c.file
      <3>1. rebuilt \in Drafts /\ rebuilt.job <= jobs /\ rebuilt.job = pending
        BY <1>5, StoredTypes
      <3>. QED BY <1>6, <1>7, <3>1
    <2>2. \A u \in Tabs : form'[u] = IF u = t THEN f ELSE form[u]
      BY <2>1 DEF ClientInv, ClientTypes
    <2>3. \A u \in Tabs : FormHolds(form'[u]) /\ Within(form'[u], jobs')
      BY <1>0, <2>1, <2>2 DEF ClientInv
    <2>4. ClientTypes'
      <3>1. form' \in [Tabs -> Forms]
        BY <2>1 DEF ClientInv, ClientTypes
      <3>2. draft' \in Drafts /\ draft'.job <= jobs
        BY <1>5, <1>7, StoredTypes
      <3>. QED BY <1>0, <1>1, <3>1, <3>2 DEF ClientInv, ClientTypes
    <2>5. ASSUME ~overlooked' PROVE OneLive' /\ OwedKept' /\ FilesAgree'
      <3>1. OneLive /\ OwedKept /\ FilesAgree
        BY <1>1, <2>5 DEF ClientInv
      <3>2. pending \in Jobs /\ readPendingLivepeerUpload(pending) /\ \A j \in Jobs : Live(j) => j = pending
        BY <1>1, <1>2, <1>7, <2>5, LooksUpAll
      <3>3. \A j \in Jobs : ~Owed(j)
        <4>. SUFFICES ASSUME NEW j \in Jobs, Owed(j) PROVE FALSE
          OBVIOUS
        <4>1. j = pending /\ kept = draft /\ draft.job = j
          BY <1>1, <1>2, <1>3, <2>5, OwedStays
        <4>. QED BY <1>7, <4>1
      <3>4. uploads[pending] = "cancelled"
        BY <3>2, <3>3 DEF Owed, readPendingLivepeerUpload
      <3>5. OneLive'
        <4>1. \A j \in Jobs : Live(j)' => j = pending
          BY <1>1, <3>2 DEF NothingNew
        <4>2. draft'.job = pending
          BY <1>5, <1>7
        <4>3. \A j \in Jobs : Live(j)' => draft'.job \in {0, j}
          BY <4>1, <4>2
        <4>4. \A j, k \in Jobs : Live(j)' /\ Live(k)' => j = k
          BY <4>1
        <4>. QED BY <4>3, <4>4 DEF OneLive
      <3>6. OwedKept'
        <4>1. \A j \in Jobs : ~Owed(j)'
          BY <1>1, <3>3 DEF NothingNew
        <4>. QED BY <4>1 DEF OwedKept
      <3>7. FilesAgree'
        <4>1. \A j \in Jobs : uploads'[j] # "cancelled" => j # pending /\ uploads[j] # "cancelled"
          BY <1>0, <3>4
        <4>2. \A u \in Tabs : form'[u].job # pending => form'[u] = form[u]
          BY <2>1, <2>2
        <4>3. draft'.job = pending
          BY <1>5, <1>7
        <4>. QED BY <3>1, <4>1, <4>2, <4>3 DEF FilesAgree
      <3>. QED BY <3>5, <3>6, <3>7
    <2>6. \A u \in Tabs : FormHolds(form[u])' /\ Within(form[u], jobs)'
      BY <2>3 DEF FormHolds, Within
    <2>. QED BY <2>4, <2>5, <2>6 DEF ClientInv
  <1>8. CASE /\ draft' = kept
             /\ \E found \in {kept, NoDraft} :
                  /\ found = kept => found.job = 0 \/ found.file = c.file
                  /\ form' = [form EXCEPT ![t] = Loaded([c EXCEPT !.op = "idle", !.seen = 0, !.had = FALSE,
                                                    !.shown = IF found.job = 0 THEN pending ELSE 0], found)]
    <2>1. PICK found \in {kept, NoDraft} :
                  /\ found = kept => found.job = 0 \/ found.file = c.file
                  /\ form' = [form EXCEPT ![t] = Loaded([c EXCEPT !.op = "idle", !.seen = 0, !.had = FALSE,
                                                    !.shown = IF found.job = 0 THEN pending ELSE 0], found)]
      BY <1>8
    <2>2. found \in Drafts /\ found.job <= jobs
      BY <1>3, StoredTypes
    <2>3. PICK f \in Forms : /\ form' = [form EXCEPT ![t] = f] /\ FormHolds(f) /\ Within(f, jobs)
                             /\ f.job = found.job /\ f.file = c.file
      BY <1>6, <2>1, <2>2
    <2>4. Carried(f, form[t])
      BY <1>3, <2>1, <2>3, StoredTypes DEF Carried
    <2>5. /\ form' \in [Tabs -> Forms]
          /\ \A u \in Tabs : FormHolds(form'[u]) /\ Within(form'[u], jobs) /\ Carried(form'[u], form[u])
      BY <2>3, <2>4, FormMoves
    <2>6. ClientTypes'
      <3>1. draft' \in Drafts /\ draft'.job <= jobs
        BY <1>3, <1>8
      <3>. QED BY <1>0, <1>1, <2>5, <3>1 DEF ClientInv, ClientTypes
    <2>7. DraftKept
      BY <1>1, <1>3, <1>8, ReleasedKept
    <2>. QED BY <1>0, <1>1, <2>5, <2>6, <2>7, ClientKeeps
  <1>9. \/ /\ draft' = rebuilt /\ pending # 0 /\ kept.job # pending
           /\ form' = [form EXCEPT ![t] = Loaded([c EXCEPT !.op = "idle", !.seen = 0, !.had = FALSE,
                                                    !.shown = IF rebuilt.job = 0 THEN pending ELSE 0], rebuilt)]
        \/ /\ draft' = kept
           /\ \E found \in {kept, NoDraft} :
                  /\ found = kept => found.job = 0 \/ found.file = c.file
                  /\ form' = [form EXCEPT ![t] = Loaded([c EXCEPT !.op = "idle", !.seen = 0, !.had = FALSE,
                                                    !.shown = IF found.job = 0 THEN pending ELSE 0], found)]
    <2>1. CASE /\ pending # 0 /\ SizeOf[c.file] = market[pending].size
               /\ kept.job # pending /\ mayReplaceDraft(kept, rebuilt)
      BY <1>2, <1>3, <1>5, <2>1 DEF matchPendingLivepeerUpload, RebuiltDraft
    <2>2. CASE ~(/\ pending # 0 /\ SizeOf[c.file] = market[pending].size
                 /\ kept.job # pending /\ mayReplaceDraft(kept, rebuilt))
      <3>1. PICK found : /\ found = IF /\ pending # 0 /\ SizeOf[c.file] = market[pending].size
                                       /\ kept.job = pending /\ kept.file = c.file THEN kept ELSE NoDraft
                         /\ form' = [form EXCEPT ![t] = Loaded([c EXCEPT !.op = "idle", !.seen = 0, !.had = FALSE,
                                                    !.shown = IF found.job = 0 THEN pending ELSE 0], found)]
        BY <1>2, <1>3, <1>5, <2>2 DEF matchPendingLivepeerUpload, RebuiltDraft
      <3>2. draft' = kept
        BY <1>2, <1>3, <1>5, <2>2 DEF matchPendingLivepeerUpload, RebuiltDraft
      <3>3. found \in {kept, NoDraft} /\ (found = kept => found.job = 0 \/ found.file = c.file)
        BY <3>1 DEF NoDraft
      <3>. QED BY <3>1, <3>2, <3>3
    <2>. QED BY <2>1, <2>2
  <1>. QED BY <1>7, <1>8, <1>9

\* What is stored of a draft without marks: its job and file, and the marks the same draft had.
LEMMA DraftWritten ==
    ASSUME NEW old \in Drafts, NEW d \in Drafts, d.stage = 0
    PROVE  /\ writeLivepeerUploadDraft(old, d) \in Drafts
           /\ writeLivepeerUploadDraft(old, d).job = d.job /\ writeLivepeerUploadDraft(old, d).file = d.file
           /\ old.job = d.job /\ old.file = d.file =>
                /\ old.paymentAttempted => writeLivepeerUploadDraft(old, d).paymentAttempted
                /\ writeLivepeerUploadDraft(old, d).stage = old.stage
  <1>1. CASE ~(old.job = d.job /\ old.file = d.file)
    BY <1>1 DEF writeLivepeerUploadDraft
  <1>2. CASE old.job = d.job /\ old.file = d.file
    <2>1. PICK m \in 0 .. 4 : m = Max({d.stage, old.stage}) /\ m = old.stage
      <3>1. old.stage \in 0 .. 4
        BY DEF Drafts
      <3>2. Max({d.stage, old.stage}) = IF d.stage >= old.stage THEN d.stage ELSE old.stage
        BY <3>1, MaxOfTwo
      <3>. QED BY <3>1, <3>2
    <2>2. PICK p \in BOOLEAN : p = (d.paymentAttempted \/ old.paymentAttempted)
      <3>1. CASE d.paymentAttempted \/ old.paymentAttempted
        BY <3>1, (d.paymentAttempted \/ old.paymentAttempted) = TRUE
      <3>2. CASE ~(d.paymentAttempted \/ old.paymentAttempted)
        BY <3>2, (d.paymentAttempted \/ old.paymentAttempted) = FALSE
      <3>. QED BY <3>1, <3>2
    <2>3. PICK k \in BOOLEAN : k = (d.keyReplacementPending \/ old.keyReplacementPending)
      <3>1. CASE d.keyReplacementPending \/ old.keyReplacementPending
        BY <3>1, (d.keyReplacementPending \/ old.keyReplacementPending) = TRUE
      <3>2. CASE ~(d.keyReplacementPending \/ old.keyReplacementPending)
        BY <3>2, (d.keyReplacementPending \/ old.keyReplacementPending) = FALSE
      <3>. QED BY <3>1, <3>2
    <2>4. PICK n \in Nat : n = IF d.fingerprint = 0 THEN old.fingerprint ELSE d.fingerprint
      BY DEF Drafts
    <2>5. PICK w \in Drafts : w = [d EXCEPT !.stage = m, !.paymentAttempted = p,
                                            !.keyReplacementPending = k, !.fingerprint = n]
      BY DEF Drafts
    <2>6. writeLivepeerUploadDraft(old, d) = w
      BY <1>2, <2>1, <2>2, <2>3, <2>4, <2>5 DEF writeLivepeerUploadDraft
    <2>7. w.job = d.job /\ w.file = d.file /\ w.paymentAttempted = p /\ w.stage = m
      BY <2>5 DEF Drafts
    <2>. QED BY <2>1, <2>2, <2>6, <2>7
  <1>. QED BY <1>1, <1>2

\* A draft is written for the form's job, or a new one: nothing that is owed is written over.
LEMMA WritesKeep ==
    ASSUME ClientInv, NEW t \in Tabs, writesDraft(t)
    PROVE  ClientInv'
  <1>. PICK c \in Forms : c = form[t] /\ FormHolds(c) /\ Within(c, jobs)
    BY OneForm
  <1>0. UNCHANGED <<session, abandoned, keys, market, expired, relays, replacements, uploads, hint>>
    BY DEF writesDraft
  <1>1. /\ bookmark' \in 0 .. jobs /\ overlooked' \in BOOLEAN /\ (overlooked => overlooked') /\ NothingNew
        /\ c.seen \in Nat /\ c.seen <= jobs /\ c.had \in BOOLEAN
        /\ findPendingLivepeerUpload(c.seen) \in 0 .. jobs
        /\ releasedDraft(c.seen, c.had) \in {draft, NoDraft}
        /\ ~overlooked' =>
             /\ ~overlooked /\ ~Missed(findPendingLivepeerUpload(c.seen))
             /\ ~(isPaidUploadDraft(draft) /\ releasedDraft(c.seen, c.had) # draft /\ draft.job # c.seen)
    BY <1>0, LookedUp DEF writesDraft
  <1>2. PICK found \in 0 .. jobs : found = findPendingLivepeerUpload(c.seen)
    BY <1>1
  <1>3. PICK kept \in Drafts : kept = releasedDraft(c.seen, c.had) /\ kept \in {draft, NoDraft} /\ kept.job <= jobs
    BY <1>1, StoredTypes
  <1>4. /\ c.op = "looking" /\ c.ui = "preflight" /\ ~c.payable /\ c.file # 0 /\ c.file \in Nat /\ found \in Nat
        /\ c.job \in Nat /\ c.job <= jobs
    BY OneForm, StoredTypes DEF writesDraft, FormHolds, Within
  <1>5. PICK done \in Forms : done = [c EXCEPT !.op = "idle", !.seen = 0, !.had = FALSE]
    BY DEF Forms, Operations
  <1>6. /\ done.op = "idle" /\ done.job = c.job /\ done.file = c.file /\ done.ui = c.ui /\ done.payable = c.payable
        /\ done.tracked = c.tracked /\ done.shown = c.shown /\ done.seen = 0
    BY <1>5 DEF Forms
  <1>7. PICK chosen \in Nat : /\ chosen = IF c.job # 0 THEN c.job ELSE jobs + 1
                              /\ chosen # 0 /\ (chosen = c.job \/ chosen > jobs) /\ chosen <= jobs + 1
    BY <1>4, StoredTypes
  <1>8. PICK new \in Drafts : /\ new = NewDraft(chosen, c.file)
                              /\ new.job = chosen /\ new.file = c.file /\ new.stage = 0
    BY <1>4, <1>7, DraftMade
  <1>12. new.job = chosen /\ new.file = c.file /\ new.stage = 0
    BY <1>8
  <1>9. CASE /\ draft' = kept /\ jobs' = jobs
             /\ form' = [form EXCEPT ![t] = [done EXCEPT !.shown = found]]
    <2>1. PICK f \in Forms : f = [done EXCEPT !.shown = found]
      BY <1>4 DEF Forms
    <2>2. /\ f.op = "idle" /\ f.job = c.job /\ f.file = c.file /\ f.ui = c.ui /\ f.payable = c.payable
          /\ f.tracked = c.tracked /\ f.shown = found /\ f.seen = 0
      BY <1>6, <2>1 DEF Forms
    <2>3. FormHolds(f) /\ Within(f, jobs) /\ Carried(f, form[t])
      BY <1>2, <1>4, <2>2, StoredTypes DEF FormHolds, Within, Carried, Paying
    <2>4. /\ form' \in [Tabs -> Forms]
          /\ \A u \in Tabs : FormHolds(form'[u]) /\ Within(form'[u], jobs) /\ Carried(form'[u], form[u])
      BY <1>9, <2>1, <2>3, FormMoves
    <2>5. ClientTypes'
      BY <1>0, <1>1, <1>3, <1>9, <2>4 DEF ClientInv, ClientTypes
    <2>6. DraftKept
      BY <1>1, <1>3, <1>9, ReleasedKept
    <2>. QED BY <1>0, <1>1, <1>9, <2>4, <2>5, <2>6, ClientKeeps
  <1>10. CASE /\ found \in {0, c.job} /\ chosen <= MaxJobs /\ jobs' = Max({jobs, chosen})
              /\ draft' = IF mayReplaceDraft(kept, new) THEN writeLivepeerUploadDraft(kept, new) ELSE kept
              /\ \/ form' = [form EXCEPT ![t] = [done EXCEPT !.job = chosen]]
                 \/ form' = [form EXCEPT ![t] = [done EXCEPT !.job = chosen, !.payable = TRUE, !.ui = "payment_required"]]
    <2>1. jobs' \in Nat /\ jobs' <= MaxJobs /\ jobs <= jobs' /\ chosen <= jobs'
      <3>1. Max({jobs, chosen}) = IF jobs >= chosen THEN jobs ELSE chosen
        BY StoredTypes, MaxOfTwo
      <3>. QED BY <1>10, <3>1, StoredTypes
    <2>2. PICK f \in Forms : /\ form' = [form EXCEPT ![t] = f] /\ FormHolds(f) /\ Within(f, jobs')
                             /\ f.job = chosen /\ f.file = c.file
      <3>1. CASE form' = [form EXCEPT ![t] = [done EXCEPT !.job = chosen]]
        <4>1. PICK f \in Forms : f = [done EXCEPT !.job = chosen]
          BY DEF Forms
        <4>2. /\ f.op = "idle" /\ f.job = chosen /\ f.file = c.file /\ f.ui = c.ui /\ f.payable = c.payable
              /\ f.tracked = c.tracked /\ f.shown = c.shown /\ f.seen = 0
          BY <1>6, <4>1 DEF Forms
        <4>3. c.tracked \in Nat /\ c.shown \in Nat
          BY DEF Forms
        <4>4. FormHolds(f) /\ Within(f, jobs')
          BY <1>4, <1>7, <2>1, <4>2, <4>3, StoredTypes DEF FormHolds, Within, Paying
        <4>. QED BY <3>1, <4>1, <4>2, <4>4
      <3>2. CASE form' = [form EXCEPT ![t] = [done EXCEPT !.job = chosen, !.payable = TRUE, !.ui = "payment_required"]]
        <4>1. PICK f \in Forms : f = [done EXCEPT !.job = chosen, !.payable = TRUE, !.ui = "payment_required"]
          BY DEF Forms, Stages
        <4>2. /\ f.op = "idle" /\ f.job = chosen /\ f.file = c.file /\ f.ui = "payment_required"
              /\ f.tracked = c.tracked /\ f.shown = c.shown /\ f.seen = 0
          BY <1>6, <4>1 DEF Forms
        <4>3. c.tracked \in Nat /\ c.shown \in Nat
          BY DEF Forms
        <4>4. FormHolds(f) /\ Within(f, jobs')
          BY <1>4, <1>7, <2>1, <4>2, <4>3, StoredTypes DEF FormHolds, Within, Paying, Payables
        <4>. QED BY <3>2, <4>1, <4>2, <4>4
      <3>. QED BY <1>10, <3>1, <3>2
    <2>3. \A u \in Tabs : form'[u] = IF u = t THEN f ELSE form[u]
      BY <2>2 DEF ClientInv, ClientTypes
    <2>4. \A u \in Tabs : FormHolds(form'[u]) /\ Within(form'[u], jobs')
      <3>1. \A u \in Tabs : u # t => FormHolds(form[u]) /\ Within(form[u], jobs')
        BY <2>1, OneForm DEF Within
      <3>. QED BY <2>2, <2>3, <3>1
    <2>5. /\ draft' \in Drafts
          /\ draft' = kept \/ /\ draft'.job = chosen /\ draft'.file = c.file
                              /\ kept.job = chosen /\ kept.file = c.file =>
                                   /\ kept.paymentAttempted => draft'.paymentAttempted
                                   /\ draft'.stage = kept.stage
      <3>1. PICK w \in Drafts : w = writeLivepeerUploadDraft(kept, new)
        BY <1>3, <1>12, DraftWritten
      <3>2. /\ w.job = chosen /\ w.file = c.file
            /\ kept.job = chosen /\ kept.file = c.file =>
                 /\ kept.paymentAttempted => w.paymentAttempted
                 /\ w.stage = kept.stage
        BY <1>3, <1>12, <3>1, DraftWritten
      <3>3. draft' \in {kept, w}
        BY <1>10, <3>1
      <3>. QED BY <3>2, <3>3
    <2>6. ClientTypes'
      <3>1. draft'.job <= jobs' /\ bookmark' \in 0 .. jobs' /\ abandoned \subseteq 1 .. jobs' /\ hint \in 0 .. jobs' /\ jobs' \in 0 .. MaxJobs
        <4>1. abandoned \subseteq 1 .. jobs /\ hint \in 0 .. jobs
          BY DEF ClientInv, ClientTypes
        <4>2. kept.job \in Nat
          BY DEF Drafts
        <4>. QED BY <1>1, <1>3, <2>1, <2>5, <4>1, <4>2, StoredTypes
      <3>2. \A r \in relays : r.job <= jobs'
        <4>1. \A r \in relays : r.job \in Nat /\ r.job <= jobs
          BY DEF ClientInv, ClientTypes, Jobs
        <4>. QED BY <2>1, <4>1, StoredTypes
      <3>3. form' \in [Tabs -> Forms]
        BY <2>2 DEF ClientInv, ClientTypes
      <3>. QED BY <1>0, <1>1, <2>5, <3>1, <3>2, <3>3 DEF ClientInv, ClientTypes
    <2>7. ASSUME ~overlooked' PROVE OneLive' /\ OwedKept' /\ FilesAgree'
      <3>1. OneLive /\ OwedKept /\ FilesAgree
        BY <1>1, <2>7 DEF ClientInv
      <3>2. \A j \in Jobs : Live(j)' => j = chosen /\ draft.job \in {0, j}
        <4>1. \A j \in Jobs : Live(j) => j = found /\ j # 0
          BY <1>1, <1>2, <2>7, LooksUpAll, ClientConstants DEF Jobs
        <4>2. \A j \in Jobs : Live(j) => j = chosen
          BY <1>7, <1>10, <4>1
        <4>. QED BY <1>1, <3>1, <4>2 DEF NothingNew, OneLive
      <3>3. OneLive'
        <4>1. draft'.job \in {0, draft.job, chosen}
          BY <1>3, <2>5 DEF NoDraft
        <4>2. \A j \in Jobs : Live(j)' => draft'.job \in {0, j}
          BY <3>2, <4>1
        <4>3. \A j, k \in Jobs : Live(j)' /\ Live(k)' => j = k
          BY <3>2
        <4>. QED BY <4>2, <4>3 DEF OneLive
      <3>4. OwedKept'
        <4>. SUFFICES ASSUME NEW j \in Jobs, Owed(j)' PROVE draft'.job = j /\ Marked'
          BY DEF OwedKept
        <4>1. Owed(j)
          BY <1>1 DEF NothingNew
        <4>2. j = found /\ kept = draft /\ draft.job = j /\ Marked /\ j # 0
          BY <1>1, <1>2, <1>3, <2>7, <4>1, OwedStays, ClientConstants DEF Jobs
        <4>3. j = c.job /\ j = chosen
          BY <1>7, <1>10, <4>2
        <4>4. c.file = draft.file
          BY <3>1, <4>1, <4>2, <4>3 DEF FilesAgree, Owed
        <4>. QED BY <2>5, <4>2, <4>3, <4>4 DEF Marked
      <3>5. FilesAgree'
        <4>. SUFFICES ASSUME NEW j \in Jobs, uploads'[j] # "cancelled"
                      PROVE  /\ \A u \in Tabs : form'[u].job = j /\ draft'.job = j => form'[u].file = draft'.file
                             /\ \A u, v \in Tabs : form'[u].job = j /\ form'[v].job = j => form'[u].file = form'[v].file
          BY DEF FilesAgree
        <4>1. uploads[j] # "cancelled" /\ j # 0 /\ j \in Nat
          BY <1>0, ClientConstants DEF Jobs
        <4>2. \A u \in Tabs : form[u].job \in Nat /\ form[u].job <= jobs
          BY OneForm DEF Within
        <4>3. \A u \in Tabs : form'[u].job = j /\ u # t => form[u].job = j /\ form'[u].file = form[u].file /\ j <= jobs
          BY <2>3, <4>2
        <4>4. form'[t].job = j => j = chosen /\ form'[t].file = c.file
          BY <2>2, <2>3
        <4>5. draft'.job = j => \/ draft.job = j /\ draft'.file = draft.file /\ j <= jobs
                                \/ j = chosen /\ draft'.file = c.file
          BY <1>3, <2>5, <4>1, StoredTypes DEF NoDraft
        <4>6. j = chosen /\ j <= jobs => form[t].job = j
          BY <1>7, StoredTypes
        <4>. QED BY <3>1, <4>1, <4>3, <4>4, <4>5, <4>6 DEF FilesAgree
      <3>. QED BY <3>3, <3>4, <3>5
    <2>8. \A u \in Tabs : FormHolds(form[u])' /\ Within(form[u], jobs)'
      BY <2>4 DEF FormHolds, Within
    <2>. QED BY <2>6, <2>7, <2>8 DEF ClientInv
  <1>11. moveUploadStage(t, "payment_required") = "payment_required"
    BY <1>4, StageMoves DEF moveUploadStage
  <1>. QED BY <1>2, <1>3, <1>5, <1>7, <1>8, <1>9, <1>10, <1>11 DEF writesDraft, noOtherPending, NewDraft

\* A tab's key of one job is stored or cleared.
LEMMA KeyStored ==
    ASSUME ClientInv, NEW t \in Tabs, NEW j \in Jobs, NEW k \in Nat, keys' \in Nat, keys <= keys', k <= keys',
           session' = [session EXCEPT ![t][j] = k]
    PROVE  session' \in [Tabs -> [Jobs -> 0 .. keys']]
  <1>1. session \in [Tabs -> [Jobs -> 0 .. keys']]
    <2>1. \A x \in 0 .. keys : x \in 0 .. keys'
      BY StoredTypes
    <2>2. \A u \in Tabs : session[u] \in [Jobs -> 0 .. keys']
      BY <2>1, StoredTypes
    <2>. QED BY <2>2, StoredTypes
  <1>2. [session[t] EXCEPT ![j] = k] \in [Jobs -> 0 .. keys']
    <2>1. PICK s \in [Jobs -> 0 .. keys'] : s = session[t]
      BY <1>1
    <2>2. k \in 0 .. keys'
      OBVIOUS
    <2>. QED BY <2>1, <2>2
  <1>. QED BY <1>1, <1>2

\* A job that is owed has its draft stored.
LEMMA OwedDraft ==
    ASSUME ClientInv, ~overlooked, NEW j \in Jobs, Owed(j)
    PROVE  draft.job = j /\ isPaidUploadDraft(draft) /\ j # 0
  BY ClientConstants DEF ClientInv, OwedKept, Marked, isPaidUploadDraft, Jobs

\* A step that clears the draft for a job that is no longer owed.
LEMMA DraftGoes ==
    ASSUME ClientInv, NEW t \in Tabs, NEW f \in Forms, FormHolds(f), Within(f, jobs), Carried(f, form[t]),
           form' = [form EXCEPT ![t] = f], clearLivepeerUploadDraft(t),
           NEW j \in Jobs, j = form[t].job, clearLivepeerJobSessionKey(t, j),
           uploads' \in [Jobs -> {"none", "open", "done", "cancelled"}],
           \A k \in Jobs : uploads[k] = "cancelled" => uploads'[k] = "cancelled", ~Owed(j)',
           UNCHANGED <<bookmark, abandoned, jobs, keys, market, expired, relays, replacements, hint>>
    PROVE  ClientInv'
  <1>1. /\ form' \in [Tabs -> Forms]
        /\ \A u \in Tabs : FormHolds(form'[u]) /\ Within(form'[u], jobs) /\ Carried(form'[u], form[u])
    BY FormMoves
  <1>2. NothingNew
    BY SameJobs
  <1>3. draft' = NoDraft /\ (~overlooked' => ~overlooked /\ (draft.job = j \/ ~isPaidUploadDraft(draft)))
    BY DEF clearLivepeerUploadDraft
  <1>4. overlooked' \in BOOLEAN /\ (overlooked => overlooked')
    <2>1. CASE overlooked'
      BY <2>1, overlooked' = TRUE DEF clearLivepeerUploadDraft
    <2>2. CASE ~overlooked'
      BY <2>2, overlooked' = FALSE DEF clearLivepeerUploadDraft
    <2>. QED BY <2>1, <2>2
  <1>5. DraftKept
    <2>. SUFFICES ASSUME ~overlooked', NEW k \in Jobs, Owed(k)' PROVE FALSE
      BY <1>3 DEF DraftKept
    <2>1. Owed(k)
      BY <1>2 DEF NothingNew
    <2>. QED BY <1>3, <2>1, OwedDraft
  <1>6. session' \in [Tabs -> [Jobs -> 0 .. keys']]
    BY StoredTypes, KeyStored DEF clearLivepeerJobSessionKey
  <1>7. ClientTypes'
    <2>1. draft' \in Drafts /\ draft'.job <= jobs'
      BY <1>3, StoredTypes
    <2>. QED BY <1>1, <1>4, <1>6, <2>1 DEF ClientInv, ClientTypes
  <1>. QED BY <1>1, <1>2, <1>4, <1>5, <1>7, ClientKeeps

\* What the creator pays for the chain does not have: the form goes on to the payment.
LEMMA StartKeeps ==
    ASSUME ClientInv, NEW t \in Tabs, start(t)
    PROVE  ClientInv'
  <1>. PICK c \in Forms : c = form[t] /\ FormHolds(c) /\ Within(c, jobs)
    BY OneForm
  <1>1. PICK j \in Jobs : j = form[t].job
    BY OneForm DEF start
  <1>2. /\ c.op = "idle" /\ c.job = j /\ c.payable /\ c.ui \in Payables /\ j # 0
        /\ UNCHANGED <<bookmark, abandoned, jobs, keys, market, expired, relays, replacements, uploads, hint>>
    BY <1>1 DEF start, FormHolds, counters
  <1>3. CASE /\ market[j].state = "published" /\ clearLivepeerUploadDraft(t) /\ clearLivepeerJobSessionKey(t, j)
             /\ form' = [form EXCEPT ![t].ui = "published"]
    <2>1. PICK f \in Forms : f = [c EXCEPT !.ui = "published"]
      BY DEF Forms, Stages
    <2>2. /\ f.op = c.op /\ f.job = c.job /\ f.file = c.file /\ f.ui = "published" /\ f.payable = c.payable
          /\ f.tracked = c.tracked /\ f.shown = c.shown /\ f.seen = c.seen
      BY <2>1 DEF Forms
    <2>3. FormHolds(f) /\ Within(f, jobs) /\ Carried(f, form[t])
      BY <1>2, <2>2 DEF FormHolds, Within, Carried, Paying, Uploaded
    <2>4. form' = [form EXCEPT ![t] = f]
      BY <1>3, <2>1
    <2>5. ~Owed(j)'
      BY <1>2, <1>3 DEF Owed
    <2>. QED BY <1>1, <1>2, <1>3, <2>3, <2>4, <2>5, StoredTypes, DraftGoes
  <1>4. CASE form' = [form EXCEPT ![t].resumable = TRUE] /\ UNCHANGED <<draft, session, overlooked>>
    <2>1. PICK f \in Forms : f = [c EXCEPT !.resumable = TRUE]
      BY DEF Forms
    <2>2. /\ f.op = c.op /\ f.job = c.job /\ f.file = c.file /\ f.ui = c.ui /\ f.payable = c.payable
          /\ f.tracked = c.tracked /\ f.shown = c.shown /\ f.seen = c.seen
      BY <2>1 DEF Forms
    <2>3. FormHolds(f) /\ Within(f, jobs) /\ Carried(f, form[t])
      BY <1>2, <2>2 DEF FormHolds, Within, Carried, Paying
    <2>4. form' = [form EXCEPT ![t] = f]
      BY <1>4, <2>1
    <2>. QED BY <1>2, <1>4, <2>3, <2>4, StoredTypes, FormStepKeeps DEF Marked
  <1>5. CASE /\ form' = [form EXCEPT ![t].op = "authorizing", ![t].ui = moveUploadStage(t, "payment_pending")]
             /\ UNCHANGED <<draft, session, overlooked>>
    <2>1. PICK f \in Forms : f = [c EXCEPT !.op = "authorizing", !.ui = "payment_pending"]
      BY DEF Forms, Operations, Stages
    <2>2. /\ f.op = "authorizing" /\ f.job = c.job /\ f.file = c.file /\ f.ui = "payment_pending" /\ f.payable = c.payable
          /\ f.tracked = c.tracked /\ f.shown = c.shown /\ f.seen = c.seen
      BY <2>1 DEF Forms
    <2>3. FormHolds(f) /\ Within(f, jobs) /\ Carried(f, form[t])
      BY <1>2, <2>2 DEF FormHolds, Within, Carried, Paying, Payables
    <2>4. moveUploadStage(t, "payment_pending") = "payment_pending"
      BY <1>2, StageMoves DEF moveUploadStage
    <2>5. form' = [form EXCEPT ![t] = f]
      BY <1>5, <2>1, <2>4
    <2>. QED BY <1>2, <1>5, <2>3, <2>5, StoredTypes, FormStepKeeps DEF Marked
  <1>. QED BY <1>1, <1>3, <1>4, <1>5 DEF start

\* What an operation of a payment, an upload or a resumption has in hand.
LEMMA InHand ==
    ASSUME ClientInv, NEW t \in Tabs, form[t].op \notin {"idle", "matching", "looking"}
    PROVE  /\ form[t].job \in Jobs /\ form[t].job # 0 /\ form[t].job <= jobs /\ form[t].job \in Nat
           /\ form[t].file \in Files /\ SizeOf[form[t].file] \in Nat
           /\ form[t].op \in Paying => form[t].ui = "payment_pending"
           /\ form[t].op = "asking" => form[t].ui = "intent_pending"
           /\ form[t].op = "transferring" => form[t].ui = "uploading"
  BY OneForm, ClientConstants DEF FormHolds, Forms, Within

\* The chain is asked, and the tab gets its key, before the wallet is.
LEMMA AuthorizeKeeps ==
    ASSUME ClientInv, NEW t \in Tabs, authorizeLivepeerPaidJob(t)
    PROVE  ClientInv'
  <1>1. PICK j \in Jobs : j = form[t].job
    BY InHand DEF authorizeLivepeerPaidJob
  <1>2. /\ form[t].op = "authorizing" /\ form[t].job # 0 /\ form[t].ui = "payment_pending"
        /\ UNCHANGED <<draft, bookmark, uploads, abandoned, jobs, market, expired, relays, replacements, hint, overlooked>>
    BY InHand DEF authorizeLivepeerPaidJob, storage, world, unclicked, Paying
  <1>3. PICK op \in {"idle", "waiting", "quoting"} : Enters(t, op) \/ (op = "idle" /\ Fails(t))
    BY DEF authorizeLivepeerPaidJob
  <1>4. session' \in [Tabs -> [Jobs -> 0 .. keys']] /\ keys' \in Nat
    <2>1. CASE UNCHANGED <<session, keys>>
      BY <2>1, StoredTypes
    <2>2. CASE keys' = keys + 1 /\ persistLivepeerJobSessionKey(t, j, keys + 1)
      <3>1. keys' \in Nat /\ keys <= keys' /\ keys + 1 <= keys' /\ keys + 1 \in Nat
        BY <2>2, StoredTypes
      <3>. QED BY <2>2, <3>1, KeyStored DEF persistLivepeerJobSessionKey
    <2>. QED BY <1>1, <2>1, <2>2 DEF authorizeLivepeerPaidJob
  <1>. QED BY <1>2, <1>3, <1>4, StoredTypes, TabGoes DEF Marked, Paying

\* The wallet is asked, or the payment fails, or the chain is asked once more.
LEMMA SignsKeeps ==
    ASSUME ClientInv, NEW t \in Tabs, signsSponsoredUpload(t) \/ paymentFails(t) \/ reconcilePaidJob(t)
    PROVE  ClientInv'
  <1>1. /\ form[t].op \in Paying /\ form[t].job # 0 /\ form[t].ui = "payment_pending"
        /\ UNCHANGED <<session, keys, draft, bookmark, uploads, abandoned, jobs, market, expired, relays, replacements, hint, overlooked>>
    BY InHand DEF signsSponsoredUpload, paymentFails, reconcilePaidJob, storage, counters, world, unclicked, Paying
  <1>2. PICK op \in {"idle", "waiting", "signing", "failing"} : Enters(t, op) \/ (op = "idle" /\ Fails(t))
    BY DEF signsSponsoredUpload, paymentFails, reconcilePaidJob
  <1>. QED BY <1>1, <1>2, StoredTypes, TabGoes DEF Marked, Paying

\* The attempt is marked before the bridge gets the payment: then no other job is live.
LEMMA SubmitKeeps ==
    ASSUME ClientInv, NEW t \in Tabs, submitSponsoredUploadRelay(t)
    PROVE  ClientInv'
  <1>. PICK c \in Forms : c = form[t] /\ FormHolds(c) /\ Within(c, jobs)
    BY OneForm
  <1>1. PICK j \in Jobs : j = form[t].job
    BY InHand DEF submitSponsoredUploadRelay
  <1>2. /\ form[t].op = "signing" /\ j # 0 /\ j <= jobs /\ j \in Nat /\ form[t].ui = "payment_pending" /\ SizeOf[form[t].file] \in Nat
        /\ UNCHANGED <<session, abandoned, jobs, keys, market, expired, replacements, uploads, hint, overlooked>>
    BY <1>1, InHand DEF submitSponsoredUploadRelay, counters, Paying
  <1>3. CASE Enters(t, "failing") /\ UNCHANGED <<draft, bookmark, relays>>
    BY <1>1, <1>2, <1>3, StoredTypes, TabGoes DEF Marked, Paying
  <1>4. CASE /\ setUploadDraftFlag(j, "paymentAttempted", TRUE)
             /\ relays' = relays \cup {[job |-> j, key |-> session[t][j], size |-> SizeOf[form[t].file]]}
             /\ Enters(t, "relaying")
    <2>1. PICK d \in Drafts : d = [draft EXCEPT !.paymentAttempted = TRUE]
      BY StoredTypes DEF Drafts
    <2>2. d.job = draft.job /\ d.file = draft.file /\ d.paymentAttempted
      BY <2>1, StoredTypes DEF Drafts
    <2>3. draft.job = j /\ draft' = d /\ bookmark' = j
      BY <1>4, <2>1 DEF setUploadDraftFlag
    <2>4. PICK f \in Forms : /\ form' = [form EXCEPT ![t] = f] /\ FormHolds(f) /\ Within(f, jobs)
                             /\ f.job = form[t].job /\ f.file = form[t].file
      BY <1>1, <1>2, <1>4, FormGoes DEF Paying
    <2>5. Carried(f, form[t])
      BY <2>4 DEF Carried
    <2>6. /\ form' \in [Tabs -> Forms]
          /\ \A u \in Tabs : FormHolds(form'[u]) /\ Within(form'[u], jobs)
      BY <2>4, <2>5, FormMoves
    <2>7. \A u \in Tabs : form'[u].job = form[u].job /\ form'[u].file = form[u].file
      BY <2>4 DEF ClientInv, ClientTypes
    <2>8. PICK n \in Nat : n = session[t][j]
      BY StoredTypes
    <2>9. PICK m \in Nat : m = SizeOf[form[t].file]
      BY <1>2
    <2>10. ClientTypes'
      <3>1. relays' \subseteq [job : Jobs, key : Nat, size : Nat] /\ \A r \in relays' : r.job <= jobs
        <4>1. relays' = relays \cup {[job |-> j, key |-> n, size |-> m]}
          BY <1>4, <2>8, <2>9
        <4>. QED BY <1>2, <4>1 DEF ClientInv, ClientTypes
      <3>2. draft' \in Drafts /\ draft'.job <= jobs /\ bookmark' \in 0 .. jobs
        BY <1>2, <2>2, <2>3, StoredTypes
      <3>. QED BY <1>2, <2>6, <3>1, <3>2 DEF ClientInv, ClientTypes
    <2>11. ASSUME ~overlooked' PROVE OneLive' /\ OwedKept' /\ FilesAgree'
      <3>1. OneLive /\ OwedKept /\ FilesAgree
        BY <1>2, <2>11 DEF ClientInv
      <3>2. \A r \in relays' : r \in relays \/ r.job = j
        BY <1>4
      <3>3. \A k \in Jobs : Live(k)' => k = j
        <4>1. \A k \in Jobs : Live(k)' => Live(k) \/ k = j
          BY <1>2, <3>2 DEF Live, readPendingLivepeerUpload
        <4>2. \A k \in Jobs : Live(k) => k = j
          BY <1>2, <2>3, <3>1 DEF OneLive
        <4>. QED BY <4>1, <4>2
      <3>4. \A k \in Jobs : Owed(k)' => Live(k)'
        BY ClientConstants DEF Owed, Live, readPendingLivepeerUpload, Jobs
      <3>5. draft'.job = j /\ Marked'
        BY <2>2, <2>3 DEF Marked
      <3>6. OneLive'
        <4>1. \A k \in Jobs : Live(k)' => draft'.job \in {0, k}
          BY <3>3, <3>5
        <4>2. \A k, l \in Jobs : Live(k)' /\ Live(l)' => k = l
          BY <3>3
        <4>. QED BY <4>1, <4>2 DEF OneLive
      <3>7. OwedKept'
        <4>1. \A k \in Jobs : Owed(k)' => draft'.job = k /\ Marked'
          BY <3>3, <3>4, <3>5
        <4>. QED BY <4>1 DEF OwedKept
      <3>8. FilesAgree'
        BY <1>2, <2>2, <2>3, <2>7, <3>1 DEF FilesAgree
      <3>. QED BY <3>6, <3>7, <3>8
    <2>12. \A u \in Tabs : FormHolds(form[u])' /\ Within(form[u], jobs)'
      BY <1>2, <2>6 DEF FormHolds, Within
    <2>. QED BY <2>10, <2>11, <2>12 DEF ClientInv
  <1>. QED BY <1>1, <1>3, <1>4 DEF submitSponsoredUploadRelay

\* A rejected payment takes its mark back; what another tab has sent or paid is noted as overlooked.
LEMMA AnswerKeeps ==
    ASSUME ClientInv, NEW t \in Tabs, relayAnswered(t)
    PROVE  ClientInv'
  <1>1. PICK j \in Jobs : j = form[t].job
    BY InHand DEF relayAnswered
  <1>2. /\ form[t].op = "relaying" /\ j # 0 /\ j <= jobs /\ j \in Nat /\ form[t].ui = "payment_pending" /\ form[t].job # 0
        /\ UNCHANGED <<session, abandoned, jobs, keys, market, expired, replacements, uploads, hint>>
    BY <1>1, InHand DEF relayAnswered, counters, Paying
  <1>3. CASE Enters(t, "waiting") /\ UNCHANGED <<draft, bookmark, relays, overlooked>>
    BY <1>2, <1>3, StoredTypes, TabGoes DEF Marked, Paying
  <1>4. ASSUME NEW mine, mine \in relays, relays' = relays \ {mine},
               IF draft.job = j THEN setUploadDraftFlag(j, "paymentAttempted", FALSE) ELSE UNCHANGED <<draft, bookmark>>,
               overlooked' = (overlooked \/ market[j].state # "none" \/ \E r \in relays \ {mine} : r.job = j),
               Enters(t, "failing")
        PROVE  ClientInv'
    <2>1. PICK d \in Drafts : d = [draft EXCEPT !.paymentAttempted = FALSE]
      BY StoredTypes DEF Drafts
    <2>2. d.job = draft.job /\ d.file = draft.file
      BY <2>1, StoredTypes DEF Drafts
    <2>3. (draft.job = j /\ draft' = d /\ bookmark' = bookmark) \/ (draft.job # j /\ draft' = draft /\ bookmark' = bookmark)
      <3>1. CASE draft.job = j
        <4>1. draft' = [draft EXCEPT !.paymentAttempted = FALSE] /\ bookmark' = bookmark
          BY <1>4, <3>1 DEF setUploadDraftFlag
        <4>. QED BY <2>1, <3>1, <4>1
      <3>2. CASE draft.job # j
        BY <1>4, <3>2
      <3>. QED BY <3>1, <3>2
    <2>4. draft'.job = draft.job /\ draft'.file = draft.file /\ draft' \in Drafts /\ bookmark' \in 0 .. jobs
      BY <2>2, <2>3, StoredTypes
    <2>5. PICK f \in Forms : /\ form' = [form EXCEPT ![t] = f] /\ FormHolds(f) /\ Within(f, jobs)
                             /\ f.job = form[t].job /\ f.file = form[t].file
      BY <1>2, <1>4, FormGoes DEF Paying
    <2>6. Carried(f, form[t])
      BY <2>5 DEF Carried
    <2>7. /\ form' \in [Tabs -> Forms]
          /\ \A u \in Tabs : FormHolds(form'[u]) /\ Within(form'[u], jobs) /\ Carried(form'[u], form[u])
      BY <2>5, <2>6, FormMoves
    <2>8. overlooked' \in BOOLEAN /\ (overlooked => overlooked')
      <3>1. CASE overlooked'
        BY <3>1, overlooked' = TRUE, <1>4
      <3>2. CASE ~overlooked'
        BY <3>2, overlooked' = FALSE, <1>4
      <3>. QED BY <3>1, <3>2
    <2>9. ClientTypes'
      <3>1. draft'.job <= jobs
        BY <2>4, StoredTypes
      <3>. QED BY <1>2, <1>4, <2>4, <2>7, <2>8, <3>1 DEF ClientInv, ClientTypes
    <2>10. NothingNew
      BY <1>2, <1>4 DEF NothingNew, Live, Owed, readPendingLivepeerUpload
    <2>11. DraftKept
      <3>1. CASE draft' = draft
        BY <3>1 DEF DraftKept, Marked
      <3>2. ASSUME draft' # draft, ~overlooked', NEW k \in Jobs, Owed(k)' PROVE FALSE
        <4>1. k = j
          BY <2>3, <2>8, <2>10, <3>2, OwedDraft DEF NothingNew
        <4>. QED BY <1>2, <1>4, <3>2, <4>1 DEF Owed
      <3>. QED BY <2>3, <2>4, <3>1, <3>2 DEF DraftKept
    <2>. QED BY <1>2, <2>7, <2>8, <2>9, <2>10, <2>11, ClientKeeps
  <1>. QED BY <1>1, <1>3, <1>4 DEF relayAnswered

\* The stored stage goes on, behind its own job's draft only.
LEMMA StageAdvances ==
    ASSUME ClientInv, NEW j, j \in 0 .. jobs, NEW n \in 1 .. 4, advanceLivepeerUploadDraftStage(j, n)
    PROVE  /\ draft' \in Drafts /\ draft'.job = draft.job /\ draft'.file = draft.file /\ (Marked => Marked')
           /\ bookmark' \in 0 .. jobs
  <1>1. CASE UNCHANGED <<draft, bookmark>>
    BY <1>1, StoredTypes DEF Marked
  <1>2. CASE draft' = [draft EXCEPT !.stage = n] /\ bookmark' = j
    <2>1. PICK d \in Drafts : d = [draft EXCEPT !.stage = n]
      <3>1. n \in 0 .. 4
        OBVIOUS
      <3>. QED BY <3>1, StoredTypes DEF Drafts
    <2>2. d.job = draft.job /\ d.file = draft.file /\ d.stage = n /\ n > 0
      BY <2>1, StoredTypes DEF Drafts
    <2>. QED BY <1>2, <2>1, <2>2 DEF Marked
  <1>. QED BY <1>1, <1>2 DEF advanceLivepeerUploadDraftStage

\* The chain shows the job with the tab's key, or the form gives up waiting.
LEMMA WaitKeeps ==
    ASSUME ClientInv, NEW t \in Tabs, waitForAuthorizedLivepeerJob(t)
    PROVE  ClientInv'
  <1>. PICK c \in Forms : c = form[t] /\ FormHolds(c) /\ Within(c, jobs)
    BY OneForm
  <1>1. /\ c.op = "waiting" /\ c.job # 0 /\ c.job \in 0 .. jobs /\ c.ui = "payment_pending" /\ c.file # 0
        /\ UNCHANGED <<session, abandoned, jobs, keys, market, expired, relays, replacements, uploads, hint, overlooked>>
    BY OneForm, InHand DEF waitForAuthorizedLivepeerJob, counters, world, unclicked, Paying, FormHolds
  <1>2. CASE Fails(t) /\ UNCHANGED <<draft, bookmark>>
    BY <1>1, <1>2, StoredTypes, TabGoes DEF Marked, Paying
  <1>3. CASE /\ advanceLivepeerUploadDraftStage(c.job, 1)
             /\ form' = [form EXCEPT ![t].op = "asking",
                  ![t].ui = transitionUploadStage(moveUploadStage(t, "authorized"), "intent_pending")]
    <2>1. PICK f \in Forms : f = [c EXCEPT !.op = "asking", !.ui = "intent_pending"]
      BY DEF Forms, Operations, Stages
    <2>2. /\ f.op = "asking" /\ f.job = c.job /\ f.file = c.file /\ f.ui = "intent_pending" /\ f.payable = c.payable
          /\ f.tracked = c.tracked /\ f.shown = c.shown /\ f.seen = c.seen
      BY <2>1 DEF Forms
    <2>3. FormHolds(f) /\ Within(f, jobs) /\ Carried(f, form[t])
      BY <1>1, <2>2 DEF FormHolds, Within, Carried, Paying, Payables
    <2>4. transitionUploadStage(moveUploadStage(t, "authorized"), "intent_pending") = "intent_pending"
      BY <1>1, StageMoves DEF moveUploadStage
    <2>5. form' = [form EXCEPT ![t] = f]
      BY <1>3, <2>1, <2>4
    <2>6. /\ draft' \in Drafts /\ draft'.job = draft.job /\ draft'.file = draft.file /\ (Marked => Marked')
          /\ bookmark' \in 0 .. jobs
      BY <1>1, <1>3, StageAdvances
    <2>. QED BY <1>1, <2>3, <2>5, <2>6, StoredTypes, FormStepKeeps
  <1>. QED BY <1>2, <1>3 DEF waitForAuthorizedLivepeerJob

\* The bridge opens the upload, or shows it done or cancelled.
LEMMA IntentKeeps ==
    ASSUME ClientInv, NEW t \in Tabs, requestLivepeerUploadIntent(t)
    PROVE  ClientInv'
  <1>. PICK c \in Forms : c = form[t] /\ FormHolds(c) /\ Within(c, jobs)
    BY OneForm
  <1>1. /\ c.op \in {"asking", "reopening"} /\ c.job # 0 /\ c.job \in 0 .. jobs /\ c.job \in Jobs /\ c.file # 0 /\ c.ui \in Stages
        /\ c.op = "asking" => c.ui = "intent_pending"
        /\ UNCHANGED <<session, abandoned, jobs, keys, market, expired, relays, replacements, hint, overlooked>>
    BY OneForm, InHand DEF requestLivepeerUploadIntent, counters, FormHolds
  <1>2. CASE UNCHANGED <<uploads, draft, bookmark>> /\ (Enters(t, "idle") \/ Fails(t))
    BY <1>1, <1>2, StoredTypes, TabGoes DEF Marked, Paying
  <1>3. CASE /\ form' = [form EXCEPT ![t].op = "idle", ![t].resumable = FALSE,
                                     ![t].ui = transitionUploadStage(moveUploadStage(t, "draft"), "provider_processing")]
             /\ UNCHANGED <<uploads, draft, bookmark>>
    <2>1. PICK f \in Forms : f = [c EXCEPT !.op = "idle", !.resumable = FALSE, !.ui = "provider_processing"]
      BY DEF Forms, Operations, Stages
    <2>2. /\ f.op = "idle" /\ f.job = c.job /\ f.file = c.file /\ f.ui = "provider_processing" /\ f.payable = c.payable
          /\ f.tracked = c.tracked /\ f.shown = c.shown /\ f.seen = c.seen
      BY <2>1 DEF Forms
    <2>3. FormHolds(f) /\ Within(f, jobs) /\ Carried(f, form[t])
      BY <1>1, <2>2 DEF FormHolds, Within, Carried, Paying, Uploaded
    <2>4. transitionUploadStage(moveUploadStage(t, "draft"), "provider_processing") = "provider_processing"
      BY <1>1, StageMoves DEF moveUploadStage
    <2>5. form' = [form EXCEPT ![t] = f]
      BY <1>3, <2>1, <2>4
    <2>. QED BY <1>1, <1>3, <2>3, <2>5, StoredTypes, FormStepKeeps DEF Marked
  <1>4. ASSUME NEW ready, ready = "upload_ready", uploads[c.job] \in {"none", "open"},
               uploads' = [uploads EXCEPT ![c.job] = "open"], advanceLivepeerUploadDraftStage(c.job, 3),
               form' = [form EXCEPT ![t].op = "transferring", ![t].ui = transitionUploadStage(ready, "uploading")]
        PROVE  ClientInv'
    <2>1. PICK f \in Forms : f = [c EXCEPT !.op = "transferring", !.ui = "uploading"]
      BY DEF Forms, Operations, Stages
    <2>2. /\ f.op = "transferring" /\ f.job = c.job /\ f.file = c.file /\ f.ui = "uploading" /\ f.payable = c.payable
          /\ f.tracked = c.tracked /\ f.shown = c.shown /\ f.seen = c.seen
      BY <2>1 DEF Forms
    <2>3. FormHolds(f) /\ Within(f, jobs) /\ Carried(f, form[t])
      BY <1>1, <2>2 DEF FormHolds, Within, Carried, Paying, Payables
    <2>4. transitionUploadStage(ready, "uploading") = "uploading"
      BY <1>4, StageMoves
    <2>5. form' = [form EXCEPT ![t] = f]
      BY <1>4, <2>1, <2>4
    <2>6. /\ draft' \in Drafts /\ draft'.job = draft.job /\ draft'.file = draft.file /\ (Marked => Marked')
          /\ bookmark' \in 0 .. jobs
      BY <1>1, <1>4, StageAdvances
    <2>7. /\ uploads' \in [Jobs -> {"none", "open", "done", "cancelled"}]
          /\ \A j \in Jobs : uploads[j] = "cancelled" => uploads'[j] = "cancelled"
      BY <1>1, <1>4, StoredTypes
    <2>. QED BY <1>1, <2>3, <2>5, <2>6, <2>7, StoredTypes, FormStepKeeps
  <1>5. CASE c.op = "asking"
    <2>1. transitionUploadStage(c.ui, "upload_ready") = "upload_ready"
      BY <1>1, <1>5, StageMoves
    <2>. QED BY <1>2, <1>3, <1>4, <1>5, <2>1 DEF requestLivepeerUploadIntent
  <1>6. CASE c.op = "reopening"
    <2>1. transitionUploadStage(transitionUploadStage(transitionUploadStage(
             moveUploadStage(t, "draft"), "authorized"), "intent_pending"), "upload_ready") = "upload_ready"
      BY <1>1, StageMoves DEF moveUploadStage
    <2>. QED BY <1>2, <1>3, <1>4, <1>6, <2>1 DEF requestLivepeerUploadIntent
  <1>. QED BY <1>1, <1>5, <1>6

\* The source goes to the provider.
LEMMA TransferKeeps ==
    ASSUME ClientInv, NEW t \in Tabs, uploadLivepeerSource(t)
    PROVE  ClientInv'
  <1>. PICK c \in Forms : c = form[t] /\ FormHolds(c) /\ Within(c, jobs)
    BY OneForm
  <1>1. /\ c.op = "transferring" /\ c.job # 0 /\ c.job \in 0 .. jobs /\ c.job \in Jobs /\ c.file # 0 /\ c.ui = "uploading"
        /\ UNCHANGED <<session, abandoned, jobs, keys, market, expired, relays, replacements, hint, overlooked>>
    BY OneForm, InHand DEF uploadLivepeerSource, counters, FormHolds
  <1>2. CASE UNCHANGED <<uploads, draft, bookmark>> /\ Fails(t)
    BY <1>1, <1>2, StoredTypes, TabGoes DEF Marked, Paying
  <1>3. CASE /\ uploads[c.job] # "cancelled" /\ uploads' = [uploads EXCEPT ![c.job] = "done"]
             /\ advanceLivepeerUploadDraftStage(c.job, 4)
             /\ form' = [form EXCEPT ![t].op = "idle", ![t].resumable = FALSE,
                                     ![t].ui = moveUploadStage(t, "provider_processing")]
    <2>1. PICK f \in Forms : f = [c EXCEPT !.op = "idle", !.resumable = FALSE, !.ui = "provider_processing"]
      BY DEF Forms, Operations, Stages
    <2>2. /\ f.op = "idle" /\ f.job = c.job /\ f.file = c.file /\ f.ui = "provider_processing" /\ f.payable = c.payable
          /\ f.tracked = c.tracked /\ f.shown = c.shown /\ f.seen = c.seen
      BY <2>1 DEF Forms
    <2>3. FormHolds(f) /\ Within(f, jobs) /\ Carried(f, form[t])
      BY <1>1, <2>2 DEF FormHolds, Within, Carried, Paying, Uploaded
    <2>4. moveUploadStage(t, "provider_processing") = "provider_processing"
      BY <1>1, StageMoves DEF moveUploadStage
    <2>5. form' = [form EXCEPT ![t] = f]
      BY <1>3, <2>1, <2>4
    <2>6. /\ draft' \in Drafts /\ draft'.job = draft.job /\ draft'.file = draft.file /\ (Marked => Marked')
          /\ bookmark' \in 0 .. jobs
      BY <1>1, <1>3, StageAdvances
    <2>7. /\ uploads' \in [Jobs -> {"none", "open", "done", "cancelled"}]
          /\ \A j \in Jobs : uploads[j] = "cancelled" => uploads'[j] = "cancelled"
      BY <1>1, <1>3, StoredTypes
    <2>. QED BY <1>1, <2>3, <2>5, <2>6, <2>7, StoredTypes, FormStepKeeps
  <1>. QED BY <1>2, <1>3 DEF uploadLivepeerSource

\* The publication is there: what is stored goes.
LEMMA QueryKeeps ==
    ASSUME ClientInv, NEW t \in Tabs, publicationQuery(t)
    PROVE  ClientInv'
  <1>. PICK c \in Forms : c = form[t] /\ FormHolds(c) /\ Within(c, jobs)
    BY OneForm
  <1>1. /\ c.ui = "provider_processing" /\ c.job # 0 /\ c.ui \in Stages
        /\ UNCHANGED <<bookmark, abandoned, jobs, keys, market, expired, relays, replacements, uploads, hint>>
    BY OneForm DEF publicationQuery, FormHolds, counters
  <1>2. PICK j \in Jobs : j = form[t].job
    BY <1>1, OneForm
  <1>3. PICK f \in Forms : f = [c EXCEPT !.ui = "published"]
    BY DEF Forms, Stages
  <1>4. /\ f.op = c.op /\ f.job = c.job /\ f.file = c.file /\ f.ui = "published" /\ f.payable = c.payable
        /\ f.tracked = c.tracked /\ f.shown = c.shown /\ f.seen = c.seen
    BY <1>3 DEF Forms
  <1>5. FormHolds(f) /\ Within(f, jobs) /\ Carried(f, form[t])
    BY <1>1, <1>4 DEF FormHolds, Within, Carried, Paying, Uploaded
  <1>6. form' = [form EXCEPT ![t] = f]
    BY <1>1, <1>3, StageMoves DEF publicationQuery, moveUploadStage
  <1>7. ~Owed(j)'
    BY <1>1, <1>2 DEF Owed, publicationQuery
  <1>8. clearLivepeerUploadDraft(t) /\ clearLivepeerJobSessionKey(t, j)
    BY <1>2 DEF publicationQuery
  <1>. QED BY <1>1, <1>2, <1>5, <1>6, <1>7, <1>8, StoredTypes, DraftGoes

\* A resumption starts with the tab's key, or a new one.
LEMMA ResumptionKeeps ==
    ASSUME ClientInv, NEW t \in Tabs, prepareLivepeerUploadResume(t)
    PROVE  ClientInv'
  <1>. PICK c \in Forms : c = form[t] /\ FormHolds(c) /\ Within(c, jobs)
    BY OneForm
  <1>1. /\ c.op = "idle" /\ c.job # 0
        /\ UNCHANGED <<bookmark, abandoned, jobs, market, expired, relays, replacements, uploads, hint>>
    BY DEF prepareLivepeerUploadResume
  <1>2. PICK j \in Jobs : j = form[t].job
    BY <1>1, OneForm
  <1>3. CASE UNCHANGED <<form, session, draft, keys, overlooked>>
    <2>1. form' = [form EXCEPT ![t] = c] /\ Carried(c, form[t])
      BY <1>3 DEF Carried, ClientInv, ClientTypes
    <2>. QED BY <1>1, <1>3, <2>1, StoredTypes, FormStepKeeps DEF Marked
  <1>4. CASE /\ market[j].state = "published"
             /\ form' = [form EXCEPT ![t].ui = "published", ![t].resumable = FALSE]
             /\ clearLivepeerUploadDraft(t) /\ clearLivepeerJobSessionKey(t, j) /\ UNCHANGED keys
    <2>1. PICK f \in Forms : f = [c EXCEPT !.ui = "published", !.resumable = FALSE]
      BY DEF Forms, Stages
    <2>2. /\ f.op = c.op /\ f.job = c.job /\ f.file = c.file /\ f.ui = "published" /\ f.payable = c.payable
          /\ f.tracked = c.tracked /\ f.shown = c.shown /\ f.seen = c.seen
      BY <2>1 DEF Forms
    <2>3. FormHolds(f) /\ Within(f, jobs) /\ Carried(f, form[t])
      BY <1>1, <2>2 DEF FormHolds, Within, Carried, Paying, Uploaded
    <2>4. form' = [form EXCEPT ![t] = f]
      BY <1>4, <2>1
    <2>5. ~Owed(j)'
      BY <1>1, <1>4 DEF Owed
    <2>. QED BY <1>1, <1>2, <1>4, <2>3, <2>4, <2>5, StoredTypes, DraftGoes
  <1>5. CASE /\ draft' = [draft EXCEPT !.keyReplacementPending = FALSE]
             /\ Enters(t, "reopening") /\ UNCHANGED <<session, keys, overlooked>>
    <2>1. PICK d \in Drafts : d = [draft EXCEPT !.keyReplacementPending = FALSE]
      BY StoredTypes DEF Drafts
    <2>2. d.job = draft.job /\ d.file = draft.file /\ d.stage = draft.stage /\ d.paymentAttempted = draft.paymentAttempted
      BY <2>1, StoredTypes DEF Drafts
    <2>3. draft' = d
      BY <1>5, <2>1
    <2>. QED BY <1>1, <1>5, <2>2, <2>3, StoredTypes, TabGoes DEF Marked, Paying
  <1>6. CASE /\ keys' = keys + 1 /\ persistLivepeerJobSessionKey(t, j, keys + 1)
             /\ draft' = [draft EXCEPT !.keyReplacementPending = TRUE, !.fingerprint = keys + 1]
             /\ Enters(t, "replacing") /\ UNCHANGED overlooked
    <2>1. PICK k \in Nat : k = keys + 1
      BY StoredTypes
    <2>2. PICK d \in Drafts : d = [draft EXCEPT !.keyReplacementPending = TRUE, !.fingerprint = k]
      BY StoredTypes DEF Drafts
    <2>3. d.job = draft.job /\ d.file = draft.file /\ d.stage = draft.stage /\ d.paymentAttempted = draft.paymentAttempted
      BY <2>2, StoredTypes DEF Drafts
    <2>4. draft' = d
      BY <1>6, <2>1, <2>2
    <2>5. session' \in [Tabs -> [Jobs -> 0 .. keys']] /\ keys' \in Nat
      <3>1. keys' \in Nat /\ keys <= keys' /\ k <= keys'
        BY <1>6, <2>1, StoredTypes
      <3>. QED BY <1>6, <2>1, <3>1, KeyStored DEF persistLivepeerJobSessionKey
    <2>. QED BY <1>1, <1>6, <2>3, <2>4, <2>5, StoredTypes, TabGoes DEF Marked, Paying
  <1>. QED BY <1>2, <1>3, <1>4, <1>5, <1>6 DEF prepareLivepeerUploadResume

\* The wallet sends the new key, or the creator rejects it.
LEMMA ReplaceKeeps ==
    ASSUME ClientInv, NEW t \in Tabs, replaceUploadKey(t)
    PROVE  ClientInv'
  <1>1. PICK j \in Jobs : j = form[t].job
    BY InHand DEF replaceUploadKey
  <1>2. /\ form[t].op = "replacing" /\ form[t].job # 0
        /\ UNCHANGED <<keys, bookmark, uploads, abandoned, jobs, market, expired, relays, hint, overlooked>>
    BY InHand DEF replaceUploadKey, counters
  <1>3. CASE /\ replacements' = replacements \cup {[job |-> j, key |-> session[t][j]]}
             /\ Enters(t, "replaced") /\ UNCHANGED <<draft, session>>
    <2>1. PICK n \in Nat : n = session[t][j]
      BY StoredTypes
    <2>2. replacements' = replacements \cup {[job |-> j, key |-> n]}
      BY <1>3, <2>1
    <2>3. replacements' \subseteq [job : Jobs, key : Nat]
      BY <2>2, StoredTypes
    <2>. QED BY <1>2, <1>3, <2>3, StoredTypes, TabGoes DEF Marked, Paying
  <1>4. CASE /\ draft' = IF draft.job = j THEN [draft EXCEPT !.keyReplacementPending = FALSE] ELSE draft
             /\ IF draft.job = j THEN clearLivepeerJobSessionKey(t, j) ELSE UNCHANGED session
             /\ Enters(t, "idle") /\ UNCHANGED replacements
    <2>1. PICK d \in Drafts : d = [draft EXCEPT !.keyReplacementPending = FALSE]
      BY StoredTypes DEF Drafts
    <2>2. d.job = draft.job /\ d.file = draft.file /\ d.stage = draft.stage /\ d.paymentAttempted = draft.paymentAttempted
      BY <2>1, StoredTypes DEF Drafts
    <2>3. draft' \in {d, draft}
      BY <1>4, <2>1
    <2>4. session' \in [Tabs -> [Jobs -> 0 .. keys']] /\ keys' \in Nat
      <3>1. CASE UNCHANGED session
        BY <1>2, <3>1, StoredTypes
      <3>2. CASE clearLivepeerJobSessionKey(t, j)
        BY <1>2, <3>2, StoredTypes, KeyStored DEF clearLivepeerJobSessionKey
      <3>. QED BY <1>4, <3>1, <3>2
    <2>5. replacements' \subseteq [job : Jobs, key : Nat]
      BY <1>4, StoredTypes
    <2>. QED BY <1>2, <1>4, <2>2, <2>3, <2>4, <2>5, StoredTypes, TabGoes DEF Marked, Paying
  <1>. QED BY <1>1, <1>3, <1>4 DEF replaceUploadKey

\* The tab has its key, or leaves the replacement pending.
LEMMA ReplacedKeeps ==
    ASSUME ClientInv, NEW t \in Tabs, keyReplaced(t)
    PROVE  ClientInv'
  <1>1. /\ form[t].op = "replaced" /\ form[t].job # 0
        /\ UNCHANGED <<session, keys, bookmark, uploads, abandoned, jobs, market, expired, relays, replacements, hint, overlooked>>
    BY InHand DEF keyReplaced, counters, world, unclicked
  <1>2. PICK d \in Drafts : d = [draft EXCEPT !.keyReplacementPending = FALSE]
    BY StoredTypes DEF Drafts
  <1>3. d.job = draft.job /\ d.file = draft.file /\ d.stage = draft.stage /\ d.paymentAttempted = draft.paymentAttempted
    BY <1>2, StoredTypes DEF Drafts
  <1>4. draft' \in {d, draft} /\ (Enters(t, "reopening") \/ Enters(t, "idle"))
    BY <1>2 DEF keyReplaced
  <1>. QED BY <1>1, <1>3, <1>4, StoredTypes, TabGoes DEF Marked, Paying

\* A cancelled job is no longer owed.
LEMMA CancelKeeps ==
    ASSUME ClientInv, NEW t \in Tabs, cancelLivepeerUpload(t)
    PROVE  ClientInv'
  <1>. PICK c \in Forms : c = form[t] /\ FormHolds(c) /\ Within(c, jobs)
    BY OneForm
  <1>1. /\ c.op = "idle" /\ c.job # 0
        /\ UNCHANGED <<bookmark, abandoned, jobs, keys, market, expired, relays, replacements, hint>>
    BY DEF cancelLivepeerUpload, counters
  <1>2. PICK j \in Jobs : j = form[t].job
    BY <1>1, OneForm
  <1>3. /\ uploads' = [uploads EXCEPT ![j] = "cancelled"]
        /\ clearLivepeerJobSessionKey(t, j) /\ clearLivepeerUploadDraft(t)
        /\ form' = [form EXCEPT ![t].job = 0, ![t].payable = FALSE, ![t].ui = "draft"]
    BY <1>2 DEF cancelLivepeerUpload
  <1>4. PICK f \in Forms : f = [c EXCEPT !.job = 0, !.payable = FALSE, !.ui = "draft"]
    BY DEF Forms, Stages
  <1>5. /\ f.op = c.op /\ f.job = 0 /\ f.file = c.file /\ f.ui = "draft" /\ ~f.payable
        /\ f.tracked = c.tracked /\ f.shown = c.shown /\ f.seen = c.seen
    BY <1>4 DEF Forms
  <1>6. FormHolds(f) /\ Within(f, jobs) /\ Carried(f, form[t])
    BY <1>1, <1>5, StoredTypes DEF FormHolds, Within, Carried, Paying
  <1>7. form' = [form EXCEPT ![t] = f]
    BY <1>3, <1>4
  <1>8. /\ uploads' \in [Jobs -> {"none", "open", "done", "cancelled"}]
        /\ \A k \in Jobs : uploads[k] = "cancelled" => uploads'[k] = "cancelled"
    BY <1>3, StoredTypes
  <1>9. ~Owed(j)'
    BY <1>3, StoredTypes DEF Owed
  <1>. QED BY <1>1, <1>2, <1>3, <1>6, <1>7, <1>8, <1>9, DraftGoes

\* A job the creator gave up is no longer live.
LEMMA AbandonKeeps ==
    ASSUME ClientInv, NEW t \in Tabs, NEW j \in Jobs, abandonLivepeerUploadJob(t, j)
    PROVE  ClientInv'
  <1>. PICK c \in Forms : c = form[t] /\ FormHolds(c) /\ Within(c, jobs)
    BY OneForm
  <1>1. /\ c.op = "idle" /\ j <= jobs /\ j # 0 /\ j \in Nat /\ abandoned' = abandoned \cup {j}
        /\ UNCHANGED <<jobs, keys, market, expired, relays, replacements, uploads, hint, overlooked>>
    BY ClientConstants DEF abandonLivepeerUploadJob, counters, unclicked, Within, Jobs
  <1>2. PICK f \in Forms : /\ form' = [form EXCEPT ![t] = f] /\ FormHolds(f) /\ Within(f, jobs) /\ Carried(f, form[t])
    <2>1. CASE c.job = j
      <3>1. PICK f \in Forms : f = [c EXCEPT !.shown = 0, !.tracked = 0, !.resumable = FALSE, !.job = 0,
                                             !.payable = FALSE, !.ui = "draft"]
        BY DEF Forms, Stages
      <3>2. /\ f.op = c.op /\ f.job = 0 /\ f.file = c.file /\ f.ui = "draft" /\ ~f.payable
            /\ f.tracked = 0 /\ f.shown = 0 /\ f.seen = c.seen
        BY <3>1 DEF Forms
      <3>3. form' = [form EXCEPT ![t] = f]
        BY <2>1, <3>1 DEF abandonLivepeerUploadJob
      <3>4. FormHolds(f)
        BY <1>1, <3>2 DEF FormHolds, Paying
      <3>5. Within(f, jobs) /\ Carried(f, form[t])
        BY <3>2, StoredTypes DEF Within, Carried
      <3>. QED BY <3>3, <3>4, <3>5
    <2>2. CASE c.job # j
      <3>1. PICK f \in Forms : f = [c EXCEPT !.shown = 0, !.tracked = 0, !.resumable = FALSE]
        BY DEF Forms
      <3>2. /\ f.op = c.op /\ f.job = c.job /\ f.file = c.file /\ f.ui = c.ui /\ f.payable = c.payable
            /\ f.tracked = 0 /\ f.shown = 0 /\ f.seen = c.seen
        BY <3>1 DEF Forms
      <3>3. form' = [form EXCEPT ![t] = f]
        BY <2>2, <3>1 DEF abandonLivepeerUploadJob
      <3>4. FormHolds(f)
        BY <1>1, <3>2 DEF FormHolds, Paying
      <3>5. Within(f, jobs) /\ Carried(f, form[t])
        BY <3>2, StoredTypes DEF Within, Carried
      <3>. QED BY <3>3, <3>4, <3>5
    <2>. QED BY <2>1, <2>2
  <1>3. /\ form' \in [Tabs -> Forms]
        /\ \A u \in Tabs : FormHolds(form'[u]) /\ Within(form'[u], jobs) /\ Carried(form'[u], form[u])
    BY <1>2, FormMoves
  <1>4. NothingNew
    BY <1>1 DEF NothingNew, Live, Owed, readPendingLivepeerUpload
  <1>5. (draft.job = j /\ draft' = NoDraft) \/ (draft.job # j /\ draft' = draft)
    BY DEF abandonLivepeerUploadJob
  <1>6. ClientTypes'
    <2>1. draft' \in Drafts /\ draft'.job <= jobs
      BY <1>5, StoredTypes
    <2>2. bookmark' \in 0 .. jobs
      BY StoredTypes DEF abandonLivepeerUploadJob
    <2>3. session' \in [Tabs -> [Jobs -> 0 .. keys']]
      BY <1>1, StoredTypes, KeyStored DEF abandonLivepeerUploadJob, clearLivepeerJobSessionKey
    <2>4. abandoned' \subseteq 1 .. jobs
      BY <1>1, StoredTypes DEF ClientInv, ClientTypes
    <2>. QED BY <1>1, <1>3, <2>1, <2>2, <2>3, <2>4 DEF ClientInv, ClientTypes
  <1>7. DraftKept
    <2>1. CASE draft' = draft
      BY <2>1 DEF DraftKept, Marked
    <2>2. ASSUME draft.job = j, ~overlooked', NEW k \in Jobs, Owed(k)' PROVE FALSE
      <3>1. k = j
        BY <1>1, <1>4, <2>2, OwedDraft DEF NothingNew
      <3>. QED BY <1>1, <2>2, <3>1 DEF Owed
    <2>. QED BY <1>5, <2>1, <2>2 DEF DraftKept
  <1>. QED BY <1>1, <1>3, <1>4, <1>6, <1>7, ClientKeeps

\* The chain and the bridge move on: no job becomes live or owed that was not.
LEMMA WorldMoves ==
    ASSUME ClientInv, UNCHANGED <<form, session, draft, bookmark, abandoned, jobs, keys, uploads, overlooked>>,
           market' \in [Jobs -> PaidJobs], expired' \subseteq Jobs, relays' \subseteq relays,
           replacements' \subseteq replacements, hint' \in 0 .. jobs, NothingNew
    PROVE  ClientInv'
  <1>1. ClientTypes'
    BY DEF ClientInv, ClientTypes
  <1>2. \A u \in Tabs : FormHolds(form'[u]) /\ Within(form'[u], jobs) /\ Carried(form'[u], form[u])
    BY DEF ClientInv, Carried
  <1>3. DraftKept
    BY DEF DraftKept, Marked
  <1>. QED BY <1>1, <1>2, <1>3, ClientKeeps

\* A payment reaches the market: its job was live, and owed, before.
LEMMA PaidJobKeeps ==
    ASSUME ClientInv, NEW r \in relays, create_paid_job(r)
    PROVE  ClientInv'
  <1>1. UNCHANGED <<form, session, draft, bookmark, abandoned, jobs, keys, expired, replacements, uploads, overlooked>>
    BY DEF create_paid_job, storage, counters
  <1>2. r.job \in Jobs /\ r.key \in Nat /\ r.size \in Nat /\ r.job \in 0 .. jobs
    BY ClientConstants DEF ClientInv, ClientTypes, Jobs
  <1>3. relays' \subseteq relays /\ \A q \in relays' : q \in relays
    BY DEF create_paid_job
  <1>4. CASE UNCHANGED <<market, hint>>
    <2>1. NothingNew
      BY <1>1, <1>3, <1>4 DEF NothingNew, Live, Owed, readPendingLivepeerUpload
    <2>. QED BY <1>1, <1>3, <1>4, <2>1, StoredTypes, WorldMoves DEF ClientInv, ClientTypes
  <1>5. CASE /\ market[r.job].state = "none"
             /\ market' = [market EXCEPT ![r.job] = [state |-> "authorized", key |-> r.key, size |-> r.size]]
             /\ hint' \in {hint, r.job}
    <2>1. market' \in [Jobs -> PaidJobs] /\ hint' \in 0 .. jobs
      <3>1. [state |-> "authorized", key |-> r.key, size |-> r.size] \in PaidJobs
        BY <1>2 DEF PaidJobs
      <3>. QED BY <1>2, <1>5, <3>1, StoredTypes
    <2>2. \A k \in Jobs : k # r.job => market'[k] = market[k]
      BY <1>5, StoredTypes
    <2>3. \A k \in Jobs : Live(k)' => Live(k)
      BY <1>1, <1>3, <2>2 DEF Live, readPendingLivepeerUpload
    <2>4. \A k \in Jobs : Owed(k)' => Owed(k)
      <3>1. \A k \in Jobs : k # r.job /\ Owed(k)' => Owed(k)
        BY <1>1, <1>3, <2>2 DEF Owed
      <3>2. Owed(r.job)' => Owed(r.job)
        BY <1>1, <1>5 DEF Owed
      <3>. QED BY <3>1, <3>2
    <2>5. NothingNew
      BY <1>1, <2>3, <2>4 DEF NothingNew
    <2>. QED BY <1>1, <1>3, <2>1, <2>5, WorldMoves DEF ClientInv, ClientTypes
  <1>. QED BY <1>4, <1>5 DEF create_paid_job

\* A payment expires.
LEMMA LostKeeps ==
    ASSUME ClientInv, NEW r \in relays, relayLost(r)
    PROVE  ClientInv'
  <1>1. UNCHANGED <<form, session, draft, bookmark, abandoned, jobs, keys, market, expired, replacements, uploads, hint, overlooked>>
    BY DEF relayLost, storage, counters
  <1>2. relays' \subseteq relays /\ \A q \in relays' : q \in relays
    BY DEF relayLost
  <1>3. NothingNew
    BY <1>1, <1>2 DEF NothingNew, Live, Owed, readPendingLivepeerUpload
  <1>. QED BY <1>1, <1>2, <1>3, StoredTypes, WorldMoves DEF ClientInv, ClientTypes

\* A key is replaced.
LEMMA ReplacementKeeps ==
    ASSUME ClientInv, NEW r \in replacements, replace_upload_key(r)
    PROVE  ClientInv'
  <1>1. UNCHANGED <<form, session, draft, bookmark, abandoned, jobs, keys, expired, relays, uploads, hint, overlooked>>
    BY DEF replace_upload_key, storage, counters
  <1>2. r.job \in Jobs /\ r.key \in Nat
    BY StoredTypes
  <1>3. market' \in [Jobs -> PaidJobs] /\ \A k \in Jobs : market'[k].state = market[k].state
    <2>1. PICK p \in PaidJobs : p = [market[r.job] EXCEPT !.key = r.key]
      <3>1. PICK m \in PaidJobs : m = market[r.job]
        BY <1>2, StoredTypes
      <3>. QED BY <1>2, <3>1 DEF PaidJobs
    <2>2. p.state = market[r.job].state
      <3>1. PICK m \in PaidJobs : m = market[r.job]
        BY <1>2, StoredTypes
      <3>. QED BY <2>1, <3>1 DEF PaidJobs
    <2>3. market' = market \/ market' = [market EXCEPT ![r.job] = p]
      BY <2>1 DEF replace_upload_key
    <2>. QED BY <1>2, <2>2, <2>3, StoredTypes
  <1>4. NothingNew
    BY <1>1, <1>3 DEF NothingNew, Live, Owed, readPendingLivepeerUpload
  <1>5. replacements' \subseteq replacements
    BY DEF replace_upload_key
  <1>. QED BY <1>1, <1>3, <1>4, <1>5, StoredTypes, WorldMoves DEF ClientInv, ClientTypes

\* A job is published, or its deadline passes: it is no longer live.
LEMMA JobEnds ==
    ASSUME ClientInv, NEW j \in Jobs, finalize_publication(j) \/ deadlinePasses(j)
    PROVE  ClientInv'
  <1>1. UNCHANGED <<form, session, draft, bookmark, abandoned, jobs, keys, relays, replacements, uploads, hint, overlooked>>
    BY DEF finalize_publication, deadlinePasses, storage, counters
  <1>2. /\ market' \in [Jobs -> PaidJobs]
        /\ \A k \in Jobs : market'[k].state = market[k].state \/ market'[k].state = "published"
    <2>1. CASE market' = market
      BY <2>1, StoredTypes
    <2>2. CASE market' = [market EXCEPT ![j].state = "published"]
      <3>1. PICK m \in PaidJobs : m = market[j]
        BY StoredTypes
      <3>2. PICK p \in PaidJobs : p = [m EXCEPT !.state = "published"]
        BY DEF PaidJobs
      <3>3. p.state = "published"
        BY <3>2 DEF PaidJobs
      <3>4. market' = [market EXCEPT ![j] = p]
        BY <2>2, <3>1, <3>2
      <3>. QED BY <3>3, <3>4, StoredTypes
    <2>. QED BY <2>1, <2>2 DEF finalize_publication, deadlinePasses
  <1>3. expired' \subseteq Jobs /\ expired \subseteq expired'
    BY DEF finalize_publication, deadlinePasses, ClientInv, ClientTypes
  <1>4. NothingNew
    BY <1>1, <1>2, <1>3 DEF NothingNew, Live, Owed, readPendingLivepeerUpload
  <1>. QED BY <1>1, <1>2, <1>3, <1>4, StoredTypes, WorldMoves DEF ClientInv, ClientTypes

\* At first no form has a job.
LEMMA InitClient == ClientInit => ClientInv
  <1>. SUFFICES ASSUME ClientInit PROVE ClientInv
    OBVIOUS
  <1>1. Blank \in Forms /\ FormHolds(Blank) /\ Blank.job = 0 /\ Blank.tracked = 0 /\ Blank.shown = 0 /\ Blank.seen = 0
    BY DEF Blank, Forms, Stages, Operations, FormHolds, Paying
  <1>2. NoDraft \in Drafts /\ NoDraft.job = 0
    BY DEF NoDraft, Drafts
  <1>3. /\ form = [t \in Tabs |-> Blank] /\ session = [t \in Tabs |-> [j \in Jobs |-> 0]]
        /\ draft = NoDraft /\ bookmark = 0 /\ abandoned = {} /\ expired = {} /\ relays = {} /\ replacements = {}
        /\ uploads = [j \in Jobs |-> "none"] /\ hint = 0 /\ jobs = 0 /\ keys = 0 /\ overlooked = FALSE
        /\ market = [j \in Jobs |-> [state |-> "none", key |-> 0, size |-> 0]]
    BY DEF ClientInit
  <1>4. ClientTypes
    <2>1. form \in [Tabs -> Forms]
      BY <1>1, <1>3
    <2>2. market \in [Jobs -> PaidJobs]
      BY <1>3 DEF PaidJobs
    <2>3. session \in [Tabs -> [Jobs -> 0 .. keys]]
      BY <1>3
    <2>4. uploads \in [Jobs -> {"none", "open", "done", "cancelled"}]
      BY <1>3
    <2>5. /\ draft \in Drafts /\ draft.job <= jobs /\ bookmark \in 0 .. jobs /\ hint \in 0 .. jobs
          /\ jobs \in 0 .. MaxJobs /\ keys \in Nat
      BY <1>2, <1>3, ClientConstants
    <2>6. overlooked \in BOOLEAN /\ \A r \in relays : r.job <= jobs
      BY <1>3
    <2>7. /\ abandoned \subseteq 1 .. jobs /\ expired \subseteq Jobs
          /\ relays \subseteq [job : Jobs, key : Nat, size : Nat] /\ replacements \subseteq [job : Jobs, key : Nat]
      BY <1>3
    <2>. QED BY <2>1, <2>2, <2>3, <2>4, <2>5, <2>6, <2>7 DEF ClientTypes
  <1>5. \A t \in Tabs : FormHolds(form[t]) /\ Within(form[t], jobs)
    BY <1>1, <1>3 DEF Within
  <1>6. \A j \in Jobs : market[j].state = "none" /\ ~Live(j) /\ ~Owed(j) /\ j # 0
    BY <1>3, ClientConstants DEF Live, Owed, readPendingLivepeerUpload, Jobs
  <1>7. FilesAgree
    BY <1>1, <1>3, <1>6 DEF FilesAgree
  <1>. QED BY <1>4, <1>5, <1>6, <1>7 DEF ClientInv, OneLive, OwedKept

\* Every step keeps the invariant of the form.
LEMMA NextClient == ClientInv /\ [ClientNext]_clientVars => ClientInv'
  <1>. SUFFICES ASSUME ClientInv, [ClientNext]_clientVars PROVE ClientInv'
    OBVIOUS
  <1>1. CASE UNCHANGED clientVars
    <2>1. UNCHANGED <<form, session, draft, bookmark, abandoned, jobs, keys, market, expired, relays, replacements, uploads, hint, overlooked>>
      BY <1>1 DEF clientVars, storage, counters, world, unclicked
    <2>2. NothingNew
      BY <2>1, SameJobs
    <2>. QED BY <2>1, <2>2, StoredTypes, WorldMoves DEF ClientInv, ClientTypes
  <1>2. ASSUME NEW t \in Tabs, NEW keep \in BOOLEAN, openForm(t, keep) PROVE ClientInv'
    BY <1>2, OpenKeeps
  <1>3. ASSUME NEW t \in Tabs, LivepeerUploadStatus(t) PROVE ClientInv'
    BY <1>3, StatusKeeps
  <1>4. ASSUME NEW t \in Tabs, NEW n \in Files, selectFile(t, n) PROVE ClientInv'
    BY <1>4, SelectKeeps
  <1>5. ASSUME NEW t \in Tabs, matchPendingLivepeerUpload(t) \/ matchFails(t) PROVE ClientInv'
    BY <1>5, MatchKeeps, LookupFails
  <1>6. ASSUME NEW t \in Tabs, Pays(t) PROVE ClientInv'
    BY <1>6, PrepareKeeps, WritesKeep, LookupFails, StartKeeps, AuthorizeKeeps, SignsKeeps, SubmitKeeps,
       AnswerKeeps, WaitKeeps DEF Pays
  <1>7. ASSUME NEW t \in Tabs, UploadOps(t) PROVE ClientInv'
    BY <1>7, IntentKeeps, TransferKeeps, QueryKeeps, ResumptionKeeps, ReplaceKeeps, ReplacedKeeps, CancelKeeps,
       AbandonKeeps DEF UploadOps
  <1>8. ASSUME NEW r \in relays, create_paid_job(r) \/ relayLost(r) PROVE ClientInv'
    BY <1>8, PaidJobKeeps, LostKeeps
  <1>9. ASSUME NEW r \in replacements, replace_upload_key(r) PROVE ClientInv'
    BY <1>9, ReplacementKeeps
  <1>10. ASSUME NEW j \in Jobs, finalize_publication(j) \/ deadlinePasses(j) PROVE ClientInv'
    BY <1>10, JobEnds
  <1>. QED BY <1>1, <1>2, <1>3, <1>4, <1>5, <1>6, <1>7, <1>8, <1>9, <1>10 DEF ClientNext

\* What the invariant means: no form leaves its table, one fee at a time, and what is paid is found.
LEMMA ClientMeans == ClientInv => ClientSafe
  <1>. SUFFICES ASSUME ClientInv PROVE ClientSafe
    OBVIOUS
  <1>1. ClientTypeOK
    <2>1. \A t \in Tabs : form[t].op \in Operations /\ form[t].job \in 0 .. jobs
      BY OneForm DEF Within
    <2>. QED BY <2>1, StoredTypes DEF ClientTypeOK, ClientInv, ClientTypes
  <1>2. StagesValid
    BY OneForm DEF StagesValid, Stages
  <1>3. OneFeeAtATime
    BY DEF OneFeeAtATime, ClientInv, OneLive, Live
  <1>4. PaidJobFound
    <2>. SUFFICES ASSUME NEW j \in Jobs, readPendingLivepeerUpload(j), uploads[j] # "cancelled", ~overlooked
                  PROVE  findPendingLivepeerUpload(localJob) = j
      BY DEF PaidJobFound
    <2>1. Owed(j)
      BY DEF Owed, readPendingLivepeerUpload
    <2>2. localJob = j
      BY <2>1, OwedDraft DEF localJob
    <2>. QED BY <2>2 DEF findPendingLivepeerUpload
  <1>. QED BY <1>1, <1>2, <1>3, <1>4 DEF ClientSafe

-----------------------------------------------------------------------------
(* All of them: a step of the whole is a step of one, or leaves it alone. *)

\* The inbox holds one open request and calls refunded only what the chain refunded, for any
\* number of requests, runs and rows.
THEOREM RefundsAreRealCorrect == RulesSpec => []RefundsAreReal
  <1>1. RulesInit => InboxInv
    BY InitInbox DEF RulesInit
  <1>2. InboxInv /\ [RulesNext]_rulesVars => InboxInv'
    BY NextInbox DEF RulesNext, rulesVars, deskVars
  <1>3. InboxInv => RefundsAreReal
    BY InboxMeans DEF RefundsAreReal
  <1>. QED BY <1>1, <1>2, <1>3, PTL DEF RulesSpec

\* The contract honours every quote the bridge signed, to the last unit, and the bridge signs no
\* more than its limit allows, for any constants of the formulas, ages, limits and windows.
THEOREM FeesHonouredCorrect == RulesSpec => []FeesHonoured
  <1>1. RulesInit => FeeInv
    BY InitFee DEF RulesInit
  <1>2. FeeInv /\ [RulesNext]_rulesVars => FeeInv'
    BY NextFee DEF RulesNext, rulesVars, deskVars
  <1>3. FeeInv => FeesHonoured
    BY FeeMeans DEF FeesHonoured
  <1>. QED BY <1>1, <1>2, <1>3, PTL DEF RulesSpec

\* Places, daily attempts, the month's budget and the Stream minutes stay within their limits, an
\* incident is never reopened by an older request or a new month, and every lease has its alarm,
\* for any deployment, number of jobs and creators, and any order and repetition of the calls.
THEOREM AdmissionBoundedCorrect == RulesSpec => []AdmissionBounded
  <1>1. RulesInit => AdmissionInv
    BY InitAdmission DEF RulesInit
  <1>2. AdmissionInv /\ [RulesNext]_rulesVars => AdmissionInv'
    BY NextAdmission DEF RulesNext, rulesVars, deskVars
  <1>3. AdmissionInv => AdmissionBounded
    BY AdmissionMeans DEF AdmissionBounded
  <1>. QED BY <1>1, <1>2, <1>3, PTL DEF RulesSpec

\* Tokens follow the rights behind them: revocations and purchases take hold in bounded time, a
\* ticket is settled before it is watched and each signed request is served once, for any lives,
\* caches and delays and any number of requests under way.
THEOREM TokensFollowRightsCorrect == RulesSpec => []TokensFollowRights
  <1>1. RulesInit => PlaybackInv
    BY InitPlayback DEF RulesInit
  <1>2. PlaybackInv /\ [RulesNext]_rulesVars => PlaybackInv'
    BY NextPlayback DEF RulesNext, rulesVars, deskVars
  <1>3. PlaybackInv => TokensFollowRights
    BY PlaybackMeans DEF TokensFollowRights
  <1>. QED BY <1>1, <1>2, <1>3, PTL DEF RulesSpec

\* What a browser keeps stays true to the chain, whatever its tabs do at the same time.  The upload form
\* pays one fee at a time and finds what it paid for, unless it is noted to have overlooked a payment
\* under way; a payment by swap is not forgotten while its deposit is open, and money that was not
\* converted buys nothing; a logout in one tab stops the players of all and is not undone by work begun
\* before it, and the device that was paid for stays the browser's.  For any number of tabs, jobs, files,
\* keys, deposits, logouts and clicks.
THEOREM ClientsSafeCorrect == RulesSpec => []ClientsSafe
  <1>1. RulesInit => ClientInv /\ SwapInv /\ SessionInv
    BY InitClient, InitSwap, InitSession DEF RulesInit
  <1>2. ClientInv /\ [RulesNext]_rulesVars => ClientInv'
    BY NextClient DEF RulesNext, rulesVars, browserVars
  <1>3. SwapInv /\ [RulesNext]_rulesVars => SwapInv'
    BY NextSwap DEF RulesNext, rulesVars, browserVars
  <1>4. SessionInv /\ [RulesNext]_rulesVars => SessionInv'
    BY NextSession DEF RulesNext, rulesVars, browserVars
  <1>5. ClientInv /\ SwapInv /\ SessionInv => ClientsSafe
    BY ClientMeans, SwapMeans, SessionMeans DEF ClientsSafe
  <1>. QED BY <1>1, <1>2, <1>3, <1>4, <1>5, PTL DEF RulesSpec
=============================================================================
