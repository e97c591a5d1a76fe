---------------------------- MODULE GoodsProofs ----------------------------
(***************************************************************************)
(* What holds of the documents that move goods, for any number of them and *)
(* of requests: first of transfers, then of suppliers' bills (B!), and at  *)
(* the end, with what PurchasingProofs and SellingProofs show of orders,   *)
(* of the four put together.                                               *)
(***************************************************************************)
EXTENDS MCGoods, SumsProofs

---------------------------------------------------------------------------
(* Transfers.                                                              *)

\* The next line to move is one that has something to move.
LEMMA FirstLoads ==
    ASSUME NEW load \in [Lines -> Sizes], load # Nothing
    PROVE  First(load) \in Lines /\ load[First(load)] > 0
  <1> DEFINE T == {l \in Lines : load[l] > 0}
  <1>1. T \in SUBSET Nat
    BY TransfersAssumption DEF Lines
  <1>2. T # {}
    <2> SUFFICES ASSUME T = {} PROVE load = Nothing
      OBVIOUS
    <2>1. \A l \in Lines : load[l] = 0
      BY DEF Sizes
    <2> QED  BY <2>1 DEF Nothing
  <1>3. PICK l \in T : \A k \in T : l <= k
    <2> HIDE DEF T
    <2> QED  BY <1>1, <1>2, LeastNumber
  <1>4. l \in Lines /\ load[l] > 0 /\ \A k \in Lines : load[k] > 0 => l <= k
    BY <1>3
  <1> QED  BY <1>4 DEF First

\* A request has a movement in hand while it is about to write it down, and
\* only then.
Carrying == {"left", "arrived"}

InHandOf(q) == IF q.at \in Carrying THEN q.now \in Lines /\ q.load[q.now] > 0 ELSE q.now = NoLine

\* What the constraints of the lines ask.
RowsHold ==
    \A l \in Lines : /\ line[l].received <= line[l].despatched
                     /\ line[l].despatched <= line[l].quantity

\* Whoever receives does so of goods that left, and a document that has left
\* is never a draft again.
TransferTyped ==
    /\ TypeOK /\ RowsHold
    /\ \A c \in Clerks : InHandOf(clerk[c]) /\ (clerk[c].at \in Arriving => state \in HasLeft)

\* Nobody raced, died over a movement or changed the document under a despatch.
Intact == slips \subseteq {"crossed"}

Loads(c)   == clerk[c].at \in {"leave", "left"}
Unloads(c) == clerk[c].at \in {"arrive", "arrived"}

OneEach == \A c, d \in Clerks : (Loads(c) /\ Loads(d)) \/ (Unloads(c) /\ Unloads(d)) => c = d

\* A despatch works on the edition there is.
UpToDate(c) ==
    clerk[c].at \in Leaving =>
        /\ clerk[c].edition = edition
        /\ state \in IF clerk[c].at = "claim" THEN HasLeft \cup {"draft"} ELSE HasLeft

\* A request still has to move what has not gone, or brings no more than is on
\* the road; the movement in hand is the one the line does not know.
RequestInv(c, l) ==
    /\ clerk[c].at \in {"claim", "look"} => clerk[c].load[l] = line[l].quantity
    /\ Loads(c) => clerk[c].load[l] \in {0, IF line[l].moved THEN 0 ELSE line[l].quantity}
    /\ Unloads(c) /\ clerk[c].load[l] > 0
          => clerk[c].load[l] + line[l].received <= line[l].despatched
    /\ c \in Unwritten(l, "left") => out[l] = line[l].quantity
    /\ c \in Unwritten(l, "arrived") => in[l] = line[l].received + clerk[c].load[l]

\* A line goes whole or not at all, and but for the movement in hand the
\* shelves say what it does.
LineInv(l) ==
    /\ line[l].despatched = IF line[l].moved THEN line[l].quantity ELSE 0
    /\ \A c \in Clerks : RequestInv(c, l)
    /\ Unwritten(l, "left") = {} => out[l] = line[l].despatched
    /\ Unwritten(l, "arrived") = {} => in[l] = line[l].received
    /\ state \notin HasLeft => out[l] = 0 /\ in[l] = 0

RoadInv == Intact => OneEach /\ (\A c \in Clerks : UpToDate(c)) /\ \A l \in Lines : LineInv(l)

\* Where no despatch crossed the end of a receipt, nothing is despatched any
\* more once a receipt has found everything to have arrived.
EndsAlone ==
    "crossed" \notin slips =>
        /\ \A c, d \in Clerks : clerk[c].at = "close" => clerk[d].at \notin Leaving
        /\ \A c \in Clerks : clerk[c].at = "close" /\ clerk[c].complete
                               => \A l \in Lines : HasArrived(l)
        /\ state = "done" => /\ \A c \in Clerks : clerk[c].at \notin Leaving
                             /\ \A l \in Lines : HasArrived(l)

TransferInv == TransferTyped /\ RoadInv /\ EndsAlone

\* A step of one request, as far as the types go.
LEMMA OneTyped ==
    ASSUME TransferTyped, NEW c \in Clerks,
           UNCHANGED <<edition, line>>, slips' \in SUBSET Slips, stops' \in 0 .. MaxStops,
           out' \in [Lines -> Nat], in' \in [Lines -> Nat],
           clerk' \in [Clerks -> Requests],
           \A d \in Clerks \ {c} : clerk'[d] = clerk[d],
           InHandOf(clerk'[c]),
           clerk'[c].at \in Arriving => state' \in HasLeft,
           state' \in States, state \in HasLeft => state' \in HasLeft
    PROVE  TransferTyped'
  <1>1. TypeOK'
    BY DEF TransferTyped, TypeOK
  <1>2. RowsHold'
    BY DEF TransferTyped, RowsHold
  <1>3. \A d \in Clerks : InHandOf(clerk'[d]) /\ (clerk'[d].at \in Arriving => state' \in HasLeft)
    BY DEF TransferTyped
  <1> QED  BY <1>1, <1>2, <1>3 DEF TransferTyped, InHandOf

\* A step of one request that moves nothing and writes on no line.
LEMMA OneOnTheRoad ==
    ASSUME TransferTyped, RoadInv, NEW c \in Clerks, slips \subseteq slips',
           UNCHANGED <<edition, line, out, in>>,
           \A d \in Clerks \ {c} : clerk'[d] = clerk[d],
           state' = state \/ (state \in HasLeft \cup {"draft"} /\ state' \in HasLeft),
           Intact' => clerk[c].at \notin Carrying,
           clerk'[c].at \notin Carrying,
           Intact' /\ clerk'[c].at = "leave" => \A d \in Clerks \ {c} : ~Loads(d),
           Intact' /\ clerk'[c].at = "arrive" => \A d \in Clerks \ {c} : ~Unloads(d),
           Intact' => UpToDate(c)',
           \A l \in Lines : Intact' =>
             /\ clerk'[c].at \in {"claim", "look"} => clerk'[c].load[l] = line[l].quantity
             /\ clerk'[c].at = "leave"
                   => clerk'[c].load[l] \in {0, IF line[l].moved THEN 0 ELSE line[l].quantity}
             /\ clerk'[c].at = "arrive" /\ clerk'[c].load[l] > 0
                   => clerk'[c].load[l] + line[l].received <= line[l].despatched
    PROVE  RoadInv'
  <1> SUFFICES ASSUME Intact' PROVE RoadInv'
    BY DEF RoadInv
  <1>0. /\ OneEach /\ (\A d \in Clerks : UpToDate(d)) /\ \A l \in Lines : LineInv(l)
    BY DEF RoadInv, Intact
  <1>1. OneEach'
    BY <1>0 DEF OneEach, Loads, Unloads, Carrying
  <1>2. ASSUME NEW d \in Clerks PROVE UpToDate(d)'
    BY <1>0 DEF UpToDate
  <1>3. ASSUME NEW l \in Lines PROVE LineInv(l)'
    <2>1. /\ Unwritten(l, "left")' = Unwritten(l, "left")
          /\ Unwritten(l, "arrived")' = Unwritten(l, "arrived")
      BY DEF Unwritten, Carrying
    <2>2. state' \notin HasLeft => state \notin HasLeft
      OBVIOUS
    <2>3. ASSUME NEW d \in Clerks
          PROVE  RequestInv(d, l)'
      <3>1. CASE d = c
        <4>1. d \notin Unwritten(l, "left") /\ d \notin Unwritten(l, "arrived")
          BY <3>1 DEF Unwritten, Carrying
        <4> QED  BY <2>1, <3>1, <4>1 DEF RequestInv, Loads, Unloads, Carrying
      <3>2. CASE d # c
        <4>1. clerk'[d] = clerk[d]
          BY <3>2
        <4> QED  BY <1>0, <2>1, <4>1 DEF LineInv, RequestInv, Loads, Unloads
      <3> QED  BY <3>1, <3>2
    <2> QED  BY <1>0, <2>1, <2>2, <2>3 DEF LineInv, RequestInv
  <1> QED  BY <1>1, <1>2, <1>3 DEF RoadInv

\* A step of one request, as far as the end of a receipt goes.
LEMMA OneEnds ==
    ASSUME TransferTyped, EndsAlone, NEW c \in Clerks, slips \subseteq slips',
           \A d \in Clerks \ {c} : clerk'[d] = clerk[d],
           "crossed" \notin slips' =>
             /\ clerk[c].at \in Leaving \/ \A l \in Lines : HasArrived(l) => HasArrived(l)'
             /\ clerk'[c].at \in Leaving =>
                  clerk[c].at \in Leaving \/ (state # "done" /\ Busy({"close"}) = {})
             /\ clerk'[c].at = "close" =>
                  Busy(Leaving) = {} /\ clerk[c].at # "close"
                  /\ (clerk'[c].complete => \A l \in Lines : HasArrived(l)')
             /\ state' = "done" => state = "done" \/ (clerk[c].at = "close" /\ clerk[c].complete)
    PROVE  EndsAlone'
  <1> SUFFICES ASSUME "crossed" \notin slips' PROVE EndsAlone'
    BY DEF EndsAlone
  <1>0. /\ \A e, d \in Clerks : clerk[e].at = "close" => clerk[d].at \notin Leaving
        /\ \A e \in Clerks : clerk[e].at = "close" /\ clerk[e].complete
                               => \A l \in Lines : HasArrived(l)
        /\ state = "done" => /\ \A e \in Clerks : clerk[e].at \notin Leaving
                             /\ \A l \in Lines : HasArrived(l)
    BY DEF EndsAlone
  <1>1. "close" \notin Leaving
    BY DEF Leaving
  <1>2. ASSUME NEW e \in Clerks, NEW d \in Clerks, clerk'[e].at = "close"
        PROVE  clerk'[d].at \notin Leaving
    <2>1. CASE e = c
      <3>1. \A b \in Clerks : clerk[b].at \notin Leaving
        BY <1>2, <2>1 DEF Busy
      <3>2. CASE d = c
        BY <1>1, <1>2, <2>1, <3>2
      <3>3. CASE d # c
        BY <3>1, <3>3
      <3> QED  BY <3>2, <3>3
    <2>2. CASE e # c
      <3>1. clerk[e].at = "close" /\ Busy({"close"}) # {}
        BY <1>2, <2>2 DEF Busy
      <3>2. CASE d = c
        BY <1>0, <3>1, <3>2
      <3>3. CASE d # c
        BY <1>0, <3>1, <3>3
      <3> QED  BY <3>2, <3>3
    <2> QED  BY <2>1, <2>2
  <1>3. ASSUME NEW e \in Clerks, clerk'[e].at = "close", clerk'[e].complete, NEW l \in Lines
        PROVE  HasArrived(l)'
    <2>1. CASE e = c
      BY <1>3, <2>1
    <2>2. CASE e # c
      BY <1>0, <1>3, <2>2
    <2> QED  BY <2>1, <2>2
  <1>4. ASSUME state' = "done"
        PROVE  (\A e \in Clerks : clerk'[e].at \notin Leaving) /\ \A l \in Lines : HasArrived(l)'
    <2>1. (\A e \in Clerks : clerk[e].at \notin Leaving) /\ \A l \in Lines : HasArrived(l)
      BY <1>0, <1>4
    <2>2. clerk'[c].at \notin Leaving
      <3>1. state = "done" \/ Busy({"close"}) # {}
        BY <1>4 DEF Busy
      <3> QED  BY <2>1, <3>1
    <2> QED  BY <2>1, <2>2
  <1> QED  BY <1>2, <1>3, <1>4 DEF EndsAlone

\* What happens behind a request's back is noted and never forgotten.
LEMMA SlipNoted ==
    ASSUME slips \in SUBSET Slips, NEW kind \in Slips, NEW when \in BOOLEAN, Slip(kind, when)
    PROVE  /\ slips' \in SUBSET Slips /\ slips \subseteq slips'
           /\ when => kind \in slips'
  BY DEF Slip

\* A free request is a request.
LEMMA FreeTyped == Free \in Requests /\ Free.at = "free" /\ Free.now = NoLine
  <1>1. Nothing \in [Lines -> Sizes]
    BY TransfersAssumption DEF Nothing, Sizes
  <1> QED  BY <1>1, TransfersAssumption DEF Free, Requests

\* A step of one request is nobody else's.
LEMMA OneRequest ==
    ASSUME clerk \in [Clerks -> Requests], NEW c \in Clerks, NEW q \in Requests,
           clerk' = [clerk EXCEPT ![c] = q]
    PROVE  /\ clerk' \in [Clerks -> Requests]
           /\ clerk'[c] = q
           /\ \A d \in Clerks \ {c} : clerk'[d] = clerk[d]
  OBVIOUS

LEMMA BeginDespatchKeeps ==
    ASSUME TransferInv, NEW c \in Clerks, BeginDespatch(c)
    PROVE  TransferInv'
  <1>0. /\ TransferTyped /\ RoadInv /\ EndsAlone /\ TypeOK
    BY DEF TransferInv, TransferTyped
  <1>1. /\ UNCHANGED <<state, edition, line, out, in, stops>>
        /\ clerk[c].at = "free" /\ state \in {"draft", "in_transit"}
        /\ \A d \in Clerks \ {c} : clerk'[d] = clerk[d]
        /\ clerk' \in [Clerks -> Requests]
        /\ clerk'[c].at = IF state = "draft" THEN "claim" ELSE "look"
        /\ clerk'[c].edition = edition /\ clerk'[c].now = NoLine
        /\ \A l \in Lines : clerk'[c].load[l] = line[l].quantity
    <2> DEFINE load == [l \in Lines |-> line[l].quantity]
               q == [Free EXCEPT !.at = IF state = "draft" THEN "claim" ELSE "look",
                                 !.edition = edition, !.load = load]
    <2>1. load \in [Lines -> Sizes]
      BY <1>0 DEF TypeOK, Rows
    <2>2. \A l \in Lines : load[l] = line[l].quantity
      OBVIOUS
    <2>3. clerk' = [clerk EXCEPT ![c] = q]
      BY DEF BeginDespatch
    <2> HIDE DEF load
    <2>4. /\ q \in Requests /\ q.at = IF state = "draft" THEN "claim" ELSE "look"
          /\ q.edition = edition /\ q.load = load /\ q.now = NoLine
      BY <1>0, <2>1, FreeTyped DEF TypeOK, Requests, Leaving
    <2> HIDE DEF q
    <2>6. clerk[c].at = "free" /\ state \in {"draft", "in_transit"}
      BY DEF BeginDespatch, Despatchable
    <2>7. UNCHANGED <<state, edition, line, out, in, stops>>
      BY DEF BeginDespatch
    <2>8. /\ clerk' \in [Clerks -> Requests] /\ clerk'[c] = q
          /\ \A d \in Clerks \ {c} : clerk'[d] = clerk[d]
      BY <1>0, <2>3, <2>4, OneRequest DEF TypeOK
    <2> QED  BY <2>2, <2>4, <2>6, <2>7, <2>8
  <1>2. /\ slips' \in SUBSET Slips /\ slips \subseteq slips'
        /\ Busy({"close"}) # {} => "crossed" \in slips'
    BY <1>0, SlipNoted DEF BeginDespatch, TypeOK, Slips
  <1>3. TransferTyped'
    <2>1. InHandOf(clerk'[c]) /\ clerk'[c].at \notin Arriving
      BY <1>1 DEF InHandOf, Carrying, Arriving
    <2> QED  BY <1>0, <1>1, <1>2, <2>1, OneTyped DEF TypeOK
  <1>4. RoadInv'
    <2>1. UpToDate(c)'
      BY <1>1 DEF UpToDate, HasLeft
    <2> QED  BY <1>0, <1>1, <1>2, <2>1, OneOnTheRoad DEF Carrying
  <1>5. EndsAlone'
    BY <1>0, <1>1, <1>2, OneEnds DEF HasArrived
  <1> QED  BY <1>3, <1>4, <1>5 DEF TransferInv

LEMMA ClaimKeeps ==
    ASSUME TransferInv, NEW c \in Clerks, Claim(c)
    PROVE  TransferInv'
  <1>0. /\ TransferTyped /\ RoadInv /\ EndsAlone /\ TypeOK
    BY DEF TransferInv, TransferTyped
  <1>1. /\ UNCHANGED <<edition, line, out, in, slips, stops>>
        /\ clerk[c].at = "claim" /\ state' = IF state = "draft" THEN "in_transit" ELSE state
        /\ \A d \in Clerks \ {c} : clerk'[d] = clerk[d]
        /\ clerk' \in [Clerks -> Requests]
        /\ clerk'[c] = [clerk[c] EXCEPT !.at = "look"]
    BY <1>0 DEF Claim, TypeOK, Requests, Leaving
  <1>2. /\ clerk'[c].at = "look" /\ clerk'[c].edition = clerk[c].edition
        /\ clerk'[c].load = clerk[c].load /\ clerk'[c].now = clerk[c].now
    BY <1>0, <1>1 DEF TypeOK, Requests
  <1>3. TransferTyped'
    <2>1. InHandOf(clerk'[c]) /\ clerk'[c].at \notin Arriving
      BY <1>0, <1>1, <1>2 DEF TransferTyped, InHandOf, Carrying, Arriving
    <2> QED  BY <1>0, <1>1, <2>1, OneTyped DEF TypeOK, States, HasLeft
  <1>4. RoadInv'
    <2>1. Intact' => UpToDate(c) /\ \A l \in Lines : LineInv(l)
      BY <1>0, <1>1 DEF RoadInv, Intact
    <2>2. Intact' => UpToDate(c)'
      BY <1>1, <1>2, <2>1 DEF UpToDate, HasLeft, Leaving
    <2>3. \A l \in Lines : Intact' => clerk'[c].load[l] = line[l].quantity
      BY <1>1, <1>2, <2>1 DEF LineInv, RequestInv
    <2> QED  BY <1>0, <1>1, <1>2, <2>2, <2>3, OneOnTheRoad DEF Carrying, HasLeft
  <1>5. EndsAlone'
    BY <1>0, <1>1, <1>2, OneEnds DEF HasArrived, Leaving
  <1> QED  BY <1>3, <1>4, <1>5 DEF TransferInv

LEMMA LookKeeps ==
    ASSUME TransferInv, NEW c \in Clerks, Look(c)
    PROVE  TransferInv'
  <1>0. /\ TransferTyped /\ RoadInv /\ EndsAlone /\ TypeOK
    BY DEF TransferInv, TransferTyped
  <1>1. /\ UNCHANGED <<state, edition, line, out, in, stops>>
        /\ clerk[c].at = "look"
        /\ \A d \in Clerks \ {c} : clerk'[d] = clerk[d]
        /\ clerk' \in [Clerks -> Requests]
        /\ clerk'[c].at = "leave" /\ clerk'[c].edition = clerk[c].edition
        /\ clerk'[c].now = clerk[c].now
        /\ \A l \in Lines : clerk'[c].load[l] = IF l \in Already(c) THEN 0 ELSE clerk[c].load[l]
    <2> DEFINE load == [l \in Lines |-> IF l \in Already(c) THEN 0 ELSE clerk[c].load[l]]
    <2>1. load \in [Lines -> Sizes]
      BY <1>0, TransfersAssumption DEF TypeOK, Requests, Sizes
    <2>2. clerk' = [clerk EXCEPT ![c] = [clerk[c] EXCEPT !.at = "leave", !.load = load]]
      BY <1>0 DEF Look, TypeOK, Requests
    <2>3. \A l \in Lines : load[l] = IF l \in Already(c) THEN 0 ELSE clerk[c].load[l]
      OBVIOUS
    <2> HIDE DEF load
    <2>4. [clerk[c] EXCEPT !.at = "leave", !.load = load] \in Requests
      BY <1>0, <2>1 DEF TypeOK, Requests, Leaving
    <2>5. /\ clerk' \in [Clerks -> Requests]
          /\ clerk'[c] = [clerk[c] EXCEPT !.at = "leave", !.load = load]
          /\ \A d \in Clerks \ {c} : clerk'[d] = clerk[d]
      BY <1>0, <2>2, <2>4, OneRequest DEF TypeOK
    <2>6. clerk[c] \in Requests
      BY <1>0 DEF TypeOK
    <2>7. /\ clerk'[c].at = "leave" /\ clerk'[c].edition = clerk[c].edition
          /\ clerk'[c].now = clerk[c].now /\ clerk'[c].load = load
      BY <2>5, <2>6 DEF Requests
    <2>8. UNCHANGED <<state, edition, line, out, in, stops>> /\ clerk[c].at = "look"
      BY DEF Look
    <2> QED  BY <2>3, <2>5, <2>7, <2>8
  <1>2. /\ slips' \in SUBSET Slips /\ slips \subseteq slips'
        /\ Busy({"leave", "left"}) # {} => "raced" \in slips'
    BY <1>0, SlipNoted DEF Look, TypeOK, Slips
  <1>3. TransferTyped'
    <2>1. InHandOf(clerk'[c]) /\ clerk'[c].at \notin Arriving
      BY <1>0, <1>1 DEF TransferTyped, InHandOf, Carrying, Arriving
    <2> QED  BY <1>0, <1>1, <1>2, <2>1, OneTyped DEF TypeOK
  <1>4. RoadInv'
    <2>1. Intact' => UpToDate(c) /\ \A l \in Lines : LineInv(l)
      BY <1>0, <1>2 DEF RoadInv, Intact
    <2>2. Intact' => UpToDate(c)'
      BY <1>1, <2>1 DEF UpToDate, HasLeft, Leaving
    <2>3. Intact' => \A d \in Clerks \ {c} : ~Loads(d)
      BY <1>2 DEF Intact, Busy, Loads
    <2>4. Intact' => Already(c) = {l \in Lines : line[l].moved}
      BY <1>1, <2>1 DEF UpToDate, Already, HasLeft, Leaving
    <2>5. \A l \in Lines : Intact' =>
            clerk'[c].load[l] \in {0, IF line[l].moved THEN 0 ELSE line[l].quantity}
      BY <1>1, <2>1, <2>4 DEF LineInv, RequestInv
    <2> QED  BY <1>0, <1>1, <1>2, <2>2, <2>3, <2>5, OneOnTheRoad DEF Carrying
  <1>5. EndsAlone'
    BY <1>0, <1>1, <1>2, OneEnds DEF HasArrived, Leaving
  <1> QED  BY <1>3, <1>4, <1>5 DEF TransferInv

LEMMA ReceiveKeeps ==
    ASSUME TransferInv, NEW c \in Clerks, NEW load \in [Lines -> Sizes], Receive(c, load)
    PROVE  TransferInv'
  <1>0. /\ TransferTyped /\ RoadInv /\ EndsAlone /\ TypeOK
    BY DEF TransferInv, TransferTyped
  <1>1. /\ UNCHANGED <<state, edition, line, out, in, stops>>
        /\ clerk[c].at = "free" /\ state \in HasLeft
        /\ \A d \in Clerks \ {c} : clerk'[d] = clerk[d]
        /\ clerk' \in [Clerks -> Requests]
        /\ clerk'[c].at = "arrive" /\ clerk'[c].now = NoLine /\ clerk'[c].load = load
        /\ \A l \in Lines : load[l] > 0 => load[l] + line[l].received <= line[l].despatched
    <2> DEFINE q == [Free EXCEPT !.at = "arrive", !.load = load, !.edition = edition]
    <2>1. /\ q \in Requests /\ q.at = "arrive" /\ q.load = load /\ q.now = NoLine
      BY <1>0, FreeTyped DEF TypeOK, Requests, Arriving
    <2>2. clerk' = [clerk EXCEPT ![c] = q]
      BY DEF Receive
    <2> HIDE DEF q
    <2>3. /\ clerk' \in [Clerks -> Requests] /\ clerk'[c] = q
          /\ \A d \in Clerks \ {c} : clerk'[d] = clerk[d]
      BY <1>0, <2>1, <2>2, OneRequest DEF TypeOK
    <2> QED  BY <2>1, <2>3 DEF Receive
  <1>2. /\ slips' \in SUBSET Slips /\ slips \subseteq slips'
        /\ Busy({"arrive", "arrived"}) # {} => "raced" \in slips'
    BY <1>0, SlipNoted DEF Receive, TypeOK, Slips
  <1>3. TransferTyped'
    <2>1. InHandOf(clerk'[c])
      BY <1>1 DEF InHandOf, Carrying
    <2> QED  BY <1>0, <1>1, <1>2, <2>1, OneTyped DEF TypeOK
  <1>4. RoadInv'
    <2>1. UpToDate(c)'
      BY <1>1 DEF UpToDate, Leaving
    <2>2. Intact' => \A d \in Clerks \ {c} : ~Unloads(d)
      BY <1>2 DEF Intact, Busy, Unloads
    <2> QED  BY <1>0, <1>1, <1>2, <2>1, <2>2, OneOnTheRoad DEF Carrying
  <1>5. EndsAlone'
    BY <1>0, <1>1, <1>2, OneEnds DEF HasArrived, Leaving
  <1> QED  BY <1>3, <1>4, <1>5 DEF TransferInv

LEMMA ReadBackKeeps ==
    ASSUME TransferInv, NEW c \in Clerks, ReadBack(c)
    PROVE  TransferInv'
  <1>0. /\ TransferTyped /\ RoadInv /\ EndsAlone /\ TypeOK
    BY DEF TransferInv, TransferTyped
  <1>1. /\ UNCHANGED <<state, edition, line, out, in, stops>>
        /\ clerk[c].at = "arrive"
        /\ \A d \in Clerks \ {c} : clerk'[d] = clerk[d]
        /\ clerk' \in [Clerks -> Requests]
        /\ clerk'[c].at = "close" /\ clerk'[c].complete = Complete
        /\ clerk'[c].now = clerk[c].now
    <2> DEFINE q == [clerk[c] EXCEPT !.at = "close", !.complete = Complete]
    <2>1. clerk[c] \in Requests /\ Complete \in BOOLEAN
      BY <1>0 DEF TypeOK, Complete
    <2>2. /\ q \in Requests /\ q.at = "close" /\ q.complete = Complete /\ q.now = clerk[c].now
      BY <2>1 DEF Requests, Arriving
    <2>3. clerk' = [clerk EXCEPT ![c] = q]
      BY <1>0 DEF ReadBack, TypeOK
    <2>4. /\ clerk' \in [Clerks -> Requests] /\ clerk'[c] = q
          /\ \A d \in Clerks \ {c} : clerk'[d] = clerk[d]
      BY <1>0, <2>2, <2>3, OneRequest DEF TypeOK
    <2> QED  BY <2>2, <2>4 DEF ReadBack
  <1>2. /\ slips' \in SUBSET Slips /\ slips \subseteq slips'
        /\ Busy(Leaving) # {} => "crossed" \in slips'
    BY <1>0, SlipNoted DEF ReadBack, TypeOK, Slips
  <1>3. TransferTyped'
    <2>1. InHandOf(clerk'[c]) /\ state \in HasLeft
      BY <1>0, <1>1 DEF TransferTyped, InHandOf, Carrying, Arriving
    <2> QED  BY <1>0, <1>1, <1>2, <2>1, OneTyped DEF TypeOK
  <1>4. RoadInv'
    <2>1. UpToDate(c)'
      BY <1>1 DEF UpToDate, Leaving
    <2> QED  BY <1>0, <1>1, <1>2, <2>1, OneOnTheRoad DEF Carrying
  <1>5. EndsAlone'
    BY <1>0, <1>1, <1>2, OneEnds DEF HasArrived, Leaving, Complete
  <1> QED  BY <1>3, <1>4, <1>5 DEF TransferInv

LEMMA CloseKeeps ==
    ASSUME TransferInv, NEW c \in Clerks, Close(c)
    PROVE  TransferInv'
  <1>0. /\ TransferTyped /\ RoadInv /\ EndsAlone /\ TypeOK
    BY DEF TransferInv, TransferTyped
  <1>1. /\ UNCHANGED <<edition, line, out, in, slips, stops>>
        /\ clerk[c].at = "close"
        /\ state' = IF clerk[c].complete /\ state = "in_transit" THEN "done" ELSE state
        /\ \A d \in Clerks \ {c} : clerk'[d] = clerk[d]
        /\ clerk' = [clerk EXCEPT ![c] = Free]
    BY <1>0 DEF Close, TypeOK
  <1>2. clerk' \in [Clerks -> Requests] /\ clerk'[c].at = "free" /\ clerk'[c].now = NoLine
    BY <1>0, <1>1, FreeTyped DEF TypeOK
  <1>3. TransferTyped'
    <2>1. InHandOf(clerk'[c]) /\ clerk'[c].at \notin Arriving
      BY <1>2 DEF InHandOf, Carrying, Arriving
    <2> QED  BY <1>0, <1>1, <1>2, <2>1, OneTyped DEF TypeOK, States, HasLeft
  <1>4. RoadInv'
    <2>1. UpToDate(c)'
      BY <1>2 DEF UpToDate, Leaving
    <2> QED  BY <1>0, <1>1, <1>2, <2>1, OneOnTheRoad DEF Carrying, HasLeft
  <1>5. EndsAlone'
    BY <1>0, <1>1, <1>2, OneEnds DEF HasArrived, Leaving
  <1> QED  BY <1>3, <1>4, <1>5 DEF TransferInv

\* A request that ends, of its own or not, has written its movement down, or
\* it is known to be lost; a record is only refused when something else went
\* wrong before.
LEMMA EndKeeps ==
    ASSUME TransferInv, NEW c \in Clerks,
           Despatched(c) \/ Refused(c) \/ RecordRefused(c) \/ Stops(c)
    PROVE  TransferInv'
  <1>0. /\ TransferTyped /\ RoadInv /\ EndsAlone /\ TypeOK
    BY DEF TransferInv, TransferTyped
  <1>1. /\ UNCHANGED <<state, edition, line, out, in>>
        /\ \A d \in Clerks \ {c} : clerk'[d] = clerk[d]
        /\ clerk' = [clerk EXCEPT ![c] = Free]
        /\ stops' \in 0 .. MaxStops
    BY <1>0, TransfersAssumption DEF Despatched, Refused, RecordRefused, Stops, TypeOK
  <1>2. clerk' \in [Clerks -> Requests] /\ clerk'[c].at = "free" /\ clerk'[c].now = NoLine
    BY <1>0, <1>1, FreeTyped DEF TypeOK
  <1>3. slips' \in SUBSET Slips /\ slips \subseteq slips'
    <2>1. CASE Stops(c)
      BY <1>0, <2>1, SlipNoted DEF Stops, TypeOK, Slips
    <2> QED  BY <1>0, <2>1 DEF Despatched, Refused, RecordRefused, TypeOK
  <1>4. Intact' => clerk[c].at \notin Carrying
    <2> SUFFICES ASSUME Intact', clerk[c].at \in Carrying PROVE FALSE
      OBVIOUS
    <2>1. PICK l \in Lines : l = clerk[c].now
      BY <1>0 DEF TransferTyped, InHandOf
    <2>2. LineInv(l) /\ UpToDate(c) /\ clerk[c].load[l] > 0
      BY <1>0, <1>3, <2>1 DEF RoadInv, Intact, TransferTyped, InHandOf
    <2>3. CASE Stops(c)
      <3>1. clerk[c].now # NoLine
        BY <2>1 DEF Lines, NoLine
      <3>2. "lost" \in slips'
        BY <1>0, <2>3, <3>1, SlipNoted DEF Stops, TypeOK, Slips
      <3> QED  BY <3>2 DEF Intact
    <2>4. CASE Despatched(c) \/ Refused(c)
      BY <2>4 DEF Despatched, Refused, Carrying
    <2>5. CASE RecordRefused(c)
      <3>1. /\ clerk[c].load[l] \in Nat /\ line[l].quantity \in Nat
            /\ line[l].despatched \in Nat /\ line[l].received \in Nat
        BY <1>0 DEF TypeOK, Rows, Requests, Sizes
      <3>2. clerk[c].at = "left" =>
              line[l].despatched = 0 /\ clerk[c].load[l] = line[l].quantity
        BY <2>2 DEF LineInv, RequestInv, Loads
      <3>3. clerk[c].at = "arrived" =>
              clerk[c].load[l] + line[l].received <= line[l].despatched
        BY <2>2 DEF LineInv, RequestInv, Unloads
      <3> QED  BY <2>1, <2>5, <3>1, <3>2, <3>3 DEF RecordRefused
    <2> QED  BY <2>3, <2>4, <2>5
  <1>5. TransferTyped'
    <2>1. InHandOf(clerk'[c]) /\ clerk'[c].at \notin Arriving
      BY <1>2 DEF InHandOf, Carrying, Arriving
    <2> QED  BY <1>0, <1>1, <1>2, <1>3, <2>1, OneTyped DEF TypeOK
  <1>6. RoadInv'
    <2>1. UpToDate(c)'
      BY <1>2 DEF UpToDate, Leaving
    <2> QED  BY <1>0, <1>1, <1>2, <1>3, <1>4, <2>1, OneOnTheRoad DEF Carrying
  <1>7. EndsAlone'
    BY <1>0, <1>1, <1>2, <1>3, OneEnds DEF HasArrived, Leaving
  <1> QED  BY <1>5, <1>6, <1>7 DEF TransferInv


\* Saving or withdrawing the document happens to nothing that has left, and
\* behind the back of no despatch that does not note it.
LEMMA DocumentKeeps ==
    ASSUME TransferInv,
           \/ \E quantities \in Plans : Save(quantities)
           \/ Cancel \/ Delete
    PROVE  TransferInv'
  <1>0. /\ TransferTyped /\ RoadInv /\ EndsAlone /\ TypeOK
    BY DEF TransferInv, TransferTyped
  <1>1. /\ UNCHANGED <<out, in, clerk, stops>>
        /\ state \notin HasLeft /\ state' \in {"draft", "cancelled", "gone"}
        /\ Slip("changed", Busy(Leaving) # {})
    BY DEF Save, Cancel, Delete, Withdraw, HasLeft
  <1>2. /\ edition' \in 0 .. MaxEdits /\ line' \in [Lines -> Rows] /\ RowsHold'
        /\ \A l \in Lines : \/ line'[l] = line[l]
                            \/ /\ line'[l].despatched = 0 /\ line'[l].received = 0
                               /\ ~line'[l].moved
    <2>1. ASSUME NEW quantities \in Plans, Save(quantities)
          PROVE  /\ edition' \in 0 .. MaxEdits
                 /\ \A l \in Lines : quantities[l] \in Sizes
                 /\ line' = [l \in Lines |-> [quantity |-> quantities[l], despatched |-> 0,
                                              received |-> 0, moved |-> FALSE]]
      <3>1. quantities \in [Lines -> Sizes]
        BY TransfersAssumption DEF Lines, Sizes
      <3>2. edition' \in 0 .. MaxEdits
        BY <1>0, <2>1, TransfersAssumption DEF Save, TypeOK
      <3> QED  BY <2>1, <3>1, <3>2 DEF Save, Fresh
    <2>2. CASE \E quantities \in Plans : Save(quantities)
      <3>1. PICK quantities \in Plans : Save(quantities)
        BY <2>2
      <3>2. \A l \in Lines : quantities[l] \in Sizes
        BY <2>1, <3>1
      <3>3. ASSUME NEW l \in Lines
            PROVE  /\ line'[l] \in Rows
                   /\ line'[l].despatched = 0 /\ line'[l].received = 0 /\ ~line'[l].moved
                   /\ line'[l].quantity = quantities[l]
        <4>1. line'[l] = [quantity |-> quantities[l], despatched |-> 0,
                          received |-> 0, moved |-> FALSE]
          BY <2>1, <3>1
        <4>2. 0 \in Sizes /\ quantities[l] \in Sizes
          BY <3>2, TransfersAssumption DEF Sizes
        <4> QED  BY <4>1, <4>2 DEF Rows
      <3>4. RowsHold'
        BY <3>2, <3>3, TransfersAssumption DEF RowsHold, Sizes
      <3> QED  BY <2>1, <3>1, <3>3, <3>4
    <2>3. CASE Cancel \/ Delete
      BY <1>0, <2>3 DEF Cancel, Delete, Withdraw, TypeOK, TransferTyped, RowsHold
    <2> QED  BY <2>2, <2>3
  <1>3. /\ slips' \in SUBSET Slips /\ slips \subseteq slips'
        /\ Busy(Leaving) # {} => "changed" \in slips'
    BY <1>0, <1>1, SlipNoted DEF TypeOK, Slips
  <1>4. \A c \in Clerks : clerk[c].at \notin Arriving
    BY <1>0, <1>1 DEF TransferTyped
  <1>5. TransferTyped'
    <2>1. TypeOK'
      BY <1>0, <1>1, <1>2, <1>3 DEF TypeOK, States
    <2>2. \A c \in Clerks : InHandOf(clerk'[c]) /\ clerk'[c].at \notin Arriving
      BY <1>0, <1>1, <1>4 DEF TransferTyped
    <2> QED  BY <1>2, <2>1, <2>2 DEF TransferTyped, InHandOf
  <1>6. RoadInv'
    <2> SUFFICES ASSUME Intact' PROVE RoadInv'
      BY DEF RoadInv
    <2>1. \A l \in Lines : LineInv(l)
      BY <1>0, <1>3 DEF RoadInv, Intact
    <2>2. \A c \in Clerks : clerk'[c].at \notin Leaving \cup Arriving
      BY <1>1, <1>3, <1>4 DEF Intact, Busy
    <2>3. OneEach' /\ \A c \in Clerks : UpToDate(c)'
      BY <2>2 DEF OneEach, UpToDate, Loads, Unloads, Leaving, Arriving
    <2>4. ASSUME NEW l \in Lines PROVE LineInv(l)'
      <3>1. /\ Unwritten(l, "left")' = {} /\ Unwritten(l, "arrived")' = {}
            /\ Unwritten(l, "left") = {} /\ Unwritten(l, "arrived") = {}
        BY <1>1, <2>2 DEF Unwritten, Leaving, Arriving
      <3>2. out[l] = 0 /\ in[l] = 0 /\ line[l].despatched = 0 /\ line[l].received = 0
        BY <1>1, <2>1, <3>1 DEF LineInv, RequestInv
      <3>3. line'[l].despatched = 0 /\ line'[l].received = 0
        BY <1>2, <3>2
      <3>4. line'[l].despatched = IF line'[l].moved THEN line'[l].quantity ELSE 0
        BY <1>2, <2>1, <3>2 DEF LineInv, RequestInv
      <3> QED  BY <1>1, <2>2, <3>1, <3>2, <3>3, <3>4
               DEF LineInv, RequestInv, Loads, Unloads, Leaving, Arriving
    <2> QED  BY <2>3, <2>4 DEF RoadInv
  <1>7. EndsAlone'
    BY <1>1, <1>4 DEF EndsAlone, Arriving
  <1> QED  BY <1>5, <1>6, <1>7 DEF TransferInv

\* A movement made for a line: what changes about the request.
LEMMA MoveTakes ==
    ASSUME TransferTyped, NEW c \in Clerks, clerk[c].load # Nothing,
           NEW to \in Carrying, NEW l, l = First(clerk[c].load),
           clerk' = [clerk EXCEPT ![c].at = to, ![c].now = l]
    PROVE  /\ l \in Lines /\ clerk[c].load[l] > 0
           /\ clerk' \in [Clerks -> Requests]
           /\ clerk'[c].at = to /\ clerk'[c].now = l /\ clerk'[c].load = clerk[c].load
           /\ clerk'[c].edition = clerk[c].edition
           /\ \A d \in Clerks \ {c} : clerk'[d] = clerk[d]
  <1>1. clerk[c] \in Requests /\ clerk \in [Clerks -> Requests]
    BY DEF TransferTyped, TypeOK
  <1>2. l \in Lines /\ clerk[c].load[l] > 0
    BY <1>1, FirstLoads DEF Requests
  <1> DEFINE q == [clerk[c] EXCEPT !.at = to, !.now = l]
  <1>3. /\ q \in Requests /\ q.at = to /\ q.now = l /\ q.load = clerk[c].load
        /\ q.edition = clerk[c].edition
    BY <1>1, <1>2 DEF Requests, Carrying, Leaving, Arriving
  <1>4. clerk' = [clerk EXCEPT ![c] = q]
    BY <1>1
  <1> HIDE DEF q
  <1> QED  BY <1>1, <1>2, <1>3, <1>4, OneRequest

\* A movement written down: what changes about the request.
LEMMA RecordGives ==
    ASSUME TransferTyped, NEW c \in Clerks, clerk[c].at \in Carrying,
           NEW to \in {"leave", "arrive"},
           clerk' = [clerk EXCEPT ![c] = [Recorded(c) EXCEPT !.at = to]]
    PROVE  /\ clerk[c].now \in Lines /\ clerk[c].load[clerk[c].now] \in Nat
           /\ clerk' \in [Clerks -> Requests]
           /\ clerk'[c].at = to /\ clerk'[c].now = NoLine
           /\ clerk'[c].edition = clerk[c].edition
           /\ clerk'[c].load[clerk[c].now] = 0
           /\ \A k \in Lines \ {clerk[c].now} : clerk'[c].load[k] = clerk[c].load[k]
           /\ \A d \in Clerks \ {c} : clerk'[d] = clerk[d]
  <1>1. clerk[c] \in Requests /\ clerk \in [Clerks -> Requests] /\ clerk[c].now \in Lines
    BY DEF TransferTyped, TypeOK, InHandOf
  <1> DEFINE l == clerk[c].now
             load == [clerk[c].load EXCEPT ![l] = 0]
             q == [[clerk[c] EXCEPT !.load = load, !.now = NoLine] EXCEPT !.at = to]
  <1>2. /\ load \in [Lines -> Sizes] /\ load[l] = 0
        /\ \A k \in Lines \ {l} : load[k] = clerk[c].load[k]
    BY <1>1, TransfersAssumption DEF Requests, Sizes
  <1>3. clerk[c].load[l] \in Nat
    BY <1>1 DEF Requests, Sizes
  <1>4. clerk' = [clerk EXCEPT ![c] = q]
    BY <1>1 DEF Recorded, Requests
  <1> HIDE DEF load
  <1>5. /\ q \in Requests /\ q.at = to /\ q.now = NoLine /\ q.load = load
        /\ q.edition = clerk[c].edition
    BY <1>1, <1>2 DEF Requests, Leaving, Arriving
  <1> HIDE DEF q
  <1> QED  BY <1>1, <1>2, <1>3, <1>4, <1>5, OneRequest


\* A line that is not the one a request works on stays as it is.
LEMMA OtherLine ==
    ASSUME NEW l \in Lines, LineInv(l), state \in HasLeft, state' \in HasLeft,
           line'[l] = line[l], out'[l] = out[l], in'[l] = in[l],
           Unwritten(l, "left")' = Unwritten(l, "left"),
           Unwritten(l, "arrived")' = Unwritten(l, "arrived"),
           \A d \in Clerks : /\ clerk'[d].load[l] = clerk[d].load[l]
                             /\ clerk'[d].at \in {"claim", "look"} =>
                                    clerk[d].at \in {"claim", "look"}
                             /\ (Loads(d)' => Loads(d)) /\ (Unloads(d)' => Unloads(d))
    PROVE  LineInv(l)'
  <1>1. ASSUME NEW d \in Clerks PROVE RequestInv(d, l)'
    <2>1. RequestInv(d, l)
      BY DEF LineInv
    <2> QED  BY <2>1 DEF RequestInv
  <1> QED  BY <1>1 DEF LineInv

\* A movement out takes the whole line from the shelf, which it had not left.
LEMMA LeaveKeeps ==
    ASSUME TransferInv, NEW c \in Clerks, Leave(c)
    PROVE  TransferInv'
  <1>0. /\ TransferTyped /\ RoadInv /\ EndsAlone /\ TypeOK
    BY DEF TransferInv, TransferTyped
  <1> DEFINE l == First(clerk[c].load)
  <1>1. /\ UNCHANGED <<state, edition, line, slips, stops, in>>
        /\ clerk[c].at = "leave" /\ clerk[c].load # Nothing
        /\ out' = [out EXCEPT ![l] = @ + clerk[c].load[l]]
        /\ clerk' = [clerk EXCEPT ![c].at = "left", ![c].now = l]
    BY DEF Leave, Move
  <1>2. l = First(clerk[c].load)
    OBVIOUS
  <1> HIDE DEF l
  <1>3. /\ l \in Lines /\ clerk[c].load[l] > 0
        /\ clerk' \in [Clerks -> Requests]
        /\ clerk'[c].at = "left" /\ clerk'[c].now = l /\ clerk'[c].load = clerk[c].load
        /\ clerk'[c].edition = clerk[c].edition
        /\ \A d \in Clerks \ {c} : clerk'[d] = clerk[d]
    BY <1>0, <1>1, <1>2, MoveTakes DEF Carrying
  <1>4. /\ clerk[c].load[l] \in Nat /\ out' \in [Lines -> Nat]
        /\ out'[l] = out[l] + clerk[c].load[l]
        /\ \A k \in Lines \ {l} : out'[k] = out[k]
    <2>1. clerk[c].load[l] \in Nat
      BY <1>0, <1>3 DEF TypeOK, Requests, Sizes
    <2> QED  BY <1>0, <1>1, <1>3, <2>1 DEF TypeOK
  <1>5. TransferTyped'
    <2>1. InHandOf(clerk'[c]) /\ clerk'[c].at \notin Arriving
      BY <1>3 DEF InHandOf, Carrying, Arriving
    <2> QED  BY <1>0, <1>1, <1>3, <1>4, <2>1, OneTyped DEF TypeOK
  <1>6. RoadInv'
    <2> SUFFICES ASSUME Intact' PROVE RoadInv'
      BY DEF RoadInv
    <2>1. OneEach /\ (\A d \in Clerks : UpToDate(d)) /\ \A k \in Lines : LineInv(k)
      BY <1>0, <1>1 DEF RoadInv, Intact
    <2>2. \A d \in Clerks : clerk'[d].at = IF d = c THEN "left" ELSE clerk[d].at
      BY <1>3
    <2>3. \A d \in Clerks : /\ Loads(d)' <=> Loads(d)
                            /\ Unloads(d)' <=> Unloads(d)
                            /\ Loads(d) => d = c
      <3>1. Loads(c) /\ \A d \in Clerks : Loads(d) => d = c
        BY <1>1, <2>1 DEF OneEach, Loads
      <3>2. clerk[c].at = "leave"
        BY <1>1
      <3>3. ASSUME NEW d \in Clerks
            PROVE  (Loads(d)' <=> Loads(d)) /\ (Unloads(d)' <=> Unloads(d))
        BY <2>2, <3>2 DEF Loads, Unloads
      <3> QED  BY <3>1, <3>3
    <2>4. OneEach'
      BY <2>1, <2>3 DEF OneEach
    <2>5. ASSUME NEW d \in Clerks PROVE UpToDate(d)'
      BY <1>1, <1>3, <2>1 DEF UpToDate, Leaving
    <2>6. state \in HasLeft
      BY <1>1, <2>1 DEF UpToDate, Leaving
    <2>7. ASSUME NEW k \in Lines PROVE LineInv(k)'
      <3>1. /\ Unwritten(k, "left") = {}
            /\ Unwritten(k, "left")' = IF k = l THEN {c} ELSE {}
            /\ Unwritten(k, "arrived")' = Unwritten(k, "arrived")
        <4>1. \A d \in Clerks : clerk[d].at # "left" /\ (clerk'[d].at = "left" <=> d = c)
          BY <1>1, <2>2, <2>3 DEF Loads
        <4>2. Unwritten(k, "left") = {} /\ Unwritten(k, "left")' = IF k = l THEN {c} ELSE {}
          BY <1>3, <4>1 DEF Unwritten
        <4>3. \A d \in Clerks : clerk'[d].at = "arrived" => clerk'[d] = clerk[d]
          BY <1>3
        <4>4. \A d \in Clerks : clerk[d].at = "arrived" => clerk'[d] = clerk[d]
          BY <1>1, <1>3
        <4> QED  BY <4>2, <4>3, <4>4 DEF Unwritten
      <3>2. out[k] = line[k].despatched
        BY <2>1, <3>1 DEF LineInv, RequestInv
      <3>3. k = l => out'[k] = line[k].quantity
        <4>1. clerk[c].load[l] = line[l].quantity /\ line[l].despatched = 0
          BY <1>1, <1>3, <2>1 DEF LineInv, RequestInv, Loads
        <4> QED  BY <1>3, <1>4, <3>2, <4>1
      <3>4. \A d \in Clerks : clerk'[d].load = clerk[d].load
        BY <1>3
      <3>5. \A d \in Clerks :
              clerk'[d].at \in {"claim", "look"} => clerk[d].at \in {"claim", "look"}
        BY <2>2
      <3>6. CASE k # l
        BY <1>1, <1>4, <2>1, <2>3, <2>6, <3>1, <3>4, <3>5, <3>6, OtherLine
      <3>7. CASE k = l
        <4>1. ASSUME NEW d \in Clerks PROVE RequestInv(d, k)'
          <5>1. RequestInv(d, k)
            BY <2>1 DEF LineInv
          <5> QED  BY <1>1, <2>3, <3>1, <3>3, <3>4, <3>5, <3>7, <5>1 DEF RequestInv
        <4> QED  BY <1>1, <2>1, <2>6, <3>1, <3>7, <4>1 DEF LineInv
      <3> QED  BY <3>6, <3>7
    <2> QED  BY <2>4, <2>5, <2>7 DEF RoadInv
  <1>7. EndsAlone'
    BY <1>0, <1>1, <1>3, OneEnds DEF HasArrived, Leaving
  <1> QED  BY <1>5, <1>6, <1>7 DEF TransferInv

\* The record of a despatch makes the line say what the shelf does.
LEMMA RecordDespatchKeeps ==
    ASSUME TransferInv, NEW c \in Clerks, RecordDespatch(c)
    PROVE  TransferInv'
  <1>0. /\ TransferTyped /\ RoadInv /\ EndsAlone /\ TypeOK
    BY DEF TransferInv, TransferTyped
  <1>a. clerk[c].at = "left" /\ clerk[c].now \in Lines
    BY <1>0 DEF RecordDespatch, TransferTyped, InHandOf, Carrying
  <1>b. PICK l \in Lines : l = clerk[c].now
    BY <1>a
  <1> DEFINE total == line[l].despatched + clerk[c].load[l]
             there == clerk[c].edition = edition /\ state # "gone"
  <1>1. /\ UNCHANGED <<state, edition, out, in, slips, stops>>
        /\ clerk[c].at = "left" /\ (there => total <= line[l].quantity)
        /\ line' = IF there THEN [line EXCEPT ![l].despatched = total, ![l].moved = TRUE]
                   ELSE line
        /\ clerk' = [clerk EXCEPT ![c] = [Recorded(c) EXCEPT !.at = "leave"]]
    BY <1>b DEF RecordDespatch
  <1>2. /\ l \in Lines /\ clerk[c].load[l] \in Nat
        /\ clerk' \in [Clerks -> Requests]
        /\ clerk'[c].at = "leave" /\ clerk'[c].now = NoLine
        /\ clerk'[c].edition = clerk[c].edition
        /\ clerk'[c].load[l] = 0
        /\ \A k \in Lines \ {l} : clerk'[c].load[k] = clerk[c].load[k]
        /\ \A d \in Clerks \ {c} : clerk'[d] = clerk[d]
    BY <1>0, <1>1, <1>b, RecordGives DEF Carrying
  <1>3. /\ \A k \in Lines \ {l} : line'[k] = line[k]
        /\ ~there => line' = line
        /\ there => /\ line'[l].despatched = total /\ line'[l].moved
        /\ line'[l].quantity = line[l].quantity /\ line'[l].received = line[l].received
    BY <1>0, <1>1, <1>2 DEF TypeOK, Rows
  <1>4. line' \in [Lines -> Rows] /\ RowsHold'
    <2>1. /\ line[l].despatched \in Nat /\ line[l].quantity \in Nat /\ line[l].received \in Nat
          /\ line[l].quantity <= MaxQty /\ MaxQty \in Nat
          /\ line[l].received <= line[l].despatched /\ line[l].despatched <= line[l].quantity
      BY <1>0, <1>2, TransfersAssumption DEF TypeOK, Rows, Sizes, TransferTyped, RowsHold
    <2>2. CASE there
      <3>1. total \in Sizes /\ line[l].received <= total /\ total <= line[l].quantity
        BY <1>1, <1>2, <2>1, <2>2 DEF Sizes
      <3> HIDE DEF total
      <3>2. line' \in [Lines -> Rows]
        <4> DEFINE row == [line[l] EXCEPT !.despatched = total, !.moved = TRUE]
        <4>1. line[l] \in Rows /\ line \in [Lines -> Rows]
          BY <1>0 DEF TypeOK
        <4>2. row \in Rows
          BY <3>1, <4>1 DEF Rows
        <4>3. line' = [line EXCEPT ![l] = row]
          BY <1>1, <2>2, <4>1
        <4> HIDE DEF row
        <4> QED  BY <4>1, <4>2, <4>3
      <3>3. RowsHold'
        BY <1>0, <1>3, <2>2, <3>1 DEF TransferTyped, RowsHold
      <3> QED  BY <3>2, <3>3
    <2>3. CASE ~there
      BY <1>0, <1>3, <2>3 DEF TypeOK, TransferTyped, RowsHold
    <2> QED  BY <2>2, <2>3
  <1>5. TransferTyped'
    <2>1. TypeOK'
      BY <1>0, <1>1, <1>2, <1>4 DEF TypeOK
    <2>2. InHandOf(clerk'[c]) /\ clerk'[c].at \notin Arriving
      BY <1>2 DEF InHandOf, Carrying, Arriving
    <2>3. \A d \in Clerks : InHandOf(clerk'[d]) /\ (clerk'[d].at \in Arriving => state' \in HasLeft)
      BY <1>0, <1>1, <1>2, <2>2 DEF TransferTyped
    <2> QED  BY <1>4, <2>1, <2>3 DEF TransferTyped, InHandOf
  <1>6. RoadInv'
    <2> SUFFICES ASSUME Intact' PROVE RoadInv'
      BY DEF RoadInv
    <2>1. OneEach /\ (\A d \in Clerks : UpToDate(d)) /\ \A k \in Lines : LineInv(k)
      BY <1>0, <1>1 DEF RoadInv, Intact
    <2>2. \A d \in Clerks : clerk'[d].at = IF d = c THEN "leave" ELSE clerk[d].at
      BY <1>2
    <2>3. \A d \in Clerks : /\ Loads(d)' <=> Loads(d)
                            /\ Unloads(d)' <=> Unloads(d)
                            /\ Loads(d) => d = c
      <3>1. Loads(c) /\ \A d \in Clerks : Loads(d) => d = c
        BY <1>1, <2>1 DEF OneEach, Loads
      <3>2. clerk[c].at = "left"
        BY <1>1
      <3>3. ASSUME NEW d \in Clerks
            PROVE  (Loads(d)' <=> Loads(d)) /\ (Unloads(d)' <=> Unloads(d))
        BY <2>2, <3>2 DEF Loads, Unloads
      <3> QED  BY <3>1, <3>3
    <2>4. OneEach'
      BY <2>1, <2>3 DEF OneEach
    <2>5. ASSUME NEW d \in Clerks PROVE UpToDate(d)'
      BY <1>1, <1>2, <2>1 DEF UpToDate, Leaving
    <2>6. state \in HasLeft /\ there
      BY <1>1, <2>1 DEF UpToDate, Leaving, HasLeft
    <2>7. /\ out[l] = line[l].quantity /\ clerk[c].load[l] = line[l].quantity
          /\ line[l].despatched = 0 /\ line'[l].despatched = line[l].quantity
          /\ line[l].quantity \in Nat
      <3>1. clerk[c].load[l] > 0 /\ c \in Unwritten(l, "left") /\ Loads(c)
        BY <1>0, <1>1, <1>b DEF TransferTyped, InHandOf, Carrying, Unwritten, Loads
      <3>2. /\ out[l] = line[l].quantity /\ clerk[c].load[l] = line[l].quantity
            /\ line[l].despatched = 0
        BY <1>2, <2>1, <3>1 DEF LineInv, RequestInv
      <3>3. line[l].quantity \in Nat
        BY <1>0, <1>2 DEF TypeOK, Rows, Sizes
      <3> QED  BY <1>3, <2>6, <3>2, <3>3
    <2>8. ASSUME NEW k \in Lines PROVE LineInv(k)'
      <3>1. /\ Unwritten(k, "left")' = {}
            /\ Unwritten(k, "arrived")' = Unwritten(k, "arrived")
            /\ k # l => Unwritten(k, "left") = {}
        <4>1. \A d \in Clerks : (clerk[d].at = "left" <=> d = c) /\ clerk'[d].at # "left"
          BY <1>1, <2>2, <2>3 DEF Loads
        <4>2. Unwritten(k, "left")' = {} /\ (k # l => Unwritten(k, "left") = {})
          BY <1>b, <4>1 DEF Unwritten
        <4>3. \A d \in Clerks : clerk'[d].at = "arrived" => clerk'[d] = clerk[d]
          BY <1>2
        <4>4. \A d \in Clerks : clerk[d].at = "arrived" => clerk'[d] = clerk[d]
          BY <1>1, <1>2
        <4> QED  BY <4>2, <4>3, <4>4 DEF Unwritten
      <3>2. \A d \in Clerks \ {c} : clerk'[d].load = clerk[d].load /\ clerk'[d].at = clerk[d].at
        BY <1>2
      <3>3. \A d \in Clerks \ {c} : ~Loads(d)'
        BY <2>3
      <3>4. CASE k = l
        <4>1. line'[l].despatched = IF line'[l].moved THEN line'[l].quantity ELSE 0
          BY <1>3, <2>6, <2>7
        <4>2. ASSUME NEW d \in Clerks, Unloads(d)', clerk'[d].load[l] > 0
              PROVE  clerk'[d].load[l] + line'[l].received <= line'[l].despatched
          <5>1. d # c /\ Unloads(d)
            BY <2>2, <2>3, <4>2 DEF Unloads
          <5>2. clerk[d].load[l] + line[l].received <= line[l].despatched
            BY <1>2, <2>1, <3>2, <4>2, <5>1 DEF LineInv, RequestInv
          <5>3. clerk[d].load[l] \in Nat /\ line[l].received \in Nat
            BY <1>0, <1>2 DEF TypeOK, Rows, Requests, Sizes
          <5> QED  BY <1>3, <2>7, <3>2, <5>1, <5>2, <5>3
        <4>3. ASSUME NEW d \in Clerks, d \in Unwritten(l, "arrived")'
              PROVE  in'[l] = line'[l].received + clerk'[d].load[l]
          <5>1. d \in Unwritten(l, "arrived") /\ d # c /\ RequestInv(d, l)
            BY <1>1, <1>2, <2>1, <3>1, <3>4, <4>3 DEF Unwritten, LineInv
          <5> QED  BY <1>1, <1>3, <3>2, <5>1 DEF RequestInv
        <4>4. \A d \in Clerks : clerk'[d].at \in {"claim", "look"} =>
                 clerk'[d].load[l] = line'[l].quantity
          BY <1>2, <1>3, <2>1, <2>2, <3>2 DEF LineInv, RequestInv
        <4>5. \A d \in Clerks : Loads(d)' => clerk'[d].load[l] = 0
          BY <1>2, <3>3
        <4>6. Unwritten(l, "arrived")' = {} => in'[l] = line'[l].received
          <5>1. LineInv(l)
            BY <1>2, <2>1
          <5> QED  BY <1>1, <1>3, <3>1, <3>4, <5>1 DEF LineInv
        <4>7. \A d \in Clerks : RequestInv(d, l)'
          BY <3>1, <3>4, <4>2, <4>3, <4>4, <4>5 DEF RequestInv
        <4> QED  BY <1>1, <2>6, <2>7, <3>1, <3>4, <4>1, <4>6, <4>7 DEF LineInv
      <3>5. CASE k # l
        <4>1. line'[k] = line[k] /\ \A d \in Clerks : clerk'[d].load[k] = clerk[d].load[k]
          BY <1>2, <1>3, <3>2, <3>5
        <4>2. \A d \in Clerks :
                clerk'[d].at \in {"claim", "look"} => clerk[d].at \in {"claim", "look"}
          BY <2>2
        <4> QED  BY <1>1, <2>1, <2>3, <2>6, <3>1, <3>5, <4>1, <4>2, OtherLine
      <3> QED  BY <3>4, <3>5
    <2> QED  BY <2>4, <2>5, <2>8 DEF RoadInv
  <1>7. EndsAlone'
    BY <1>0, <1>1, <1>2, OneEnds DEF Leaving
  <1> QED  BY <1>5, <1>6, <1>7 DEF TransferInv


\* A movement in brings what is on the road.
LEMMA ArriveKeeps ==
    ASSUME TransferInv, NEW c \in Clerks, Arrive(c)
    PROVE  TransferInv'
  <1>0. /\ TransferTyped /\ RoadInv /\ EndsAlone /\ TypeOK
    BY DEF TransferInv, TransferTyped
  <1> DEFINE l == First(clerk[c].load)
  <1>1. /\ UNCHANGED <<state, edition, line, slips, stops, out>>
        /\ clerk[c].at = "arrive" /\ clerk[c].load # Nothing
        /\ in' = [in EXCEPT ![l] = @ + clerk[c].load[l]]
        /\ clerk' = [clerk EXCEPT ![c].at = "arrived", ![c].now = l]
    BY DEF Arrive, Move
  <1>2. l = First(clerk[c].load)
    OBVIOUS
  <1> HIDE DEF l
  <1>3. /\ l \in Lines /\ clerk[c].load[l] > 0
        /\ clerk' \in [Clerks -> Requests]
        /\ clerk'[c].at = "arrived" /\ clerk'[c].now = l /\ clerk'[c].load = clerk[c].load
        /\ clerk'[c].edition = clerk[c].edition
        /\ \A d \in Clerks \ {c} : clerk'[d] = clerk[d]
    BY <1>0, <1>1, <1>2, MoveTakes DEF Carrying
  <1>4. /\ clerk[c].load[l] \in Nat /\ in' \in [Lines -> Nat]
        /\ in'[l] = in[l] + clerk[c].load[l]
        /\ \A k \in Lines \ {l} : in'[k] = in[k]
    <2>1. clerk[c].load[l] \in Nat
      BY <1>0, <1>3 DEF TypeOK, Requests, Sizes
    <2> QED  BY <1>0, <1>1, <1>3, <2>1 DEF TypeOK
  <1>5. TransferTyped' /\ state \in HasLeft
    <2>1. InHandOf(clerk'[c]) /\ state \in HasLeft
      BY <1>0, <1>1, <1>3 DEF InHandOf, Carrying, Arriving, TransferTyped
    <2> QED  BY <1>0, <1>1, <1>3, <1>4, <2>1, OneTyped DEF TypeOK
  <1>6. RoadInv'
    <2> SUFFICES ASSUME Intact' PROVE RoadInv'
      BY DEF RoadInv
    <2>1. OneEach /\ (\A d \in Clerks : UpToDate(d)) /\ \A k \in Lines : LineInv(k)
      BY <1>0, <1>1 DEF RoadInv, Intact
    <2>2. \A d \in Clerks : clerk'[d].at = IF d = c THEN "arrived" ELSE clerk[d].at
      BY <1>3
    <2>3. \A d \in Clerks : /\ Loads(d)' <=> Loads(d)
                            /\ Unloads(d)' <=> Unloads(d)
                            /\ Unloads(d) => d = c
      <3>1. Unloads(c) /\ \A d \in Clerks : Unloads(d) => d = c
        BY <1>1, <2>1 DEF OneEach, Unloads
      <3>2. clerk[c].at = "arrive"
        BY <1>1
      <3>3. ASSUME NEW d \in Clerks
            PROVE  (Loads(d)' <=> Loads(d)) /\ (Unloads(d)' <=> Unloads(d))
        BY <2>2, <3>2 DEF Loads, Unloads
      <3> QED  BY <3>1, <3>3
    <2>4. OneEach'
      BY <2>1, <2>3 DEF OneEach
    <2>5. ASSUME NEW d \in Clerks PROVE UpToDate(d)'
      BY <1>1, <1>3, <2>1 DEF UpToDate, Leaving
    <2>6. ASSUME NEW k \in Lines PROVE LineInv(k)'
      <3>1. /\ Unwritten(k, "arrived") = {}
            /\ Unwritten(k, "arrived")' = IF k = l THEN {c} ELSE {}
            /\ Unwritten(k, "left")' = Unwritten(k, "left")
        <4>1. \A d \in Clerks : clerk[d].at # "arrived" /\ (clerk'[d].at = "arrived" <=> d = c)
          BY <1>1, <2>2, <2>3 DEF Unloads
        <4>2. /\ Unwritten(k, "arrived") = {}
              /\ Unwritten(k, "arrived")' = IF k = l THEN {c} ELSE {}
          BY <1>3, <4>1 DEF Unwritten
        <4>3. \A d \in Clerks : clerk'[d].at = "left" => clerk'[d] = clerk[d]
          BY <1>3
        <4>4. \A d \in Clerks : clerk[d].at = "left" => clerk'[d] = clerk[d]
          BY <1>1, <1>3
        <4> QED  BY <4>2, <4>3, <4>4 DEF Unwritten
      <3>2. in[k] = line[k].received
        BY <2>1, <3>1 DEF LineInv
      <3>3. \A d \in Clerks : clerk'[d].load = clerk[d].load
        BY <1>3
      <3>4. \A d \in Clerks :
              clerk'[d].at \in {"claim", "look"} => clerk[d].at \in {"claim", "look"}
        BY <2>2
      <3>5. CASE k # l
        BY <1>1, <1>4, <1>5, <2>1, <2>3, <3>1, <3>3, <3>4, <3>5, OtherLine
      <3>6. CASE k = l
        <4>1. in'[k] = line[k].received + clerk[c].load[k]
          BY <1>4, <3>2, <3>6
        <4>2. ASSUME NEW d \in Clerks PROVE RequestInv(d, k)'
          <5>1. RequestInv(d, k)
            BY <2>1 DEF LineInv
          <5> QED  BY <1>1, <2>3, <3>1, <3>3, <3>4, <3>6, <4>1, <5>1 DEF RequestInv
        <4> QED  BY <1>1, <1>5, <2>1, <3>1, <3>6, <4>2 DEF LineInv
      <3> QED  BY <3>5, <3>6
    <2> QED  BY <2>4, <2>5, <2>6 DEF RoadInv
  <1>7. EndsAlone'
    BY <1>0, <1>1, <1>3, OneEnds DEF HasArrived, Leaving
  <1> QED  BY <1>5, <1>6, <1>7 DEF TransferInv

\* The record of a part-load adds to what arrived, and takes back nothing.
LEMMA RecordArrivalKeeps ==
    ASSUME TransferInv, NEW c \in Clerks, RecordArrival(c)
    PROVE  TransferInv'
  <1>0. /\ TransferTyped /\ RoadInv /\ EndsAlone /\ TypeOK
    BY DEF TransferInv, TransferTyped
  <1>a. clerk[c].at = "arrived" /\ clerk[c].now \in Lines
    BY <1>0 DEF RecordArrival, TransferTyped, InHandOf, Carrying
  <1>b. PICK l \in Lines : l = clerk[c].now
    BY <1>a
  <1> DEFINE total == line[l].received + clerk[c].load[l]
  <1>1. /\ UNCHANGED <<state, edition, out, in, slips, stops>>
        /\ clerk[c].at = "arrived" /\ total <= line[l].despatched
        /\ line' = [line EXCEPT ![l].received = total]
        /\ clerk' = [clerk EXCEPT ![c] = [Recorded(c) EXCEPT !.at = "arrive"]]
    BY <1>b DEF RecordArrival
  <1>2. /\ clerk[c].load[l] \in Nat
        /\ clerk' \in [Clerks -> Requests]
        /\ clerk'[c].at = "arrive" /\ clerk'[c].now = NoLine
        /\ clerk'[c].edition = clerk[c].edition
        /\ clerk'[c].load[l] = 0
        /\ \A k \in Lines \ {l} : clerk'[c].load[k] = clerk[c].load[k]
        /\ \A d \in Clerks \ {c} : clerk'[d] = clerk[d]
    BY <1>0, <1>1, <1>b, RecordGives DEF Carrying
  <1>3. /\ \A k \in Lines \ {l} : line'[k] = line[k]
        /\ line'[l].quantity = line[l].quantity /\ line'[l].despatched = line[l].despatched
        /\ line'[l].moved = line[l].moved /\ line'[l].received = total
    BY <1>0, <1>1 DEF TypeOK, Rows
  <1>4. /\ line[l].received \in Nat /\ line[l].despatched \in Nat /\ line[l].quantity \in Nat
        /\ line[l].despatched <= MaxQty /\ MaxQty \in Nat
        /\ line[l].received <= total
    BY <1>0, <1>2, TransfersAssumption DEF TypeOK, Rows, Sizes
  <1>5. line' \in [Lines -> Rows] /\ RowsHold'
    <2>1. total \in Sizes
      BY <1>1, <1>2, <1>4 DEF Sizes
    <2> HIDE DEF total
    <2> DEFINE row == [line[l] EXCEPT !.received = total]
    <2>2. line[l] \in Rows /\ line \in [Lines -> Rows]
      BY <1>0 DEF TypeOK
    <2>3. row \in Rows
      BY <2>1, <2>2 DEF Rows
    <2>4. line' = [line EXCEPT ![l] = row]
      BY <1>1, <2>2
    <2> HIDE DEF row
    <2>5. line' \in [Lines -> Rows]
      BY <2>2, <2>3, <2>4
    <2> QED  BY <1>0, <1>1, <1>3, <2>5 DEF TransferTyped, RowsHold
  <1>6. TransferTyped' /\ state \in HasLeft
    <2>1. TypeOK'
      BY <1>0, <1>1, <1>2, <1>5 DEF TypeOK
    <2>2. InHandOf(clerk'[c]) /\ state \in HasLeft
      BY <1>0, <1>a, <1>2 DEF InHandOf, Carrying, Arriving, TransferTyped
    <2>3. \A d \in Clerks : InHandOf(clerk'[d]) /\ (clerk'[d].at \in Arriving => state' \in HasLeft)
      BY <1>0, <1>1, <1>2, <2>2 DEF TransferTyped
    <2> QED  BY <1>5, <2>1, <2>2, <2>3 DEF TransferTyped, InHandOf
  <1>7. RoadInv'
    <2> SUFFICES ASSUME Intact' PROVE RoadInv'
      BY DEF RoadInv
    <2>1. OneEach /\ (\A d \in Clerks : UpToDate(d)) /\ \A k \in Lines : LineInv(k)
      BY <1>0, <1>1 DEF RoadInv, Intact
    <2>2. \A d \in Clerks : clerk'[d].at = IF d = c THEN "arrive" ELSE clerk[d].at
      BY <1>2
    <2>3. \A d \in Clerks : /\ Loads(d)' <=> Loads(d)
                            /\ Unloads(d)' <=> Unloads(d)
                            /\ Unloads(d) => d = c
      <3>1. Unloads(c) /\ \A d \in Clerks : Unloads(d) => d = c
        BY <1>a, <2>1 DEF OneEach, Unloads
      <3>2. ASSUME NEW d \in Clerks
            PROVE  (Loads(d)' <=> Loads(d)) /\ (Unloads(d)' <=> Unloads(d))
        BY <2>2, <1>a DEF Loads, Unloads
      <3> QED  BY <3>1, <3>2
    <2>4. OneEach'
      BY <2>1, <2>3 DEF OneEach
    <2>5. ASSUME NEW d \in Clerks PROVE UpToDate(d)'
      BY <1>1, <1>2, <2>1 DEF UpToDate, Leaving
    <2>6. ASSUME NEW k \in Lines PROVE LineInv(k)'
      <3>1. /\ Unwritten(k, "arrived")' = {}
            /\ Unwritten(k, "left")' = Unwritten(k, "left")
            /\ k # l => Unwritten(k, "arrived") = {}
            /\ k = l => c \in Unwritten(k, "arrived")
        <4>1. \A d \in Clerks : (clerk[d].at = "arrived" <=> d = c) /\ clerk'[d].at # "arrived"
          BY <1>a, <2>2, <2>3 DEF Unloads
        <4>2. /\ Unwritten(k, "arrived")' = {} /\ (k # l => Unwritten(k, "arrived") = {})
              /\ k = l => c \in Unwritten(k, "arrived")
          BY <1>b, <4>1 DEF Unwritten
        <4>3. \A d \in Clerks : clerk'[d].at = "left" => clerk'[d] = clerk[d]
          BY <1>2
        <4>4. \A d \in Clerks : clerk[d].at = "left" => clerk'[d] = clerk[d]
          BY <1>a, <1>2
        <4> QED  BY <4>2, <4>3, <4>4 DEF Unwritten
      <3>2. \A d \in Clerks :
              clerk'[d].at \in {"claim", "look"} => clerk[d].at \in {"claim", "look"}
        BY <2>2
      <3>3. CASE k = l
        <4>1. LineInv(l) /\ RequestInv(c, l) /\ Unwritten(l, "arrived")' = {}
              /\ Unwritten(l, "left")' = Unwritten(l, "left")
          BY <2>1, <3>1, <3>3 DEF LineInv
        <4>2. in'[l] = line'[l].received
          BY <1>1, <1>3, <3>1, <3>3, <4>1 DEF RequestInv
        <4>3. \A d \in Clerks : Unloads(d)' => clerk'[d].load[l] = 0
          BY <1>2, <2>3
        <4>4. \A d \in Clerks : Loads(d) => clerk'[d].load = clerk[d].load
          BY <1>a, <1>2 DEF Loads
        <4>5. \A d \in Clerks : clerk[d].at \in {"claim", "look"} => clerk'[d].load = clerk[d].load
          BY <1>a, <1>2
        <4>6. ASSUME NEW d \in Clerks PROVE RequestInv(d, l)'
          <5>1. RequestInv(d, l)
            BY <4>1 DEF LineInv
          <5> QED  BY <1>1, <1>3, <2>3, <3>2, <4>1, <4>3, <4>4, <4>5, <5>1 DEF RequestInv
        <4> QED  BY <1>1, <1>3, <1>6, <3>3, <4>1, <4>2, <4>6 DEF LineInv
      <3>4. CASE k # l
        <4>1. line'[k] = line[k] /\ \A d \in Clerks : clerk'[d].load[k] = clerk[d].load[k]
          BY <1>2, <1>3, <3>4
        <4> QED  BY <1>1, <1>6, <2>1, <2>3, <3>1, <3>2, <3>4, <4>1, OtherLine
      <3> QED  BY <3>3, <3>4
    <2> QED  BY <2>4, <2>5, <2>6 DEF RoadInv
  <1>8. EndsAlone'
    <2>1. ASSUME NEW k \in Lines, HasArrived(k) PROVE HasArrived(k)'
      <3>1. CASE k = l
        BY <1>1, <1>2, <1>3, <1>4, <2>1, <3>1 DEF HasArrived
      <3>2. CASE k # l
        BY <1>3, <2>1, <3>2 DEF HasArrived
      <3> QED  BY <3>1, <3>2
    <2> QED  BY <1>0, <1>1, <1>2, <2>1, OneEnds DEF Leaving
  <1> QED  BY <1>6, <1>7, <1>8 DEF TransferInv

\* The invariant holds when nothing has been written.
LEMMA InitTransferInv == Init => TransferInv
  <1> SUFFICES ASSUME Init PROVE TransferInv
    OBVIOUS
  <1>1. \A c \in Clerks : clerk[c].at = "free" /\ clerk[c].now = NoLine
    BY FreeTyped DEF Init
  <1>2. \A l \in Lines : /\ line[l].despatched = 0 /\ line[l].received = 0
                         /\ line[l].quantity = 0 /\ ~line[l].moved
                         /\ out[l] = 0 /\ in[l] = 0 /\ line[l] \in Rows
    BY TransfersAssumption DEF Init, Fresh, Nothing, Rows, Sizes
  <1>3. TypeOK
    BY <1>2, FreeTyped, TransfersAssumption DEF Init, TypeOK, States, Slips, Nothing
  <1>4. TransferTyped
    BY <1>1, <1>2, <1>3 DEF TransferTyped, RowsHold, InHandOf, Carrying, Arriving
  <1>5. \A l \in Lines : LineInv(l)
    BY <1>1, <1>2 DEF LineInv, RequestInv, Loads, Unloads, Unwritten
  <1>6. RoadInv
    BY <1>1, <1>5 DEF RoadInv, OneEach, UpToDate, Loads, Unloads, Leaving
  <1>7. EndsAlone
    BY <1>1 DEF Init, EndsAlone
  <1> QED  BY <1>4, <1>6, <1>7 DEF TransferInv

\* Every step keeps it.
LEMMA NextTransferInv == TransferInv /\ [Next]_vars => TransferInv'
  <1> SUFFICES ASSUME TransferInv, [Next]_vars PROVE TransferInv'
    OBVIOUS
  <1>1. ASSUME NEW c \in Clerks, Act(c) \/ Stops(c) PROVE TransferInv'
    BY <1>1, BeginDespatchKeeps, ClaimKeeps, LookKeeps, LeaveKeeps, RecordDespatchKeeps,
       ArriveKeeps, RecordArrivalKeeps, ReadBackKeeps, CloseKeeps, ReceiveKeeps, EndKeeps DEF Act
  <1>2. CASE UNCHANGED vars
    BY <1>2 DEF vars, TransferInv, TransferTyped, TypeOK, RowsHold, InHandOf, RoadInv, Intact,
       OneEach, Loads, Unloads, UpToDate, LineInv, RequestInv, Unwritten, EndsAlone, HasArrived
  <1> QED  BY <1>1, <1>2, DocumentKeeps DEF Next

LEMMA TransferInvariance == Spec => []TransferInv
  BY InitTransferInv, NextTransferInv, PTL DEF Spec

\* TypeOK: a transfer keeps its shape.
THEOREM TransferTypeCorrect == Spec => []TypeOK
  <1>1. TransferInv => TypeOK
    BY DEF TransferInv, TransferTyped
  <1> QED  BY <1>1, TransferInvariance, PTL

\* TransitAsRecorded: unless requests raced or died over a movement, or the
\* document was changed under a despatch, the shelves and the document agree but
\* for the one movement in hand, for any number of lines and requests.
THEOREM ShelvesAgree == Spec => []TransitAsRecorded
  <1>1. TransferInv => TransitAsRecorded
    <2> SUFFICES ASSUME TransferInv, Intact
                 PROVE  /\ state \notin HasLeft => out = Nothing
                        /\ \A l \in Lines :
                             /\ Unwritten(l, "left") = {} => out[l] = line[l].despatched
                             /\ Unwritten(l, "arrived") = {} => in[l] = line[l].received
                             /\ out[l] <= line[l].quantity
                             /\ in[l] <= out[l]
      BY DEF TransitAsRecorded, Intact
    <2>1. (\A l \in Lines : LineInv(l)) /\ TypeOK
      BY DEF TransferInv, TransferTyped, RoadInv
    <2>2. state \notin HasLeft => out = Nothing
      BY <2>1 DEF LineInv, Nothing, TypeOK
    <2>3. ASSUME NEW l \in Lines
          PROVE  out[l] <= line[l].quantity /\ in[l] <= out[l]
      <3>1. /\ line[l].quantity \in Nat /\ line[l].despatched \in Nat /\ line[l].received \in Nat
            /\ out[l] \in Nat /\ in[l] \in Nat
        BY <2>1 DEF TypeOK, Rows, Sizes
      <3>2. line[l].received <= line[l].despatched /\ line[l].despatched <= line[l].quantity
        BY DEF TransferInv, TransferTyped, RowsHold
      <3>3. out[l] \in {line[l].despatched, line[l].quantity}
        <4>1. CASE Unwritten(l, "left") = {}
          BY <2>1, <4>1 DEF LineInv
        <4>2. CASE Unwritten(l, "left") # {}
          BY <2>1, <4>2 DEF LineInv, RequestInv, Unwritten
        <4> QED  BY <4>1, <4>2
      <3>4. in[l] <= line[l].despatched
        <4>1. CASE Unwritten(l, "arrived") = {}
          BY <2>1, <3>1, <3>2, <4>1 DEF LineInv
        <4>2. CASE Unwritten(l, "arrived") # {}
          <5>1. PICK c \in Clerks : c \in Unwritten(l, "arrived")
            BY <4>2 DEF Unwritten
          <5>2. clerk[c].at = "arrived" /\ clerk[c].now = l /\ clerk[c].load[l] > 0
            BY <5>1 DEF Unwritten, TransferInv, TransferTyped, InHandOf, Carrying
          <5>3. RequestInv(c, l) /\ clerk[c].load[l] \in Nat
            BY <2>1 DEF LineInv, TypeOK, Requests, Sizes
          <5> QED  BY <3>1, <5>1, <5>2, <5>3 DEF RequestInv, Unloads
        <4> QED  BY <4>1, <4>2
      <3> QED  BY <3>1, <3>2, <3>3, <3>4
    <2> QED  BY <2>1, <2>2, <2>3 DEF LineInv
  <1> QED  BY <1>1, TransferInvariance, PTL

\* DoneMeansArrived: a transfer that is done has nothing left on the road,
\* unless a despatch ran over the end of a receipt.
THEOREM NothingOnTheRoad == Spec => []DoneMeansArrived
  <1>1. TransferInv => DoneMeansArrived
    <2> SUFFICES ASSUME TransferInv, state = "done", "crossed" \notin slips, NEW l \in Lines
                 PROVE  line[l].received = line[l].despatched
      BY DEF DoneMeansArrived
    <2>1. line[l].received >= line[l].despatched /\ line[l].received <= line[l].despatched
      BY DEF TransferInv, EndsAlone, HasArrived, TransferTyped, RowsHold
    <2>2. line[l].received \in Nat /\ line[l].despatched \in Nat
      BY DEF TransferInv, TransferTyped, TypeOK, Rows, Sizes
    <2> QED  BY <2>1, <2>2
  <1> QED  BY <1>1, TransferInvariance, PTL

---------------------------------------------------------------------------
(* Suppliers' bills.                                                       *)

\* The instance takes finiteness and sums from the same libraries.
LEMMA SameFinite == \A T : B!IsFiniteSet(T) <=> IsFiniteSet(T)
  BY DEF B!IsFiniteSet, IsFiniteSet

LEMMA SameSum == \A f, T : B!SumOf(f, T) = SumOf(f, T)
  BY DEF B!SumOf, SumOf, B!MapThenSumSet, MapThenSumSet, B!MapThenFoldSet, MapThenFoldSet

\* What the steps make of a bill, and of a request, is one.
LEMMA BillTyped ==
    ASSUME NEW d \in B!Documents
    PROVE  /\ \A s \in B!States : [d EXCEPT !.state = s] \in B!Documents
           /\ \A s \in B!States, q \in B!Claims :
                [d EXCEPT !.state = s, !.lines = q] \in B!Documents
           /\ \A n \in B!Notes : [d EXCEPT !.journal = n] \in B!Documents
  BY DEF B!Documents

LEMMA BillerTyped ==
    ASSUME B!Sensible, NEW q \in B!Requests
    PROVE  /\ B!Free \in B!Requests
           /\ [q EXCEPT !.at = "book"] \in B!Requests
           /\ \A n \in B!Notes : [q EXCEPT !.at = "note", !.journal = n] \in B!Requests
           /\ \A b \in Bills, lines \in B!Claims :
                [B!Free EXCEPT !.at = "post", !.bill = b, !.lines = lines] \in B!Requests
  <1> USE DEF B!Requests, B!Steps, B!Notes
  <1>1. B!Nothing \in B!Claims
    BY DEF B!Sensible, B!Nothing, B!Claims
  <1>2. /\ B!Free \in B!Requests
        /\ \A b \in Bills, lines \in B!Claims :
             [B!Free EXCEPT !.at = "post", !.bill = b, !.lines = lines] \in B!Requests
    BY <1>1 DEF B!Free
  <1>3. /\ [q EXCEPT !.at = "book"] \in B!Requests
        /\ \A n \in B!Notes : [q EXCEPT !.at = "note", !.journal = n] \in B!Requests
    OBVIOUS
  <1> QED  BY <1>2, <1>3

\* A request under way has a bill.
AtABill(q) == q.at # "free" => q.bill \in Bills

BillersInv == biller \in [Clerks -> B!Requests] /\ \A c \in Clerks : AtABill(biller[c])

BillingTyped == B!TypeOK /\ BillersInv

LEMMA InitBillingTyped == B!Sensible /\ B!Init => BillingTyped
  <1> SUFFICES ASSUME B!Sensible, B!Init PROVE BillingTyped
    OBVIOUS
  <1>1. B!Nothing \in B!Claims /\ B!Nothing \in [ReceiptLines -> Nat]
    BY DEF B!Sensible, B!Nothing, B!Claims
  <1>2. [state |-> "none", lines |-> B!Nothing, journal |-> "none"] \in B!Documents
    BY <1>1 DEF B!Documents, B!States, B!Notes
  <1>3. B!Free \in B!Requests /\ AtABill(B!Free)
    BY <1>1 DEF B!Free, B!Requests, B!Steps, B!Notes, AtABill
  <1> QED  BY <1>1, <1>2, <1>3 DEF B!Init, BillingTyped, B!TypeOK, BillersInv

\* A request that goes from one step to the next still has its bill.
LEMMA NextBillers ==
    ASSUME B!Sensible, BillingTyped, [B!Next]_B!vars
    PROVE  BillersInv'
  <1>0. BillersInv
    BY DEF BillingTyped
  <1>1. ASSUME NEW c \in Clerks, NEW q \in B!Requests, AtABill(q),
               biller' = [biller EXCEPT ![c] = q]
        PROVE  BillersInv'
    <2>1. biller' \in [Clerks -> B!Requests] /\ \A d \in Clerks : biller'[d] \in {q, biller[d]}
      BY <1>0, <1>1 DEF BillersInv
    <2> QED  BY <1>0, <1>1, <2>1, Zenon DEF BillersInv
  <1>2. CASE UNCHANGED biller
    BY <1>0, <1>2 DEF BillersInv
  <1>3. ASSUME NEW c \in Clerks, biller' = [biller EXCEPT ![c] = B!Free] PROVE BillersInv'
    <2>1. biller[c] \in B!Requests
      BY <1>0 DEF BillersInv
    <2>2. B!Free \in B!Requests /\ AtABill(B!Free)
      BY <2>1, BillerTyped DEF B!Free, AtABill
    <2> QED  BY <1>1, <1>3, <2>2
  <1>4. ASSUME NEW c \in Clerks, NEW b \in Bills, NEW override \in BOOLEAN, B!Match(c, b, override)
        PROVE  BillersInv'
    <2> DEFINE q == [B!Free EXCEPT !.at = "post", !.bill = b, !.lines = bill[b].lines]
    <2>1. biller[c] \in B!Requests /\ bill[b].lines \in B!Claims
      BY <1>0 DEF BillersInv, BillingTyped, B!TypeOK, B!Documents
    <2>2. q \in B!Requests /\ AtABill(q)
      BY <2>1, BillerTyped DEF AtABill, B!Free
    <2>3. biller' = [biller EXCEPT ![c] = q]
      BY <1>4 DEF B!Match
    <2> QED  BY <1>1, <2>2, <2>3
  <1>5. ASSUME NEW c \in Clerks, B!Post(c) PROVE BillersInv'
    <2> DEFINE q == [biller[c] EXCEPT !.at = "book"]
    <2>1. biller[c] \in B!Requests /\ AtABill(biller[c])
      BY <1>0 DEF BillersInv
    <2>2. q \in B!Requests /\ AtABill(q)
      BY <1>5, <2>1, BillerTyped DEF AtABill, B!Post, B!Requests
    <2>3. biller' = [biller EXCEPT ![c] = q] \/ biller' = [biller EXCEPT ![c] = B!Free]
      BY <1>0, <1>5 DEF B!Post, BillersInv
    <2> QED  BY <1>1, <1>3, <2>2, <2>3
  <1>6. ASSUME NEW c \in Clerks, B!Book(c) PROVE BillersInv'
    <2>1. PICK n \in {"posted", "no_ledger"} :
             biller' = [biller EXCEPT ![c].at = "note", ![c].journal = n]
      BY <1>6 DEF B!Book
    <2> DEFINE q == [biller[c] EXCEPT !.at = "note", !.journal = n]
    <2>2. biller[c] \in B!Requests /\ AtABill(biller[c])
      BY <1>0 DEF BillersInv
    <2>3. q \in B!Requests /\ AtABill(q)
      BY <1>6, <2>2, BillerTyped DEF AtABill, B!Book, B!Requests, B!Notes
    <2>4. biller' = [biller EXCEPT ![c] = q]
      BY <1>0, <2>1 DEF BillersInv
    <2> QED  BY <1>1, <2>3, <2>4
  <1>7. ASSUME NEW c \in Clerks, B!NoSeries(c) \/ B!Note(c) \/ B!Stops(c) PROVE BillersInv'
    BY <1>3, <1>7 DEF B!NoSeries, B!Note, B!Stops
  <1>8. ASSUME NEW b \in Bills, NEW lines \in B!Claims, B!Save(b, lines) PROVE BillersInv'
    BY <1>2, <1>8 DEF B!Save
  <1>9. ASSUME NEW b \in Bills, NEW how, B!Withdraw(b, how) PROVE BillersInv'
    BY <1>2, <1>9 DEF B!Withdraw
  <1>10. CASE UNCHANGED B!vars
    BY <1>2, <1>10 DEF B!vars
  <1> QED  BY <1>4, <1>5, <1>6, <1>7, <1>8, <1>9, <1>10 DEF B!Next

\* The documents keep their shape, and the history only grows.
LEMMA NextBills ==
    ASSUME B!Sensible, BillingTyped, [B!Next]_B!vars
    PROVE  /\ bill' \in [Bills -> B!Documents]
           /\ billed' \in [ReceiptLines -> Nat]
           /\ journals' \in [Bills -> Nat]
           /\ billerSlips' \in [Bills -> SUBSET B!Slips]
           /\ \A b \in Bills : billerSlips[b] \subseteq billerSlips'[b]
           /\ billerStops' \in Nat
  <1> DEFINE Kept == /\ bill' \in [Bills -> B!Documents]
                     /\ billed' \in [ReceiptLines -> Nat]
                     /\ journals' \in [Bills -> Nat]
                     /\ billerSlips' \in [Bills -> SUBSET B!Slips]
                     /\ \A b \in Bills : billerSlips[b] \subseteq billerSlips'[b]
                     /\ billerStops' \in Nat
  <1>0. B!TypeOK
    BY DEF BillingTyped
  <1>a. ASSUME NEW b \in Bills, NEW kinds \in SUBSET B!Slips, B!Slip(b, kinds)
        PROVE  /\ billerSlips' \in [Bills -> SUBSET B!Slips]
               /\ \A d \in Bills : billerSlips[d] \subseteq billerSlips'[d]
    BY <1>0, <1>a DEF B!Slip, B!TypeOK
  <1>b. ASSUME NEW b \in Bills, NEW d \in B!Documents, bill' = [bill EXCEPT ![b] = d]
        PROVE  bill' \in [Bills -> B!Documents]
    BY <1>0, <1>b DEF B!TypeOK
  <1>1. ASSUME NEW b \in Bills, NEW lines \in B!Claims, B!Save(b, lines) PROVE Kept
    <2> DEFINE d == [bill[b] EXCEPT !.state = "draft", !.lines = lines]
    <2>1. d \in B!Documents
      BY <1>0, BillTyped DEF B!TypeOK, B!States
    <2>2. bill' = [bill EXCEPT ![b] = d]
      BY <1>0, <1>1 DEF B!Save, B!TypeOK
    <2>3. B!If("changed", B!MatchingOf(b) # {}) \in SUBSET B!Slips
      BY DEF B!If, B!Slips
    <2>4. /\ billerSlips' \in [Bills -> SUBSET B!Slips]
          /\ \A e \in Bills : billerSlips[e] \subseteq billerSlips'[e]
      BY <1>1, <1>a, <2>3 DEF B!Save
    <2> QED  BY <1>0, <1>1, <1>b, <2>1, <2>2, <2>4 DEF B!Save, B!TypeOK
  <1>2. ASSUME NEW b \in Bills, NEW how \in {"cancelled", "gone"}, B!Withdraw(b, how) PROVE Kept
    <2> DEFINE d == [bill[b] EXCEPT !.state = how]
    <2>1. d \in B!Documents
      BY <1>0, BillTyped DEF B!TypeOK, B!States
    <2>2. bill' = [bill EXCEPT ![b] = d]
      BY <1>0, <1>2 DEF B!Withdraw, B!TypeOK
    <2> QED  BY <1>0, <1>2, <1>b, <2>1, <2>2 DEF B!Withdraw, B!TypeOK
  <1>3. ASSUME NEW c \in Clerks, NEW b \in Bills, NEW override \in BOOLEAN, B!Match(c, b, override)
        PROVE  Kept
    <2>1. B!If("raced", B!Matching # {}) \cup B!If("overridden", override) \in SUBSET B!Slips
      BY DEF B!If, B!Slips
    <2>2. /\ billerSlips' \in [Bills -> SUBSET B!Slips]
          /\ \A e \in Bills : billerSlips[e] \subseteq billerSlips'[e]
      BY <1>3, <1>a, <2>1 DEF B!Match
    <2> QED  BY <1>0, <1>3, <2>2 DEF B!Match, B!TypeOK
  <1>4. ASSUME NEW c \in Clerks, B!Post(c) PROVE Kept
    <2>1. biller[c].bill \in Bills /\ biller[c].lines \in B!Claims
      BY <1>4 DEF B!Post, BillingTyped, BillersInv, AtABill, B!Requests
    <2> DEFINE d == [bill[biller[c].bill] EXCEPT !.state = "posted"]
    <2>2. d \in B!Documents
      BY <1>0, <2>1, BillTyped DEF B!TypeOK, B!States
    <2>3. UNCHANGED bill \/ bill' = [bill EXCEPT ![biller[c].bill] = d]
      BY <1>0, <1>4, <2>1 DEF B!Post, B!TypeOK
    <2>4. bill' \in [Bills -> B!Documents]
      BY <1>0, <1>b, <2>1, <2>2, <2>3 DEF B!TypeOK
    <2>5. \A l \in ReceiptLines : biller[c].lines[l] \in Nat
      BY <2>1 DEF B!Claims, B!Sensible
    <2>6. \/ UNCHANGED billed
          \/ billed' = [l \in ReceiptLines |-> billed[l] + biller[c].lines[l]]
      BY <1>4 DEF B!Post
    <2>7. billed' \in [ReceiptLines -> Nat]
      BY <1>0, <2>5, <2>6 DEF B!TypeOK
    <2> QED  BY <1>0, <1>4, <2>4, <2>7 DEF B!Post, B!TypeOK
  <1>5. ASSUME NEW c \in Clerks, B!Book(c) PROVE Kept
    <2>1. journals' \in [Bills -> Nat]
      <3>1. PICK n \in {0, 1} : journals' = [journals EXCEPT ![biller[c].bill] = @ + n]
        <4>1. PICK o \in {"posted", "no_ledger"} :
                journals' = [journals EXCEPT ![biller[c].bill] =
                                                @ + (IF o = "posted" THEN 1 ELSE 0)]
          BY <1>5 DEF B!Book
        <4> QED  BY <4>1
      <3>2. biller[c].bill \in Bills
        BY <1>5 DEF B!Book, BillingTyped, BillersInv, AtABill
      <3>3. journals[biller[c].bill] + n \in Nat /\ journals \in [Bills -> Nat]
        BY <1>0, <3>2 DEF B!TypeOK
      <3> QED  BY <3>1, <3>3
    <2> QED  BY <1>0, <1>5, <2>1 DEF B!Book, B!TypeOK
  <1>6. ASSUME NEW c \in Clerks, B!Note(c) PROVE Kept
    <2>1. biller[c].bill \in Bills /\ biller[c].journal \in B!Notes
      BY <1>6 DEF B!Note, BillingTyped, BillersInv, AtABill, B!Requests
    <2> DEFINE d == [bill[biller[c].bill] EXCEPT !.journal = biller[c].journal]
    <2>2. d \in B!Documents
      BY <1>0, <2>1, BillTyped DEF B!TypeOK
    <2>3. bill' = [bill EXCEPT ![biller[c].bill] = d]
      BY <1>0, <1>6, <2>1 DEF B!Note, B!TypeOK
    <2> QED  BY <1>0, <1>6, <1>b, <2>1, <2>2, <2>3 DEF B!Note, B!TypeOK
  <1>7. ASSUME NEW c \in Clerks, B!Stops(c) PROVE Kept
    <2>1. biller[c].bill \in Bills
      BY <1>7 DEF B!Stops, BillingTyped, BillersInv, AtABill
    <2>2. B!If("unbooked", biller[c].at \in {"book", "note"}) \in SUBSET B!Slips
      BY DEF B!If, B!Slips
    <2>3. /\ billerSlips' \in [Bills -> SUBSET B!Slips]
          /\ \A e \in Bills : billerSlips[e] \subseteq billerSlips'[e]
      BY <1>7, <1>a, <2>1, <2>2 DEF B!Stops
    <2>4. billerStops' \in Nat
      BY <1>0, <1>7 DEF B!Stops, B!TypeOK
    <2> QED  BY <1>0, <1>7, <2>3, <2>4 DEF B!Stops, B!TypeOK
  <1>8. ASSUME NEW c \in Clerks, B!NoSeries(c) PROVE Kept
    BY <1>0, <1>8 DEF B!NoSeries, B!TypeOK
  <1>9. ASSUME UNCHANGED B!vars PROVE Kept
    BY <1>0, <1>9 DEF B!vars, B!TypeOK
  <1> HIDE DEF Kept
  <1>10. Kept
    BY <1>1, <1>2, <1>3, <1>4, <1>5, <1>6, <1>7, <1>8, <1>9 DEF B!Next
  <1> QED  BY <1>10 DEF Kept

LEMMA NextBillingTyped == B!Sensible /\ BillingTyped /\ [B!Next]_B!vars => BillingTyped'
  BY NextBillers, NextBills DEF BillingTyped, B!TypeOK, BillersInv

-----------------------------------------------------------------------------
\* The request that has posted a bill and not yet noted its journal.
Booker(c, b) == biller[c].at \in {"book", "note"} /\ biller[c].bill = b

\* The journal of a bill is posted by the one request that posted the bill, and
\* noted by it, unless it stopped before.
Booked(b) ==
    /\ \A c, d \in Clerks : Booker(c, b) /\ Booker(d, b) => c = d
    /\ \A c \in Clerks : Booker(c, b) =>
         /\ bill[b].state = "posted" /\ bill[b].journal = "none"
         /\ biller[c].at = "book" => journals[b] = 0
         /\ biller[c].at = "note" => /\ biller[c].journal \in {"posted", "no_ledger"}
                                     /\ journals[b] = IF biller[c].journal = "posted" THEN 1 ELSE 0
    /\ journals[b] \in {0, 1}
    /\ bill[b].state # "posted" => journals[b] = 0 /\ bill[b].journal = "none"
    /\ (/\ bill[b].state = "posted" /\ "unbooked" \notin billerSlips[b]
        /\ \A c \in Clerks : ~Booker(c, b))
         => bill[b].journal = IF journals[b] = 1 THEN "posted" ELSE "no_ledger"

BillingInv == BillingTyped /\ \A b \in Bills : Booked(b)

\* A bill that no request that books it concerns is as it was.
LEMMA BookedElsewhere ==
    ASSUME NEW b \in Bills, Booked(b), billerSlips[b] \subseteq billerSlips'[b],
           bill'[b].state = "posted" \/ bill[b].state = "posted" => bill'[b] = bill[b],
           bill'[b].journal = bill[b].journal, journals'[b] = journals[b],
           \A c \in Clerks : \/ biller'[c] = biller[c]
                             \/ ~Booker(c, b)' /\ (Booker(c, b) => "unbooked" \in billerSlips'[b])
    PROVE  Booked(b)'
  <1>1. \A c \in Clerks : Booker(c, b)' => biller'[c] = biller[c] /\ Booker(c, b)
    BY DEF Booker
  <1>2. "unbooked" \notin billerSlips'[b] => \A c \in Clerks : Booker(c, b) => Booker(c, b)'
    BY DEF Booker
  <1>3. \A c, d \in Clerks : Booker(c, b)' /\ Booker(d, b)' => c = d
    BY <1>1 DEF Booked
  <1>4. \A c \in Clerks : Booker(c, b)' =>
          /\ bill'[b].state = "posted" /\ bill'[b].journal = "none"
          /\ biller'[c].at = "book" => journals'[b] = 0
          /\ biller'[c].at = "note" => /\ biller'[c].journal \in {"posted", "no_ledger"}
                                       /\ journals'[b] = IF biller'[c].journal = "posted"
                                                           THEN 1 ELSE 0
    BY <1>1 DEF Booked
  <1>5. /\ journals'[b] \in {0, 1}
        /\ bill'[b].state # "posted" => journals'[b] = 0 /\ bill'[b].journal = "none"
    BY DEF Booked
  <1>6. (/\ bill'[b].state = "posted" /\ "unbooked" \notin billerSlips'[b]
         /\ \A c \in Clerks : ~Booker(c, b)')
          => bill'[b].journal = IF journals'[b] = 1 THEN "posted" ELSE "no_ledger"
    BY <1>2 DEF Booked
  <1> QED  BY <1>3, <1>4, <1>5, <1>6 DEF Booked

\* Every step keeps every bill booked as it should be.
LEMMA NextBooked ==
    ASSUME B!Sensible, BillingInv, [B!Next]_B!vars, NEW b \in Bills
    PROVE  Booked(b)'
  <1>0. B!TypeOK /\ BillersInv /\ Booked(b) /\ billerSlips[b] \subseteq billerSlips'[b]
    BY NextBills DEF BillingInv, BillingTyped
  <1>1. ASSUME NEW e \in Bills, NEW lines \in B!Claims, B!Save(e, lines) PROVE Booked(b)'
    <2>1. /\ bill'[b].state = "posted" \/ bill[b].state = "posted" => bill'[b] = bill[b]
          /\ bill'[b].journal = bill[b].journal
      BY <1>0, <1>1 DEF B!Save, B!TypeOK, B!Documents
    <2>2. UNCHANGED <<journals, biller>>
      BY <1>1 DEF B!Save
    <2> QED  BY <1>0, <2>1, <2>2, BookedElsewhere
  <1>2. ASSUME NEW e \in Bills, NEW how \in {"cancelled", "gone"}, B!Withdraw(e, how)
        PROVE  Booked(b)'
    <2>1. /\ bill'[b].state = "posted" \/ bill[b].state = "posted" => bill'[b] = bill[b]
          /\ bill'[b].journal = bill[b].journal
      BY <1>0, <1>2 DEF B!Withdraw, B!TypeOK, B!Documents
    <2>2. UNCHANGED <<journals, biller>>
      BY <1>2 DEF B!Withdraw
    <2> QED  BY <1>0, <2>1, <2>2, BookedElsewhere
  <1>3. ASSUME UNCHANGED <<bill, journals>>, NEW c \in Clerks,
               \A d \in Clerks \ {c} : biller'[d] = biller[d],
               biller'[c].at \notin {"book", "note"},
               Booker(c, b) => "unbooked" \in billerSlips'[b]
        PROVE  Booked(b)'
    BY <1>0, <1>3, BookedElsewhere DEF Booker
  <1>4. ASSUME NEW c \in Clerks, NEW e \in Bills, NEW override \in BOOLEAN, B!Match(c, e, override)
        PROVE  Booked(b)'
    <2>1. /\ UNCHANGED <<bill, journals>> /\ biller[c].at = "free"
          /\ \A d \in Clerks \ {c} : biller'[d] = biller[d]
          /\ biller'[c].at = "post"
      BY <1>0, <1>4 DEF B!Match, BillersInv, B!Free
    <2> QED  BY <1>3, <2>1 DEF Booker
  <1>5. ASSUME NEW c \in Clerks, B!Post(c) PROVE Booked(b)'
    <2>1. /\ UNCHANGED <<journals, billerSlips>> /\ biller[c].at = "post"
          /\ \A d \in Clerks \ {c} : biller'[d] = biller[d]
      BY <1>0, <1>5 DEF B!Post, BillersInv
    <2>2. CASE bill[biller[c].bill].state # "draft"
      <3>1. UNCHANGED bill /\ biller'[c].at = "free"
        BY <1>0, <1>5, <2>2 DEF B!Post, BillersInv, B!Free
      <3> QED  BY <1>3, <2>1, <3>1 DEF Booker
    <2>3. CASE bill[biller[c].bill].state = "draft" /\ biller[c].bill # b
      <3>1. bill'[b] = bill[b]
        BY <1>0, <1>5, <2>3 DEF B!Post, B!TypeOK
      <3>2. biller'[c].bill = biller[c].bill
        BY <1>0, <1>5, <2>3 DEF B!Post, BillersInv, B!Requests
      <3> QED  BY <1>0, <2>1, <2>3, <3>1, <3>2, BookedElsewhere DEF Booker
    <2>4. CASE bill[b].state = "draft" /\ biller[c].bill = b
      <3>1. bill'[b].state = "posted" /\ bill'[b].journal = bill[b].journal
        BY <1>0, <1>5, <2>4 DEF B!Post, B!TypeOK, B!Documents
      <3>2. biller'[c].bill = b /\ biller'[c].at = "book"
        BY <1>0, <1>5, <2>4 DEF B!Post, BillersInv, B!Requests
      <3>3. journals[b] = 0 /\ bill[b].journal = "none" /\ \A d \in Clerks : ~Booker(d, b)
        BY <1>0, <2>4 DEF Booked
      <3>4. \A d \in Clerks : Booker(d, b)' <=> d = c
        BY <2>1, <3>2, <3>3 DEF Booker
      <3> QED  BY <2>1, <3>1, <3>2, <3>3, <3>4 DEF Booked
    <2> QED  BY <2>2, <2>3, <2>4
  <1>6. ASSUME NEW c \in Clerks, B!Book(c) PROVE Booked(b)'
    <2>1. PICK n \in {"posted", "no_ledger"} :
            /\ biller' = [biller EXCEPT ![c].at = "note", ![c].journal = n]
            /\ journals' = [journals EXCEPT ![biller[c].bill] = @ + (IF n = "posted" THEN 1 ELSE 0)]
      BY <1>6 DEF B!Book
    <2>2. /\ UNCHANGED <<bill, billerSlips>> /\ biller[c].at = "book"
          /\ \A d \in Clerks \ {c} : biller'[d] = biller[d]
          /\ biller'[c].at = "note" /\ biller'[c].bill = biller[c].bill /\ biller'[c].journal = n
      BY <1>0, <1>6, <2>1 DEF B!Book, BillersInv, B!Requests
    <2>3. CASE biller[c].bill # b
      <3>1. journals'[b] = journals[b]
        BY <1>0, <2>1, <2>3 DEF B!TypeOK
      <3> QED  BY <1>0, <2>2, <2>3, <3>1, BookedElsewhere DEF Booker
    <2>4. CASE biller[c].bill = b
      <3>1. \A d \in Clerks : (Booker(d, b) <=> d = c) /\ (Booker(d, b)' <=> d = c)
        BY <1>0, <2>2, <2>4 DEF Booked, Booker
      <3>2. journals[b] = 0 /\ bill[b].state = "posted" /\ bill[b].journal = "none"
        BY <1>0, <2>2, <3>1 DEF Booked
      <3>3. journals'[b] = IF n = "posted" THEN 1 ELSE 0
        BY <1>0, <2>1, <2>4, <3>2 DEF B!TypeOK
      <3> QED  BY <2>2, <3>1, <3>2, <3>3 DEF Booked
    <2> QED  BY <2>3, <2>4
  <1>7. ASSUME NEW c \in Clerks, B!Note(c) PROVE Booked(b)'
    <2>1. /\ UNCHANGED <<journals, billerSlips>> /\ biller[c].at = "note"
          /\ \A d \in Clerks \ {c} : biller'[d] = biller[d]
          /\ biller'[c].at = "free"
      BY <1>0, <1>7 DEF B!Note, BillersInv, B!Free
    <2>2. CASE biller[c].bill # b
      <3>1. bill'[b] = bill[b]
        BY <1>0, <1>7, <2>2 DEF B!Note, B!TypeOK
      <3> QED  BY <1>0, <2>1, <2>2, <3>1, BookedElsewhere DEF Booker
    <2>3. CASE biller[c].bill = b
      <3>1. bill'[b].state = bill[b].state /\ bill'[b].journal = biller[c].journal
        BY <1>0, <1>7, <2>3 DEF B!Note, B!TypeOK, B!Documents
      <3>2. \A d \in Clerks : (Booker(d, b) <=> d = c) /\ ~Booker(d, b)'
        BY <1>0, <2>1, <2>3 DEF Booked, Booker
      <3>3. /\ biller[c].journal \in {"posted", "no_ledger"}
            /\ journals[b] = IF biller[c].journal = "posted" THEN 1 ELSE 0
            /\ bill[b].state = "posted"
        BY <1>0, <2>1, <3>2 DEF Booked
      <3> QED  BY <2>1, <3>1, <3>2, <3>3 DEF Booked
    <2> QED  BY <2>2, <2>3
  <1>8. ASSUME NEW c \in Clerks, B!NoSeries(c) PROVE Booked(b)'
    <2>1. /\ UNCHANGED <<bill, journals>> /\ biller[c].at = "post"
          /\ \A d \in Clerks \ {c} : biller'[d] = biller[d]
          /\ biller'[c].at = "free"
      BY <1>0, <1>8 DEF B!NoSeries, BillersInv, B!Free
    <2> QED  BY <1>3, <2>1 DEF Booker
  <1>9. ASSUME NEW c \in Clerks, B!Stops(c) PROVE Booked(b)'
    <2>1. /\ UNCHANGED <<bill, journals>>
          /\ \A d \in Clerks \ {c} : biller'[d] = biller[d]
          /\ biller'[c].at = "free"
      BY <1>0, <1>9 DEF B!Stops, BillersInv, B!Free
    <2>2. Booker(c, b) => "unbooked" \in billerSlips'[b]
      BY <1>0, <1>9 DEF B!Stops, B!Slip, B!If, Booker, B!TypeOK
    <2> QED  BY <1>3, <2>1, <2>2
  <1>10. CASE UNCHANGED B!vars
    BY <1>0, <1>10, BookedElsewhere DEF B!vars
  <1> QED  BY <1>1, <1>2, <1>4, <1>5, <1>6, <1>7, <1>8, <1>9, <1>10 DEF B!Next

LEMMA InitBillingInv == B!Sensible /\ B!Init => BillingInv
  <1> SUFFICES ASSUME B!Sensible, B!Init PROVE BillingInv
    OBVIOUS
  <1>1. BillingTyped
    BY InitBillingTyped
  <1>2. ASSUME NEW b \in Bills PROVE Booked(b)
    BY DEF B!Init, Booked, Booker, B!Free
  <1> QED  BY <1>1, <1>2 DEF BillingInv

LEMMA NextBillingInv == B!Sensible /\ BillingInv /\ [B!Next]_B!vars => BillingInv'
  <1> SUFFICES ASSUME B!Sensible, BillingInv, [B!Next]_B!vars PROVE BillingInv'
    OBVIOUS
  <1>1. BillingTyped'
    BY NextBillingTyped DEF BillingInv
  <1>2. \A b \in Bills : Booked(b)'
    BY NextBooked
  <1> QED  BY <1>1, <1>2 DEF BillingInv

LEMMA BillingInvariance ==
    ASSUME B!Sensible
    PROVE  B!Spec => []BillingInv
  <1>1. B!Init => BillingInv
    BY InitBillingInv
  <1>2. BillingInv /\ [B!Next]_B!vars => BillingInv'
    BY NextBillingInv
  <1> QED  BY <1>1, <1>2, PTL DEF B!Spec

-----------------------------------------------------------------------------
(* What the lines have been billed for.                                    *)

\* A request that matched a bill holds its lines, unless the bill was changed.
Matched ==
    \A c \in Clerks : (biller[c].at = "post" /\ "changed" \notin billerSlips[biller[c].bill])
                        => biller[c].lines = bill[biller[c].bill].lines

Unchanged == \A b \in Bills : "changed" \notin billerSlips[b]
Straight  == \A b \in Bills : billerSlips[b] \cap {"raced", "overridden", "changed"} = {}

\* What the bills claim of a line.
Claimed(l) == [b \in Bills |-> bill[b].lines[l]]

Counted == Unchanged => \A l \in ReceiptLines : billed[l] = SumOf(Claimed(l), B!Posted)

\* The one request between its match and its posting claims no more than is left.
Within ==
    Straight =>
        /\ \A c, d \in B!Matching : c = d
        /\ \A c \in B!Matching, l \in ReceiptLines : biller[c].lines[l] <= B!Available(l)
        /\ \A l \in ReceiptLines : billed[l] <= Received[l]

\* What every step leaves of the history.
LEMMA HistoryGrows ==
    ASSUME \A b \in Bills : billerSlips[b] \subseteq billerSlips'[b]
    PROVE  (Unchanged' => Unchanged) /\ (Straight' => Straight)
  BY DEF Unchanged, Straight

LEMMA NextMatched ==
    ASSUME B!Sensible, BillingTyped, Matched, [B!Next]_B!vars
    PROVE  Matched'
  <1>0. B!TypeOK /\ BillersInv /\ \A b \in Bills : billerSlips[b] \subseteq billerSlips'[b]
    BY NextBills DEF BillingTyped
  <1>1. ASSUME \A c \in Clerks : biller'[c] = biller[c] \/ biller'[c].at # "post",
               \A b \in Bills : bill'[b].lines = bill[b].lines
        PROVE  Matched'
    <2> SUFFICES ASSUME NEW c \in Clerks, biller'[c].at = "post",
                        "changed" \notin billerSlips'[biller'[c].bill]
                 PROVE  biller'[c].lines = bill'[biller'[c].bill].lines
      BY DEF Matched
    <2>1. biller'[c] = biller[c] /\ biller[c].bill \in Bills
      BY <1>0, <1>1 DEF BillersInv, AtABill
    <2> QED  BY <1>0, <1>1, <2>1 DEF Matched
  <1>2. ASSUME NEW b \in Bills, NEW lines \in B!Claims, B!Save(b, lines) PROVE Matched'
    <2> SUFFICES ASSUME NEW c \in Clerks, biller'[c].at = "post",
                        "changed" \notin billerSlips'[biller'[c].bill]
                 PROVE  biller'[c].lines = bill'[biller'[c].bill].lines
      BY DEF Matched
    <2>1. biller' = biller /\ biller[c].bill \in Bills
      BY <1>0, <1>2 DEF B!Save, BillersInv, AtABill
    <2>2. biller[c].bill # b
      <3> SUFFICES ASSUME biller[c].bill = b PROVE FALSE
        OBVIOUS
      <3>1. B!MatchingOf(b) # {}
        BY <2>1 DEF B!MatchingOf, B!Matching
      <3> QED  BY <1>0, <1>2, <2>1, <3>1 DEF B!Save, B!Slip, B!If, B!TypeOK
    <2>3. bill'[biller[c].bill] = bill[biller[c].bill]
      BY <1>0, <1>2, <2>1, <2>2 DEF B!Save, B!TypeOK
    <2> QED  BY <1>0, <2>1, <2>3 DEF Matched
  <1>3. ASSUME NEW b \in Bills, NEW how \in {"cancelled", "gone"}, B!Withdraw(b, how) PROVE Matched'
    BY <1>0, <1>1, <1>3 DEF B!Withdraw, B!TypeOK, B!Documents
  <1>4. ASSUME NEW c \in Clerks, NEW b \in Bills, NEW override \in BOOLEAN, B!Match(c, b, override)
        PROVE  Matched'
    <2> SUFFICES ASSUME NEW d \in Clerks, biller'[d].at = "post",
                        "changed" \notin billerSlips'[biller'[d].bill]
                 PROVE  biller'[d].lines = bill'[biller'[d].bill].lines
      BY DEF Matched
    <2>1. UNCHANGED bill
      BY <1>4 DEF B!Match
    <2>2. CASE d = c
      <3>1. biller'[c].bill = b /\ biller'[c].lines = bill[b].lines
        BY <1>0, <1>4 DEF B!Match, BillersInv, B!Free
      <3> QED  BY <2>1, <2>2, <3>1
    <2>3. CASE d # c
      <3>1. biller'[d] = biller[d] /\ biller[d].bill \in Bills
        BY <1>0, <1>4, <2>3 DEF B!Match, BillersInv, AtABill
      <3> QED  BY <1>0, <2>1, <3>1 DEF Matched
    <2> QED  BY <2>2, <2>3
  <1>5. ASSUME NEW c \in Clerks, B!Post(c) PROVE Matched'
    <2>1. \A d \in Clerks : biller'[d] = biller[d] \/ biller'[d].at # "post"
      BY <1>0, <1>5 DEF B!Post, BillersInv, B!Requests, B!Free
    <2>2. \A b \in Bills : bill'[b].lines = bill[b].lines
      BY <1>0, <1>5 DEF B!Post, B!TypeOK, B!Documents
    <2> QED  BY <1>1, <2>1, <2>2
  <1>6. ASSUME NEW c \in Clerks, B!NoSeries(c) \/ B!Stops(c) PROVE Matched'
    <2>1. \A d \in Clerks : biller'[d] = biller[d] \/ biller'[d].at # "post"
      BY <1>0, <1>6 DEF B!NoSeries, B!Stops, BillersInv, B!Requests, B!Free
    <2> QED  BY <1>1, <1>6, <2>1 DEF B!NoSeries, B!Stops
  <1>7. ASSUME NEW c \in Clerks, B!Book(c) PROVE Matched'
    <2>1. \A d \in Clerks : biller'[d] = biller[d] \/ biller'[d].at # "post"
      BY <1>0, <1>7 DEF B!Book, BillersInv, B!Requests, B!Free
    <2> QED  BY <1>1, <1>7, <2>1 DEF B!Book
  <1>8. ASSUME NEW c \in Clerks, B!Note(c) PROVE Matched'
    <2>1. \A d \in Clerks : biller'[d] = biller[d] \/ biller'[d].at # "post"
      BY <1>0, <1>8 DEF B!Note, BillersInv, B!Requests, B!Free
    <2>2. \A b \in Bills : bill'[b].lines = bill[b].lines
      BY <1>0, <1>8 DEF B!Note, B!TypeOK, B!Documents
    <2> QED  BY <1>1, <2>1, <2>2
  <1>9. CASE UNCHANGED B!vars
    BY <1>1, <1>9 DEF B!vars
  <1> QED  BY <1>2, <1>3, <1>4, <1>5, <1>6, <1>7, <1>8, <1>9 DEF B!Next

\* Nothing is posted, and no posted bill changes.
LEMMA CountedElsewhere ==
    ASSUME B!FinitelyMany, Counted, \A b \in Bills : billerSlips[b] \subseteq billerSlips'[b],
           UNCHANGED billed, B!Posted' = B!Posted,
           \A b \in B!Posted : bill'[b].lines = bill[b].lines
    PROVE  Counted'
  <1> SUFFICES ASSUME Unchanged', NEW l \in ReceiptLines
               PROVE  billed'[l] = SumOf(Claimed(l)', B!Posted')
    BY DEF Counted
  <1>1. billed[l] = SumOf(Claimed(l), B!Posted)
    BY HistoryGrows DEF Counted
  <1> DEFINE f == Claimed(l)
             e == Claimed(l)'
             Charges == B!Posted
  <1>2. \A b \in Charges : f[b] = e[b]
    BY DEF Claimed, B!Posted
  <1>3. IsFiniteSet(Charges)
    BY FS_Subset, SameFinite DEF B!Posted, B!FinitelyMany
  <1> HIDE DEF f, e, Charges
  <1>4. SumOf(f, Charges) = SumOf(e, Charges)
    BY <1>2, <1>3, SumSame
  <1> QED  BY <1>1, <1>4 DEF f, e, Charges

\* A bill is posted for what its lines claim.
LEMMA PostCounted ==
    ASSUME B!FinitelyMany, B!TypeOK, BillersInv, Matched, Counted, NEW c \in Clerks, B!Post(c)
    PROVE  Counted'
  <1>1. PICK b \in Bills : b = biller[c].bill
    BY DEF B!Post, BillersInv, AtABill
  <1>2. \A d \in Bills : billerSlips[d] \subseteq billerSlips'[d]
    BY DEF B!Post
  <1>3. CASE bill[b].state # "draft"
    <2>1. UNCHANGED <<bill, billed>>
      BY <1>1, <1>3 DEF B!Post
    <2>2. B!Posted' = B!Posted
      BY <2>1 DEF B!Posted
    <2> QED  BY <1>2, <2>1, <2>2, CountedElsewhere
  <1>4. CASE bill[b].state = "draft"
    <2>1. /\ bill' = [bill EXCEPT ![b].state = "posted"]
          /\ billed' = [l \in ReceiptLines |-> billed[l] + biller[c].lines[l]]
          /\ UNCHANGED billerSlips
      BY <1>1, <1>4 DEF B!Post
    <2>2. B!Posted' = B!Posted \cup {b} /\ b \notin B!Posted /\ b \in Bills
      BY <1>4, <2>1 DEF B!Posted, B!TypeOK, B!Documents
    <2>3. \A d \in Bills : bill'[d].lines = bill[d].lines
      BY <2>1 DEF B!TypeOK, B!Documents
    <2> SUFFICES ASSUME Unchanged', NEW l \in ReceiptLines
                 PROVE  billed'[l] = SumOf(Claimed(l)', B!Posted')
      BY DEF Counted
    <2>4. Unchanged
      BY <2>1 DEF Unchanged
    <2>5. billed[l] = SumOf(Claimed(l), B!Posted)
      BY <2>4 DEF Counted
    <2>6. biller[c].lines = bill[b].lines
      BY <1>1, <2>4 DEF Matched, Unchanged, B!Post
    <2>7. billed'[l] = billed[l] + bill[b].lines[l]
      BY <2>1, <2>6
    <2> DEFINE f == Claimed(l)
               Charges == B!Posted
    <2>8. Claimed(l)' = f
      BY <2>3 DEF Claimed
    <2>9. IsFiniteSet(Charges)
      BY FS_Subset, SameFinite DEF B!Posted, B!FinitelyMany
    <2>10. \A d \in Charges \cup {b} : f[d] \in Int
      <3>1. \A d \in Bills : bill[d].lines[l] \in Int
        BY DEF B!TypeOK, B!Documents, B!Claims
      <3> QED  BY <2>2, <3>1 DEF Claimed, B!Posted
    <2>11. f[b] = bill[b].lines[l]
      BY DEF Claimed
    <2>12. billed[l] \in Nat /\ f[b] \in Int
      BY <2>10 DEF B!TypeOK
    <2> HIDE DEF f, Charges
    <2>13. SumOf(f, Charges \cup {b}) = f[b] + SumOf(f, Charges)
      BY <2>2, <2>9, <2>10, SumAdd DEF Charges
    <2>14. billed[l] = SumOf(f, Charges)
      BY <2>5 DEF f, Charges
    <2>15. billed'[l] = SumOf(f, Charges \cup {b})
      BY <2>7, <2>11, <2>12, <2>13, <2>14
    <2> QED  BY <2>2, <2>8, <2>15 DEF Charges
  <1> QED  BY <1>3, <1>4

LEMMA NextCounted ==
    ASSUME B!Sensible, B!FinitelyMany, BillingTyped, Matched, Counted, [B!Next]_B!vars
    PROVE  Counted'
  <1>0. B!TypeOK /\ BillersInv /\ \A b \in Bills : billerSlips[b] \subseteq billerSlips'[b]
    BY NextBills DEF BillingTyped
  <1>1. ASSUME UNCHANGED <<bill, billed>> PROVE Counted'
    <2>1. B!Posted' = B!Posted
      BY <1>1 DEF B!Posted
    <2> QED  BY <1>0, <1>1, <2>1, CountedElsewhere
  <1>2. ASSUME NEW b \in Bills, UNCHANGED billed, bill[b].state = "draft" \/ bill[b].state = "none",
               bill'[b].state # "posted", \A d \in Bills \ {b} : bill'[d] = bill[d]
        PROVE  Counted'
    <2>1. B!Posted' = B!Posted /\ b \notin B!Posted
      BY <1>2 DEF B!Posted
    <2>2. \A d \in B!Posted : bill'[d].lines = bill[d].lines
      BY <1>2, <2>1 DEF B!Posted
    <2> QED  BY <1>0, <1>2, <2>1, <2>2, CountedElsewhere
  <1>3. ASSUME NEW b \in Bills, NEW lines \in B!Claims, B!Save(b, lines) PROVE Counted'
    <2>1. bill'[b].state = "draft" /\ \A d \in Bills \ {b} : bill'[d] = bill[d]
      BY <1>0, <1>3 DEF B!Save, B!TypeOK, B!Documents
    <2> QED  BY <1>2, <1>3, <2>1 DEF B!Save
  <1>4. ASSUME NEW b \in Bills, NEW how \in {"cancelled", "gone"}, B!Withdraw(b, how) PROVE Counted'
    <2>1. bill'[b].state = how /\ \A d \in Bills \ {b} : bill'[d] = bill[d]
      BY <1>0, <1>4 DEF B!Withdraw, B!TypeOK, B!Documents
    <2> QED  BY <1>2, <1>4, <2>1 DEF B!Withdraw
  <1>5. ASSUME NEW c \in Clerks, B!Post(c) PROVE Counted'
    BY <1>0, <1>5, PostCounted
  <1>6. ASSUME NEW c \in Clerks, B!Note(c) PROVE Counted'
    <2>1. /\ UNCHANGED billed
          /\ \A d \in Bills : bill'[d].state = bill[d].state /\ bill'[d].lines = bill[d].lines
      BY <1>0, <1>6 DEF B!Note, B!TypeOK, B!Documents
    <2>2. B!Posted' = B!Posted /\ \A b \in B!Posted : bill'[b].lines = bill[b].lines
      BY <2>1 DEF B!Posted
    <2> QED  BY <1>0, <2>1, <2>2, CountedElsewhere
  <1>7. ASSUME NEW c \in Clerks, B!NoSeries(c) \/ B!Book(c) \/ B!Stops(c) PROVE Counted'
    BY <1>1, <1>7 DEF B!NoSeries, B!Book, B!Stops
  <1>8. ASSUME NEW c \in Clerks, NEW b \in Bills, NEW override \in BOOLEAN, B!Match(c, b, override)
        PROVE  Counted'
    BY <1>1, <1>8 DEF B!Match
  <1>9. CASE UNCHANGED B!vars
    BY <1>1, <1>9 DEF B!vars
  <1> QED  BY <1>3, <1>4, <1>5, <1>6, <1>7, <1>8, <1>9 DEF B!Next

\* No request comes to its posting, and nothing is billed.
LEMMA WithinElsewhere ==
    ASSUME Within, \A b \in Bills : billerSlips[b] \subseteq billerSlips'[b], UNCHANGED billed,
           \A c \in Clerks : biller'[c].at = "post" => biller'[c] = biller[c]
    PROVE  Within'
  <1> SUFFICES ASSUME Straight' PROVE Within'
    BY DEF Within
  <1>1. Straight
    BY HistoryGrows
  <1>2. B!Matching' \subseteq B!Matching /\ \A c \in B!Matching' : biller'[c] = biller[c]
    BY DEF B!Matching
  <1>3. \A l : B!Available(l)' = B!Available(l)
    BY DEF B!Available
  <1>4. /\ \A c, d \in B!Matching : c = d
        /\ \A c \in B!Matching, l \in ReceiptLines : biller[c].lines[l] <= B!Available(l)
        /\ \A l \in ReceiptLines : billed[l] <= Received[l]
    BY <1>1 DEF Within
  <1>5. \A c, d \in B!Matching' : c = d
    BY <1>2, <1>4
  <1>6. \A c \in B!Matching', l \in ReceiptLines : biller'[c].lines[l] <= B!Available(l)'
    BY <1>2, <1>3, <1>4
  <1> QED  BY <1>4, <1>5, <1>6 DEF Within

LEMMA NextWithin ==
    ASSUME B!Sensible, BillingTyped, Within, [B!Next]_B!vars
    PROVE  Within'
  <1>0. B!TypeOK /\ BillersInv /\ \A b \in Bills : billerSlips[b] \subseteq billerSlips'[b]
    BY NextBills DEF BillingTyped
  <1>1. ASSUME NEW b \in Bills, NEW lines \in B!Claims, B!Save(b, lines) PROVE Within'
    BY <1>0, <1>1, WithinElsewhere DEF B!Save
  <1>2. ASSUME NEW b \in Bills, NEW how \in {"cancelled", "gone"}, B!Withdraw(b, how) PROVE Within'
    BY <1>0, <1>2, WithinElsewhere DEF B!Withdraw
  <1>3. ASSUME NEW c \in Clerks, NEW b \in Bills, NEW override \in BOOLEAN, B!Match(c, b, override)
        PROVE  Within'
    <2> SUFFICES ASSUME Straight' PROVE Within'
      BY DEF Within
    <2>1. Straight /\ billerSlips'[b] \cap {"raced", "overridden", "changed"} = {}
      BY <1>0, HistoryGrows DEF Straight
    <2>2. billerSlips'[b] = billerSlips[b] \cup B!If("raced", B!Matching # {})
                                           \cup B!If("overridden", override)
      BY <1>0, <1>3 DEF B!Match, B!Slip, B!TypeOK
    <2>3. B!Matching = {} /\ ~override
      BY <2>1, <2>2 DEF B!If
    <2>4. /\ UNCHANGED billed /\ B!Clears(bill[b].lines)
          /\ biller'[c].lines = bill[b].lines /\ \A d \in Clerks \ {c} : biller'[d] = biller[d]
      BY <1>0, <1>3, <2>3 DEF B!Match, BillersInv, B!Free
    <2>5. B!Matching' \subseteq {c}
      BY <2>3, <2>4 DEF B!Matching
    <2>6. \A l : B!Available(l)' = B!Available(l)
      BY <2>4 DEF B!Available
    <2>7. \A l \in ReceiptLines : biller'[c].lines[l] <= B!Available(l)'
      BY <2>4, <2>6 DEF B!Clears
    <2>8. \A l \in ReceiptLines : billed'[l] <= Received[l]
      BY <2>1, <2>4 DEF Within
    <2> QED  BY <2>5, <2>7, <2>8 DEF Within
  <1>4. ASSUME NEW c \in Clerks, B!Post(c) PROVE Within'
    <2>1. CASE UNCHANGED billed
      <3>1. \A d \in Clerks : biller'[d].at = "post" => biller'[d] = biller[d]
        BY <1>0, <1>4 DEF B!Post, BillersInv, B!Requests, B!Free
      <3> QED  BY <1>0, <2>1, <3>1, WithinElsewhere
    <2>2. CASE billed' # billed
      <3> SUFFICES ASSUME Straight' PROVE Within'
        BY DEF Within
      <3>1. Straight /\ c \in B!Matching
        BY <1>0, <1>4, HistoryGrows DEF B!Post, B!Matching
      <3>2. billed' = [l \in ReceiptLines |-> billed[l] + biller[c].lines[l]]
        BY <1>4, <2>2 DEF B!Post
      <3>3. B!Matching' = {}
        <4>1. \A d \in Clerks : biller'[d].at = "post" => biller'[d] = biller[d] /\ d # c
          BY <1>0, <1>4 DEF B!Post, BillersInv, B!Requests, B!Free
        <4>2. \A d \in B!Matching : d = c
          BY <3>1 DEF Within
        <4> QED  BY <4>1, <4>2 DEF B!Matching
      <3>4. ASSUME NEW l \in ReceiptLines PROVE billed'[l] <= Received[l]
        <4>1. biller[c].lines[l] <= B!Available(l) /\ billed[l] <= Received[l]
          BY <3>1 DEF Within
        <4>2. billed[l] \in Nat /\ Received[l] \in Nat /\ biller[c].lines[l] \in Nat
          BY <1>0 DEF B!TypeOK, BillersInv, B!Requests, B!Claims, B!Sensible
        <4> QED  BY <3>2, <4>1, <4>2 DEF B!Available
      <3> QED  BY <3>3, <3>4 DEF Within
    <2> QED  BY <2>1, <2>2
  <1>5. ASSUME NEW c \in Clerks, B!NoSeries(c) \/ B!Note(c) \/ B!Stops(c) PROVE Within'
    <2>1. \A d \in Clerks : biller'[d].at = "post" => biller'[d] = biller[d]
      BY <1>0, <1>5 DEF B!NoSeries, B!Note, B!Stops, BillersInv, B!Requests, B!Free
    <2> QED  BY <1>0, <1>5, <2>1, WithinElsewhere DEF B!NoSeries, B!Note, B!Stops
  <1>6. ASSUME NEW c \in Clerks, B!Book(c) PROVE Within'
    <2>1. \A d \in Clerks : biller'[d].at = "post" => biller'[d] = biller[d]
      BY <1>0, <1>6 DEF B!Book, BillersInv, B!Requests, B!Free
    <2> QED  BY <1>0, <1>6, <2>1, WithinElsewhere DEF B!Book
  <1>7. CASE UNCHANGED B!vars
    BY <1>0, <1>7, WithinElsewhere DEF B!vars
  <1> QED  BY <1>1, <1>2, <1>3, <1>4, <1>5, <1>6, <1>7 DEF B!Next

LEMMA InitCounted ==
    ASSUME B!Sensible, B!FinitelyMany, B!Init
    PROVE  Matched /\ Counted /\ Within
  <1>1. Matched
    BY DEF B!Init, Matched, B!Free
  <1>2. B!Matching = {} /\ B!Posted = {}
    BY DEF B!Init, B!Matching, B!Free, B!Posted
  <1>3. Within
    BY <1>2 DEF B!Init, Within, B!Sensible, B!Nothing
  <1>4. ASSUME NEW l \in ReceiptLines PROVE billed[l] = SumOf(Claimed(l), B!Posted)
    <2> DEFINE f == Claimed(l)
    <2> HIDE DEF f
    <2>1. SumOf(f, {}) = 0
      BY SumEmpty
    <2> QED  BY <1>2, <2>1 DEF f, B!Init, B!Nothing
  <1> QED  BY <1>1, <1>3, <1>4 DEF Counted

-----------------------------------------------------------------------------
\* TypeOK: bills, what lines are billed for and requests keep their shape.
THEOREM BillingTypeCorrect ==
    ASSUME B!Sensible
    PROVE  B!Spec => []B!TypeOK
  <1>1. BillingInv => B!TypeOK
    BY DEF BillingInv, BillingTyped
  <1> QED  BY <1>1, BillingInvariance, PTL

\* PostedIsBooked: however many requests race to post a bill, the ledger holds
\* at most one journal for it, holds none for a bill that is not posted, and
\* the bill says so, unless the request that posted it stopped.
THEOREM OneJournalEach ==
    ASSUME B!Sensible
    PROVE  B!Spec => []B!PostedIsBooked
  <1>1. BillingInv => B!PostedIsBooked
    BY DEF BillingInv, Booked, Booker, B!PostedIsBooked
  <1> QED  BY <1>1, BillingInvariance, PTL

\* BilledAsPosted: what a line of a receipt has been billed for is the sum of
\* what the posted bills claim of it, and no more than arrived, for any number
\* of bills and requests, unless a bill was changed under the request that
\* posted it, two were matched at once, or somebody overrode the match.
THEOREM BilledIsClaimed ==
    ASSUME B!Sensible, B!FinitelyMany
    PROVE  B!Spec => []B!BilledAsPosted
  <1> DEFINE Inv == BillingTyped /\ Matched /\ Counted /\ Within
  <1>1. B!Init => Inv
    BY InitBillingTyped, InitCounted
  <1>2. Inv /\ [B!Next]_B!vars => Inv'
    BY NextBillingTyped, NextMatched, NextCounted, NextWithin
  <1>3. Inv => B!BilledAsPosted
    BY SameSum DEF Counted, Within, Unchanged, Straight, Claimed, B!BilledAsPosted
  <1> QED  BY <1>1, <1>2, <1>3, PTL DEF B!Spec

---------------------------------------------------------------------------
(* The four put together, as the model checker looks at them.              *)

\* What is proved of the instances of Purchasing and of Selling.
PP == INSTANCE PurchasingProofs
        WITH LastLine <- 1, Plans <- OneLinePlans, MaxEdits <- 1, MaxResaves <- 0, MaxStops <- 0,
             order <- purchaseOrder, clerk <- buyer, slips <- buyerSlips, stops <- buyerStops
RR == INSTANCE PurchasingProofs
        WITH Receipts <- OneReceipt, Plans <- TwoLinePlans, MaxResaves <- 0,
             order <- purchaseOrder, clerk <- buyer, slips <- buyerSlips, stops <- buyerStops
QQ == INSTANCE PurchasingProofs
        WITH Receipts <- OneReceipt, Plans <- TwoLinePlans, MaxEdits <- 1, MaxResaves <- 2,
             MaxStops <- 0,
             order <- purchaseOrder, clerk <- buyer, slips <- buyerSlips, stops <- buyerStops
SS == INSTANCE SellingProofs
        WITH Invoices <- {}, MaxQty <- 1, MaxEdits <- 1, MaxResaves <- 1,
             order <- salesOrder, clerk <- seller, slips <- sellerSlips, stops <- sellerStops
DD == INSTANCE SellingProofs
        WITH Invoices <- One(Invoices), MaxResaves <- 0, MaxStops <- 0,
             order <- salesOrder, clerk <- seller, slips <- sellerSlips, stops <- sellerStops
II == INSTANCE SellingProofs
        WITH MaxResaves <- 0,
             order <- salesOrder, clerk <- seller, slips <- sellerSlips, stops <- sellerStops

\* They are about the same steps and the same properties, name for name.
LEMMA ManyReceipts ==
    /\ P!Sensible <=> PP!Sensible
    /\ P!FinitelyMany <=> PP!FinitelyMany
    /\ P!vars = PP!vars
    /\ P!Init <=> PP!Init
    /\ P!Next <=> PP!Next
    /\ P!TypeOK <=> PP!TypeOK
    /\ P!ReceivedAsMoved <=> PP!ReceivedAsMoved
    /\ P!PostedMovedOnce <=> PP!PostedMovedOnce
    /\ P!OrderCloses <=> PP!OrderCloses
  <1>1. /\ P!Sensible <=> PP!Sensible
        /\ P!FinitelyMany <=> PP!FinitelyMany
        /\ P!vars = PP!vars
    BY Zenon DEF P!Sensible, PP!Sensible, P!FinitelyMany, PP!FinitelyMany, P!IsFiniteSet,
       PP!IsFiniteSet, P!vars, PP!vars, P!Lines, PP!Lines
  <1>2. P!Init <=> PP!Init
    BY Zenon DEF P!Init, PP!Init, P!NoOrder, PP!NoOrder, P!NoPaper, PP!NoPaper, P!Free, PP!Free,
       P!Nothing, PP!Nothing, P!Lines, PP!Lines, P!NoLine, PP!NoLine
  <1>3. P!Next <=> PP!Next
    BY Zenon DEF P!vars, PP!vars, P!Lines, PP!Lines, P!NoLine, PP!NoLine, P!Nothing, PP!Nothing,
       P!Editable, PP!Editable, P!Numbered, PP!Numbered, P!NoOrder, PP!NoOrder, P!NoPaper,
       PP!NoPaper, P!Posting, PP!Posting, P!Setting, PP!Setting, P!Free, PP!Free, P!PostersOf,
       PP!PostersOf, P!Slip, PP!Slip, P!Outstanding, PP!Outstanding, P!OrderCreate,
       PP!OrderCreate, P!Confirm, PP!Confirm, P!Referenced, PP!Referenced, P!LinesGo, PP!LinesGo,
       P!OrderDelete, PP!OrderDelete, P!Intend, PP!Intend, P!OrderSave, PP!OrderSave, P!Allows,
       PP!Allows, P!SetState, PP!SetState, P!ReceiptSave, PP!ReceiptSave, P!ReceiptWithdraw,
       PP!ReceiptWithdraw, P!BeginPost, PP!BeginPost, P!First, PP!First, P!Move, PP!Move, P!Lands,
       PP!Lands, P!Written, PP!Written, P!RecordMove, PP!RecordMove, P!Moved, PP!Moved, P!Post,
       PP!Post, P!Refused, PP!Refused, P!Complete, PP!Complete, P!Settle, PP!Settle, P!Stops,
       PP!Stops, P!Act, PP!Act, P!Next, PP!Next
  <1>4. P!TypeOK <=> PP!TypeOK
    BY Zenon DEF P!TypeOK, PP!TypeOK, P!Orders, PP!Orders, P!OrderStates, PP!OrderStates,
       P!Papers, PP!Papers, P!ReceiptStates, PP!ReceiptStates, P!Requests, PP!Requests, P!Posting,
       PP!Posting, P!Setting, PP!Setting, P!Slips, PP!Slips, P!Lines, PP!Lines, P!NoLine,
       PP!NoLine
  <1>5. /\ P!ReceivedAsMoved <=> PP!ReceivedAsMoved
        /\ P!PostedMovedOnce <=> PP!PostedMovedOnce
        /\ P!OrderCloses <=> PP!OrderCloses
    BY Zenon DEF P!ReceivedAsMoved, PP!ReceivedAsMoved, P!PostedMovedOnce, PP!PostedMovedOnce,
       P!OrderCloses, PP!OrderCloses, P!AllIn, PP!AllIn, P!Unwritten, PP!Unwritten, P!Outstanding,
       PP!Outstanding, P!Numbered, PP!Numbered, P!Nothing, PP!Nothing, P!Lines, PP!Lines, P!SumOf,
       PP!SumOf, P!MapThenSumSet, PP!MapThenSumSet, P!MapThenFoldSet, PP!MapThenFoldSet
  <1> QED  BY <1>1, <1>2, <1>3, <1>4, <1>5

LEMMA ChangedReceipts ==
    /\ R!Sensible <=> RR!Sensible
    /\ R!FinitelyMany <=> RR!FinitelyMany
    /\ R!vars = RR!vars
    /\ R!Init <=> RR!Init
    /\ R!Next <=> RR!Next
    /\ R!TypeOK <=> RR!TypeOK
    /\ R!ReceivedAsMoved <=> RR!ReceivedAsMoved
    /\ R!PostedMovedOnce <=> RR!PostedMovedOnce
    /\ R!OrderCloses <=> RR!OrderCloses
  <1>1. /\ R!Sensible <=> RR!Sensible
        /\ R!FinitelyMany <=> RR!FinitelyMany
        /\ R!vars = RR!vars
    BY Zenon DEF R!Sensible, RR!Sensible, R!FinitelyMany, RR!FinitelyMany, R!IsFiniteSet,
       RR!IsFiniteSet, R!vars, RR!vars, R!Lines, RR!Lines
  <1>2. R!Init <=> RR!Init
    BY Zenon DEF R!Init, RR!Init, R!NoOrder, RR!NoOrder, R!NoPaper, RR!NoPaper, R!Free, RR!Free,
       R!Nothing, RR!Nothing, R!Lines, RR!Lines, R!NoLine, RR!NoLine
  <1>3. R!Next <=> RR!Next
    BY Zenon DEF R!vars, RR!vars, R!Lines, RR!Lines, R!NoLine, RR!NoLine, R!Nothing, RR!Nothing,
       R!Editable, RR!Editable, R!Numbered, RR!Numbered, R!NoOrder, RR!NoOrder, R!NoPaper,
       RR!NoPaper, R!Posting, RR!Posting, R!Setting, RR!Setting, R!Free, RR!Free, R!PostersOf,
       RR!PostersOf, R!Slip, RR!Slip, R!Outstanding, RR!Outstanding, R!OrderCreate,
       RR!OrderCreate, R!Confirm, RR!Confirm, R!Referenced, RR!Referenced, R!LinesGo, RR!LinesGo,
       R!OrderDelete, RR!OrderDelete, R!Intend, RR!Intend, R!OrderSave, RR!OrderSave, R!Allows,
       RR!Allows, R!SetState, RR!SetState, R!ReceiptSave, RR!ReceiptSave, R!ReceiptWithdraw,
       RR!ReceiptWithdraw, R!BeginPost, RR!BeginPost, R!First, RR!First, R!Move, RR!Move, R!Lands,
       RR!Lands, R!Written, RR!Written, R!RecordMove, RR!RecordMove, R!Moved, RR!Moved, R!Post,
       RR!Post, R!Refused, RR!Refused, R!Complete, RR!Complete, R!Settle, RR!Settle, R!Stops,
       RR!Stops, R!Act, RR!Act, R!Next, RR!Next
  <1>4. R!TypeOK <=> RR!TypeOK
    BY Zenon DEF R!TypeOK, RR!TypeOK, R!Orders, RR!Orders, R!OrderStates, RR!OrderStates,
       R!Papers, RR!Papers, R!ReceiptStates, RR!ReceiptStates, R!Requests, RR!Requests, R!Posting,
       RR!Posting, R!Setting, RR!Setting, R!Slips, RR!Slips, R!Lines, RR!Lines, R!NoLine,
       RR!NoLine
  <1>5. /\ R!ReceivedAsMoved <=> RR!ReceivedAsMoved
        /\ R!PostedMovedOnce <=> RR!PostedMovedOnce
        /\ R!OrderCloses <=> RR!OrderCloses
    BY Zenon DEF R!ReceivedAsMoved, RR!ReceivedAsMoved, R!PostedMovedOnce, RR!PostedMovedOnce,
       R!OrderCloses, RR!OrderCloses, R!AllIn, RR!AllIn, R!Unwritten, RR!Unwritten, R!Outstanding,
       RR!Outstanding, R!Numbered, RR!Numbered, R!Nothing, RR!Nothing, R!Lines, RR!Lines, R!SumOf,
       RR!SumOf, R!MapThenSumSet, RR!MapThenSumSet, R!MapThenFoldSet, RR!MapThenFoldSet
  <1> QED  BY <1>1, <1>2, <1>3, <1>4, <1>5

LEMMA SavedAgain ==
    /\ Q!Sensible <=> QQ!Sensible
    /\ Q!FinitelyMany <=> QQ!FinitelyMany
    /\ Q!vars = QQ!vars
    /\ Q!Init <=> QQ!Init
    /\ Q!Next <=> QQ!Next
    /\ Q!TypeOK <=> QQ!TypeOK
    /\ Q!ReceivedAsMoved <=> QQ!ReceivedAsMoved
    /\ Q!PostedMovedOnce <=> QQ!PostedMovedOnce
    /\ Q!OrderCloses <=> QQ!OrderCloses
  <1>1. /\ Q!Sensible <=> QQ!Sensible
        /\ Q!FinitelyMany <=> QQ!FinitelyMany
        /\ Q!vars = QQ!vars
    BY Zenon DEF Q!Sensible, QQ!Sensible, Q!FinitelyMany, QQ!FinitelyMany, Q!IsFiniteSet,
       QQ!IsFiniteSet, Q!vars, QQ!vars, Q!Lines, QQ!Lines
  <1>2. Q!Init <=> QQ!Init
    BY Zenon DEF Q!Init, QQ!Init, Q!NoOrder, QQ!NoOrder, Q!NoPaper, QQ!NoPaper, Q!Free, QQ!Free,
       Q!Nothing, QQ!Nothing, Q!Lines, QQ!Lines, Q!NoLine, QQ!NoLine
  <1>3. Q!Next <=> QQ!Next
    BY Zenon DEF Q!vars, QQ!vars, Q!Lines, QQ!Lines, Q!NoLine, QQ!NoLine, Q!Nothing, QQ!Nothing,
       Q!Editable, QQ!Editable, Q!Numbered, QQ!Numbered, Q!NoOrder, QQ!NoOrder, Q!NoPaper,
       QQ!NoPaper, Q!Posting, QQ!Posting, Q!Setting, QQ!Setting, Q!Free, QQ!Free, Q!PostersOf,
       QQ!PostersOf, Q!Slip, QQ!Slip, Q!Outstanding, QQ!Outstanding, Q!OrderCreate,
       QQ!OrderCreate, Q!Confirm, QQ!Confirm, Q!Referenced, QQ!Referenced, Q!LinesGo, QQ!LinesGo,
       Q!OrderDelete, QQ!OrderDelete, Q!Intend, QQ!Intend, Q!OrderSave, QQ!OrderSave, Q!Allows,
       QQ!Allows, Q!SetState, QQ!SetState, Q!ReceiptSave, QQ!ReceiptSave, Q!ReceiptWithdraw,
       QQ!ReceiptWithdraw, Q!BeginPost, QQ!BeginPost, Q!First, QQ!First, Q!Move, QQ!Move, Q!Lands,
       QQ!Lands, Q!Written, QQ!Written, Q!RecordMove, QQ!RecordMove, Q!Moved, QQ!Moved, Q!Post,
       QQ!Post, Q!Refused, QQ!Refused, Q!Complete, QQ!Complete, Q!Settle, QQ!Settle, Q!Stops,
       QQ!Stops, Q!Act, QQ!Act, Q!Next, QQ!Next
  <1>4. Q!TypeOK <=> QQ!TypeOK
    BY Zenon DEF Q!TypeOK, QQ!TypeOK, Q!Orders, QQ!Orders, Q!OrderStates, QQ!OrderStates,
       Q!Papers, QQ!Papers, Q!ReceiptStates, QQ!ReceiptStates, Q!Requests, QQ!Requests, Q!Posting,
       QQ!Posting, Q!Setting, QQ!Setting, Q!Slips, QQ!Slips, Q!Lines, QQ!Lines, Q!NoLine,
       QQ!NoLine
  <1>5. /\ Q!ReceivedAsMoved <=> QQ!ReceivedAsMoved
        /\ Q!PostedMovedOnce <=> QQ!PostedMovedOnce
        /\ Q!OrderCloses <=> QQ!OrderCloses
    BY Zenon DEF Q!ReceivedAsMoved, QQ!ReceivedAsMoved, Q!PostedMovedOnce, QQ!PostedMovedOnce,
       Q!OrderCloses, QQ!OrderCloses, Q!AllIn, QQ!AllIn, Q!Unwritten, QQ!Unwritten, Q!Outstanding,
       QQ!Outstanding, Q!Numbered, QQ!Numbered, Q!Nothing, QQ!Nothing, Q!Lines, QQ!Lines, Q!SumOf,
       QQ!SumOf, Q!MapThenSumSet, QQ!MapThenSumSet, Q!MapThenFoldSet, QQ!MapThenFoldSet
  <1> QED  BY <1>1, <1>2, <1>3, <1>4, <1>5

LEMMA NoInvoice ==
    /\ S!Sensible <=> SS!Sensible
    /\ S!FinitelyMany <=> SS!FinitelyMany
    /\ S!vars = SS!vars
    /\ S!Init <=> SS!Init
    /\ S!Next <=> SS!Next
    /\ S!TypeOK <=> SS!TypeOK
    /\ S!DeliveredAsGone <=> SS!DeliveredAsGone
    /\ S!InvoicedAsPosted <=> SS!InvoicedAsPosted
  <1>1. /\ S!Sensible <=> SS!Sensible
        /\ S!FinitelyMany <=> SS!FinitelyMany
        /\ S!vars = SS!vars
    BY Zenon DEF S!Sensible, SS!Sensible, S!FinitelyMany, SS!FinitelyMany, S!IsFiniteSet,
       SS!IsFiniteSet, S!vars, SS!vars
  <1>2. S!Init <=> SS!Init
    BY Zenon DEF S!Init, SS!Init, S!NoOrder, SS!NoOrder, S!NoPaper, SS!NoPaper, S!Free, SS!Free,
       S!Nothing, SS!Nothing
  <1>3. S!Next <=> SS!Next
    BY Zenon DEF S!vars, SS!vars, S!Sizes, SS!Sizes, S!Claims, SS!Claims, S!Nothing, SS!Nothing,
       S!NoOrder, SS!NoOrder, S!Editable, SS!Editable, S!NoPaper, SS!NoPaper, S!Issuing,
       SS!Issuing, S!Moving, SS!Moving, S!Billing, SS!Billing, S!Free, SS!Free, S!Busy, SS!Busy,
       S!BusyWith, SS!BusyWith, S!Slip, SS!Slip, S!Outstanding, SS!Outstanding, S!OrderCreate,
       SS!OrderCreate, S!Referenced, SS!Referenced, S!LineGoes, SS!LineGoes, S!OrderDelete,
       SS!OrderDelete, S!BeginOrderSave, SS!BeginOrderSave, S!OrderSave, SS!OrderSave,
       S!BeginIssue, SS!BeginIssue, S!AskNumber, SS!AskNumber, S!KeepNumber, SS!KeepNumber,
       S!Issue, SS!Issue, S!BeginCancel, SS!BeginCancel, S!BeginClose, SS!BeginClose, S!SetState,
       SS!SetState, S!DeliverySave, SS!DeliverySave, S!DeliveryWithdraw, SS!DeliveryWithdraw,
       S!BeginPost, SS!BeginPost, S!Move, SS!Move, S!Lands, SS!Lands, S!Written, SS!Written,
       S!RecordMove, SS!RecordMove, S!PostDelivery, SS!PostDelivery, S!Settle, SS!Settle,
       S!InvoiceSave, SS!InvoiceSave, S!BeginInvoice, SS!BeginInvoice, S!Freeze, SS!Freeze,
       S!Fits, SS!Fits, S!MarkInvoiced, SS!MarkInvoiced, S!CommitInvoice, SS!CommitInvoice,
       S!InvoiceVoid, SS!InvoiceVoid, S!Refused, SS!Refused, S!Stops, SS!Stops, S!Act, SS!Act,
       S!Next, SS!Next
  <1>4. S!TypeOK <=> SS!TypeOK
    BY Zenon DEF S!TypeOK, SS!TypeOK, S!Orders, SS!Orders, S!Papers, SS!Papers, S!InvoiceRows,
       SS!InvoiceRows, S!Requests, SS!Requests, S!Issuing, SS!Issuing, S!Moving, SS!Moving,
       S!Billing, SS!Billing, S!Claims, SS!Claims, S!Sizes, SS!Sizes, S!Slips, SS!Slips
  <1>5. /\ S!DeliveredAsGone <=> SS!DeliveredAsGone
        /\ S!InvoicedAsPosted <=> SS!InvoicedAsPosted
    BY Zenon DEF S!DeliveredAsGone, SS!DeliveredAsGone, S!InvoicedAsPosted, SS!InvoicedAsPosted,
       S!Marking, SS!Marking, S!Busy, SS!Busy, S!EverPosted, SS!EverPosted, S!SumOf, SS!SumOf,
       S!MapThenSumSet, SS!MapThenSumSet, S!MapThenFoldSet, SS!MapThenFoldSet
  <1> QED  BY <1>1, <1>2, <1>3, <1>4, <1>5

LEMMA OneInvoice ==
    /\ D!Sensible <=> DD!Sensible
    /\ D!FinitelyMany <=> DD!FinitelyMany
    /\ D!vars = DD!vars
    /\ D!Init <=> DD!Init
    /\ D!Next <=> DD!Next
    /\ D!TypeOK <=> DD!TypeOK
    /\ D!DeliveredAsGone <=> DD!DeliveredAsGone
    /\ D!InvoicedAsPosted <=> DD!InvoicedAsPosted
  <1>1. /\ D!Sensible <=> DD!Sensible
        /\ D!FinitelyMany <=> DD!FinitelyMany
        /\ D!vars = DD!vars
    BY Zenon DEF D!Sensible, DD!Sensible, D!FinitelyMany, DD!FinitelyMany, D!IsFiniteSet,
       DD!IsFiniteSet, D!vars, DD!vars
  <1>2. D!Init <=> DD!Init
    BY Zenon DEF D!Init, DD!Init, D!NoOrder, DD!NoOrder, D!NoPaper, DD!NoPaper, D!Free, DD!Free,
       D!Nothing, DD!Nothing
  <1>3. D!Next <=> DD!Next
    BY Zenon DEF D!vars, DD!vars, D!Sizes, DD!Sizes, D!Claims, DD!Claims, D!Nothing, DD!Nothing,
       D!NoOrder, DD!NoOrder, D!Editable, DD!Editable, D!NoPaper, DD!NoPaper, D!Issuing,
       DD!Issuing, D!Moving, DD!Moving, D!Billing, DD!Billing, D!Free, DD!Free, D!Busy, DD!Busy,
       D!BusyWith, DD!BusyWith, D!Slip, DD!Slip, D!Outstanding, DD!Outstanding, D!OrderCreate,
       DD!OrderCreate, D!Referenced, DD!Referenced, D!LineGoes, DD!LineGoes, D!OrderDelete,
       DD!OrderDelete, D!BeginOrderSave, DD!BeginOrderSave, D!OrderSave, DD!OrderSave,
       D!BeginIssue, DD!BeginIssue, D!AskNumber, DD!AskNumber, D!KeepNumber, DD!KeepNumber,
       D!Issue, DD!Issue, D!BeginCancel, DD!BeginCancel, D!BeginClose, DD!BeginClose, D!SetState,
       DD!SetState, D!DeliverySave, DD!DeliverySave, D!DeliveryWithdraw, DD!DeliveryWithdraw,
       D!BeginPost, DD!BeginPost, D!Move, DD!Move, D!Lands, DD!Lands, D!Written, DD!Written,
       D!RecordMove, DD!RecordMove, D!PostDelivery, DD!PostDelivery, D!Settle, DD!Settle,
       D!InvoiceSave, DD!InvoiceSave, D!BeginInvoice, DD!BeginInvoice, D!Freeze, DD!Freeze,
       D!Fits, DD!Fits, D!MarkInvoiced, DD!MarkInvoiced, D!CommitInvoice, DD!CommitInvoice,
       D!InvoiceVoid, DD!InvoiceVoid, D!Refused, DD!Refused, D!Stops, DD!Stops, D!Act, DD!Act,
       D!Next, DD!Next
  <1>4. D!TypeOK <=> DD!TypeOK
    BY Zenon DEF D!TypeOK, DD!TypeOK, D!Orders, DD!Orders, D!Papers, DD!Papers, D!InvoiceRows,
       DD!InvoiceRows, D!Requests, DD!Requests, D!Issuing, DD!Issuing, D!Moving, DD!Moving,
       D!Billing, DD!Billing, D!Claims, DD!Claims, D!Sizes, DD!Sizes, D!Slips, DD!Slips
  <1>5. /\ D!DeliveredAsGone <=> DD!DeliveredAsGone
        /\ D!InvoicedAsPosted <=> DD!InvoicedAsPosted
    BY Zenon DEF D!DeliveredAsGone, DD!DeliveredAsGone, D!InvoicedAsPosted, DD!InvoicedAsPosted,
       D!Marking, DD!Marking, D!Busy, DD!Busy, D!EverPosted, DD!EverPosted, D!SumOf, DD!SumOf,
       D!MapThenSumSet, DD!MapThenSumSet, D!MapThenFoldSet, DD!MapThenFoldSet
  <1> QED  BY <1>1, <1>2, <1>3, <1>4, <1>5

LEMMA ManyInvoices ==
    /\ I!Sensible <=> II!Sensible
    /\ I!FinitelyMany <=> II!FinitelyMany
    /\ I!vars = II!vars
    /\ I!Init <=> II!Init
    /\ I!Next <=> II!Next
    /\ I!TypeOK <=> II!TypeOK
    /\ I!DeliveredAsGone <=> II!DeliveredAsGone
    /\ I!InvoicedAsPosted <=> II!InvoicedAsPosted
  <1>1. /\ I!Sensible <=> II!Sensible
        /\ I!FinitelyMany <=> II!FinitelyMany
        /\ I!vars = II!vars
    BY Zenon DEF I!Sensible, II!Sensible, I!FinitelyMany, II!FinitelyMany, I!IsFiniteSet,
       II!IsFiniteSet, I!vars, II!vars
  <1>2. I!Init <=> II!Init
    BY Zenon DEF I!Init, II!Init, I!NoOrder, II!NoOrder, I!NoPaper, II!NoPaper, I!Free, II!Free,
       I!Nothing, II!Nothing
  <1>3. I!Next <=> II!Next
    BY Zenon DEF I!vars, II!vars, I!Sizes, II!Sizes, I!Claims, II!Claims, I!Nothing, II!Nothing,
       I!NoOrder, II!NoOrder, I!Editable, II!Editable, I!NoPaper, II!NoPaper, I!Issuing,
       II!Issuing, I!Moving, II!Moving, I!Billing, II!Billing, I!Free, II!Free, I!Busy, II!Busy,
       I!BusyWith, II!BusyWith, I!Slip, II!Slip, I!Outstanding, II!Outstanding, I!OrderCreate,
       II!OrderCreate, I!Referenced, II!Referenced, I!LineGoes, II!LineGoes, I!OrderDelete,
       II!OrderDelete, I!BeginOrderSave, II!BeginOrderSave, I!OrderSave, II!OrderSave,
       I!BeginIssue, II!BeginIssue, I!AskNumber, II!AskNumber, I!KeepNumber, II!KeepNumber,
       I!Issue, II!Issue, I!BeginCancel, II!BeginCancel, I!BeginClose, II!BeginClose, I!SetState,
       II!SetState, I!DeliverySave, II!DeliverySave, I!DeliveryWithdraw, II!DeliveryWithdraw,
       I!BeginPost, II!BeginPost, I!Move, II!Move, I!Lands, II!Lands, I!Written, II!Written,
       I!RecordMove, II!RecordMove, I!PostDelivery, II!PostDelivery, I!Settle, II!Settle,
       I!InvoiceSave, II!InvoiceSave, I!BeginInvoice, II!BeginInvoice, I!Freeze, II!Freeze,
       I!Fits, II!Fits, I!MarkInvoiced, II!MarkInvoiced, I!CommitInvoice, II!CommitInvoice,
       I!InvoiceVoid, II!InvoiceVoid, I!Refused, II!Refused, I!Stops, II!Stops, I!Act, II!Act,
       I!Next, II!Next
  <1>4. I!TypeOK <=> II!TypeOK
    BY Zenon DEF I!TypeOK, II!TypeOK, I!Orders, II!Orders, I!Papers, II!Papers, I!InvoiceRows,
       II!InvoiceRows, I!Requests, II!Requests, I!Issuing, II!Issuing, I!Moving, II!Moving,
       I!Billing, II!Billing, I!Claims, II!Claims, I!Sizes, II!Sizes, I!Slips, II!Slips
  <1>5. /\ I!DeliveredAsGone <=> II!DeliveredAsGone
        /\ I!InvoicedAsPosted <=> II!InvoicedAsPosted
    BY Zenon DEF I!DeliveredAsGone, II!DeliveredAsGone, I!InvoicedAsPosted, II!InvoicedAsPosted,
       I!Marking, II!Marking, I!Busy, II!Busy, I!EverPosted, II!EverPosted, I!SumOf, II!SumOf,
       I!MapThenSumSet, II!MapThenSumSet, I!MapThenFoldSet, II!MapThenFoldSet
  <1> QED  BY <1>1, <1>2, <1>3, <1>4, <1>5

\* Their sums are the same sums.
LEMMA SellersSum == \A f, T : DD!SumOf(f, T) = SumOf(f, T) /\ II!SumOf(f, T) = SumOf(f, T)
  BY Zenon DEF SumOf, MapThenSumSet, MapThenFoldSet, DD!SumOf, DD!MapThenSumSet,
            DD!MapThenFoldSet, II!SumOf, II!MapThenSumSet, II!MapThenFoldSet

\* What is finite to them is finite.
LEMMA SellersFinite == \A T : /\ DD!IsFiniteSet(T) => IsFiniteSet(T)
                              /\ II!IsFiniteSet(T) => IsFiniteSet(T)
  BY Zenon DEF IsFiniteSet, DD!IsFiniteSet, II!IsFiniteSet

\* Where the delivery is begun, and where it is posted and nothing is invoiced, all
\* holds that a step keeps.
LEMMA BegunHolds == BegunInit => DD!IInv
  <1> SUFFICES ASSUME BegunInit PROVE DD!IInv
    OBVIOUS
  <1> DEFINE total   == DD!SumOf(gone, Deliveries)
             paper   == [state |-> "draft", edition |-> 1, quantity |-> 1, moved |-> FALSE,
                         invoiced |-> 0, crossed |-> FALSE]
             order   == [state |-> "confirmed", number |-> 1, edition |-> 0, ordered |-> MaxQty,
                         delivered |-> total]
             nothing == [state |-> "none", lines |-> DD!Nothing, names |-> DD!Nothing]
  <1>0. DD!Sensible /\ DD!FinitelyMany
    BY OneInvoice, GoodsSensible, GoodsFinite
  <1>1. /\ MaxQty \in Nat \ {0} /\ MaxQty \in DD!Sizes /\ 0 \in DD!Sizes
        /\ 1 \in Nat /\ 1 \in DD!Sizes /\ 0 \in Nat
    BY TransfersAssumption, GoodsSensible DEF DD!Sizes
  <1>2. I!Nothing = DD!Nothing /\ I!Free = DD!Free
    BY Zenon DEF I!Nothing, DD!Nothing, I!Free, DD!Free
  <1>3. DD!Nothing \in DD!Claims /\ DD!Nothing \in [Deliveries -> Nat]
    BY <1>1 DEF DD!Nothing, DD!Claims
  <1>4. DD!Free \in DD!Requests /\ DD!Working(DD!Free)
    BY <1>1, <1>3 DEF DD!Free, DD!Requests, DD!Working, DD!Moving, DD!Billing, DD!Issuing
  <1>s. /\ delivery = [d \in Deliveries |-> paper]
        /\ gone = [d \in Deliveries |-> 0]
        /\ salesOrder = order
        /\ taken = 1
        /\ invoice = [i \in One(Invoices) |-> nothing]
        /\ seller = [c \in Clerks |-> DD!Free]
        /\ sellerSlips = {} /\ sellerStops = 0
    BY <1>2, SellersSum DEF BegunInit, OrderedInit, Paper
  <1>t. total \in Nat
    <2>1. gone \in [Deliveries -> Nat]
      BY <1>1, <1>s
    <2>2. IsFiniteSet(Deliveries)
      BY <1>0, SellersFinite DEF DD!FinitelyMany
    <2>3. SumOf(gone, Deliveries) \in Nat
      BY <2>1, <2>2, SumNat
    <2> QED  BY <2>3, SellersSum
  <1> HIDE DEF total
  <1>5. DD!TypeOK
    <2>1. order \in DD!Orders
      BY <1>1, <1>t DEF DD!Orders
    <2>2. paper \in DD!Papers
      BY <1>1 DEF DD!Papers
    <2>3. nothing \in DD!InvoiceRows
      BY <1>3 DEF DD!InvoiceRows
    <2>4. /\ delivery \in [Deliveries -> DD!Papers] /\ gone \in [Deliveries -> Nat]
          /\ invoice \in [One(Invoices) -> DD!InvoiceRows]
          /\ seller \in [Clerks -> DD!Requests]
          /\ sellerSlips \in SUBSET DD!Slips /\ sellerStops \in Nat /\ taken \in Nat
      <3> HIDE DEF paper, nothing
      <3> QED  BY <1>1, <1>4, <1>s, <2>2, <2>3
    <2>5. salesOrder \in DD!Orders
      BY <1>s, <2>1
    <2> QED  BY <2>4, <2>5 DEF DD!TypeOK
  <1>8. /\ \A c \in Clerks : seller[c] = DD!Free /\ seller[c].at = "free"
        /\ \A i \in One(Invoices) : invoice[i].state = "none"
        /\ \A d \in Deliveries : /\ delivery[d].state = "draft" /\ delivery[d].quantity = 1
                                 /\ delivery[d].moved = FALSE /\ delivery[d].edition = 1
                                 /\ delivery[d].crossed = FALSE
                                 /\ delivery[d].invoiced = 0 /\ gone[d] = 0
    BY <1>s DEF DD!Free
  <1>6. DD!TypeInv
    BY <1>4, <1>5, <1>8 DEF DD!TypeInv, DD!ClerksInv, DD!TypeOK
  <1>7. DD!Unissued /\ salesOrder.state # "none" /\ salesOrder.delivered = total
    BY <1>s DEF DD!Unissued
  <1>9. \A d \in Deliveries : DD!Story(d)
    BY <1>1, <1>8 DEF DD!Story, DD!Mover, DD!Moving
  <1> QED  BY <1>0, <1>6, <1>7, <1>8, <1>9, DD!QuietIInv DEF total

LEMMA DeliveredHolds == DeliveredInit => II!IInv
  <1> SUFFICES ASSUME DeliveredInit PROVE II!IInv
    OBVIOUS
  <1> DEFINE total   == II!SumOf(gone, Deliveries)
             paper   == [state |-> "done", edition |-> 1, quantity |-> MaxQty, moved |-> TRUE,
                         invoiced |-> 0, crossed |-> FALSE]
             order   == [state |-> "done", number |-> 1, edition |-> 0, ordered |-> MaxQty,
                         delivered |-> total]
             nothing == [state |-> "none", lines |-> II!Nothing, names |-> II!Nothing]
  <1>0. II!Sensible /\ II!FinitelyMany
    BY ManyInvoices, GoodsSensible, GoodsFinite
  <1>1. /\ MaxQty \in Nat \ {0} /\ MaxQty \in II!Sizes /\ 0 \in II!Sizes
        /\ 1 \in Nat /\ 1 \in II!Sizes /\ 0 \in Nat
    BY TransfersAssumption, GoodsSensible DEF II!Sizes
  <1>2. I!Nothing = II!Nothing /\ I!Free = II!Free
    BY Zenon DEF I!Nothing, II!Nothing, I!Free, II!Free
  <1>3. II!Nothing \in II!Claims /\ II!Nothing \in [Deliveries -> Nat]
    BY <1>1 DEF II!Nothing, II!Claims
  <1>4. II!Free \in II!Requests /\ II!Working(II!Free)
    BY <1>1, <1>3 DEF II!Free, II!Requests, II!Working, II!Moving, II!Billing, II!Issuing
  <1>s. /\ delivery = [d \in Deliveries |-> paper]
        /\ gone = [d \in Deliveries |-> MaxQty]
        /\ salesOrder = order
        /\ taken = 1
        /\ invoice = [i \in Invoices |-> nothing]
        /\ seller = [c \in Clerks |-> II!Free]
        /\ sellerSlips = {} /\ sellerStops = 0
    BY <1>2, SellersSum DEF DeliveredInit, OrderedInit, Paper
  <1>t. total \in Nat
    <2>1. gone \in [Deliveries -> Nat]
      BY <1>1, <1>s
    <2>2. IsFiniteSet(Deliveries)
      BY <1>0, SellersFinite DEF II!FinitelyMany
    <2>3. SumOf(gone, Deliveries) \in Nat
      BY <2>1, <2>2, SumNat
    <2> QED  BY <2>3, SellersSum
  <1> HIDE DEF total
  <1>5. II!TypeOK
    <2>1. order \in II!Orders
      BY <1>1, <1>t DEF II!Orders
    <2>2. paper \in II!Papers
      BY <1>1 DEF II!Papers
    <2>3. nothing \in II!InvoiceRows
      BY <1>3 DEF II!InvoiceRows
    <2>4. /\ delivery \in [Deliveries -> II!Papers] /\ gone \in [Deliveries -> Nat]
          /\ invoice \in [Invoices -> II!InvoiceRows]
          /\ seller \in [Clerks -> II!Requests]
          /\ sellerSlips \in SUBSET II!Slips /\ sellerStops \in Nat /\ taken \in Nat
      <3> HIDE DEF paper, nothing
      <3> QED  BY <1>1, <1>4, <1>s, <2>2, <2>3
    <2>5. salesOrder \in II!Orders
      BY <1>s, <2>1
    <2> QED  BY <2>4, <2>5 DEF II!TypeOK
  <1>8. /\ \A c \in Clerks : seller[c] = II!Free /\ seller[c].at = "free"
        /\ \A i \in Invoices : invoice[i].state = "none"
        /\ \A d \in Deliveries : /\ delivery[d].state = "done" /\ delivery[d].quantity = MaxQty
                                 /\ delivery[d].moved = TRUE /\ delivery[d].edition = 1
                                 /\ delivery[d].crossed = FALSE
                                 /\ delivery[d].invoiced = 0 /\ gone[d] = MaxQty
    BY <1>s DEF II!Free
  <1>6. II!TypeInv
    BY <1>4, <1>5, <1>8 DEF II!TypeInv, II!ClerksInv, II!TypeOK
  <1>7. II!Unissued /\ salesOrder.state # "none" /\ salesOrder.delivered = total
    BY <1>s DEF II!Unissued
  <1>9. \A d \in Deliveries : II!Story(d)
    BY <1>1, <1>8 DEF II!Story, II!Mover, II!Moving
  <1> QED  BY <1>0, <1>6, <1>7, <1>8, <1>9, II!QuietIInv DEF total

\* A behaviour of the whole is one of transfers and one of bills: a step of
\* other work leaves both as they are.
LEMMA EachPartRuns == MCSpec => Spec /\ B!Spec
  <1>1. MCInit => Init /\ B!Init
    BY DEF MCInit
  <1>2. [MCNext]_<<vars, buying, billing, selling, work>> => [Next]_vars /\ [B!Next]_B!vars
    <2>1. billing = B!vars /\ billing' = B!vars'
      BY DEF billing, B!vars
    <2> QED  BY <2>1 DEF MCNext
  <1> QED  BY <1>1, <1>2, PTL DEF MCSpec, Spec, B!Spec

\* The invariant of the work that is done.
OrdersInv ==
    /\ work = "receipts" => PP!WholeInv
    /\ work = "changes" => RR!WholeInv
    /\ work = "resaves" => QQ!WholeInv
    /\ work = "sales" => SS!IInv
    /\ work = "rewrites" => DD!IInv
    /\ work = "invoices" => II!IInv

LEMMA InitOrdersInv == MCInit => OrdersInv
  <1> SUFFICES ASSUME MCInit PROVE OrdersInv
    OBVIOUS
  <1>1. ASSUME work = "receipts" PROVE PP!WholeInv
    <2>1. P!Init
      BY <1>1 DEF MCInit
    <2> QED  BY <2>1, ManyReceipts, GoodsSensible, GoodsFinite, PP!InitWhole
  <1>2. ASSUME work = "changes" PROVE RR!WholeInv
    <2>1. R!Init
      BY <1>2 DEF MCInit
    <2> QED  BY <2>1, ChangedReceipts, GoodsSensible, GoodsFinite, RR!InitWhole
  <1>3. ASSUME work = "resaves" PROVE QQ!WholeInv
    <2>1. Q!Init
      BY <1>3 DEF MCInit
    <2> QED  BY <2>1, SavedAgain, GoodsSensible, GoodsFinite, QQ!InitWhole
  <1>4. ASSUME work = "sales" PROVE SS!IInv
    <2>1. S!Init
      BY <1>4 DEF MCInit
    <2> QED  BY <2>1, NoInvoice, GoodsSensible, GoodsFinite, SS!InitIInv
  <1>5. ASSUME work = "rewrites" PROVE DD!IInv
    BY <1>5, BegunHolds DEF MCInit
  <1>6. ASSUME work = "invoices" PROVE II!IInv
    BY <1>6, DeliveredHolds DEF MCInit
  <1> QED  BY <1>1, <1>2, <1>3, <1>4, <1>5, <1>6 DEF OrdersInv

\* What a step of the whole is to the work that is done.
AboutPurchases == {"receipts", "changes", "resaves"}
AboutSales     == {"sales", "rewrites", "invoices"}

LEMMA StepOfWork ==
    ASSUME [MCNext]_<<vars, buying, billing, selling, work>>
    PROVE  /\ UNCHANGED work
           /\ work = "receipts" => [PP!Next]_PP!vars
           /\ work = "changes" => [RR!Next]_RR!vars
           /\ work = "resaves" => [QQ!Next]_QQ!vars
           /\ work = "sales" => [SS!Next]_SS!vars
           /\ work = "rewrites" => [DD!Next]_DD!vars
           /\ work = "invoices" => [II!Next]_II!vars
           /\ work \notin AboutPurchases => UNCHANGED PP!vars
           /\ work \notin AboutSales => UNCHANGED SS!vars
  <1> USE DEF AboutPurchases, AboutSales
  <1>1. /\ PP!vars = buying /\ PP!vars' = buying'
        /\ RR!vars = buying /\ RR!vars' = buying'
        /\ QQ!vars = buying /\ QQ!vars' = buying'
    BY DEF buying, PP!vars, RR!vars, QQ!vars
  <1>2. /\ SS!vars = selling /\ SS!vars' = selling'
        /\ DD!vars = selling /\ DD!vars' = selling'
        /\ II!vars = selling /\ II!vars' = selling'
    BY DEF selling, SS!vars, DD!vars, II!vars
  <1>3. CASE UNCHANGED <<vars, buying, billing, selling, work>>
    BY <1>1, <1>2, <1>3
  <1>4. CASE MCNext
    <2>1. /\ work = "receipts" => PP!Next
          /\ work = "changes" => RR!Next
          /\ work = "resaves" => QQ!Next
      BY <1>4, ManyReceipts, ChangedReceipts, SavedAgain DEF MCNext
    <2>2. /\ work = "sales" => SS!Next
          /\ work = "rewrites" => DD!Next
          /\ work = "invoices" => II!Next
      BY <1>4, NoInvoice, OneInvoice, ManyInvoices DEF MCNext
    <2>3. /\ UNCHANGED work
          /\ work \notin AboutPurchases => UNCHANGED buying
          /\ work \notin AboutSales => UNCHANGED selling
      BY <1>4 DEF MCNext
    <2> QED  BY <1>1, <1>2, <2>1, <2>2, <2>3
  <1> QED  BY <1>3, <1>4

LEMMA NextOrdersInv == OrdersInv /\ [MCNext]_<<vars, buying, billing, selling, work>> => OrdersInv'
  <1> SUFFICES ASSUME OrdersInv, [MCNext]_<<vars, buying, billing, selling, work>>
               PROVE  OrdersInv'
    OBVIOUS
  <1>1. work = "receipts" => PP!WholeInv'
    BY StepOfWork, ManyReceipts, GoodsSensible, GoodsFinite, PP!NextWhole DEF OrdersInv
  <1>2. work = "changes" => RR!WholeInv'
    BY StepOfWork, ChangedReceipts, GoodsSensible, GoodsFinite, RR!NextWhole DEF OrdersInv
  <1>3. work = "resaves" => QQ!WholeInv'
    BY StepOfWork, SavedAgain, GoodsSensible, GoodsFinite, QQ!NextWhole DEF OrdersInv
  <1>4. work = "sales" => SS!IInv'
    BY StepOfWork, NoInvoice, GoodsSensible, GoodsFinite, SS!StepIInv DEF OrdersInv
  <1>5. work = "rewrites" => DD!IInv'
    BY StepOfWork, OneInvoice, GoodsSensible, GoodsFinite, DD!StepIInv DEF OrdersInv
  <1>6. work = "invoices" => II!IInv'
    BY StepOfWork, ManyInvoices, GoodsSensible, GoodsFinite, II!StepIInv DEF OrdersInv
  <1> QED  BY <1>1, <1>2, <1>3, <1>4, <1>5, <1>6, StepOfWork DEF OrdersInv

LEMMA OrdersInvariance == MCSpec => []OrdersInv
  BY InitOrdersInv, NextOrdersInv, PTL DEF MCSpec

\* What it comes to.
LEMMA OrdersMean ==
    ASSUME OrdersInv
    PROVE  /\ Bought(P!TypeOK, R!TypeOK, Q!TypeOK)
           /\ work = "sales" => S!TypeOK
           /\ Sold(D!TypeOK, I!TypeOK)
           /\ ReceivedAsMoved /\ PostedMovedOnce /\ OrderCloses
           /\ DeliveredAsGone /\ InvoicedAsPosted
  <1>1. ASSUME work = "receipts"
        PROVE  P!TypeOK /\ P!ReceivedAsMoved /\ P!PostedMovedOnce /\ P!OrderCloses
    BY <1>1, ManyReceipts, GoodsFinite, PP!WholeMeans DEF OrdersInv
  <1>2. ASSUME work = "changes"
        PROVE  R!TypeOK /\ R!ReceivedAsMoved /\ R!PostedMovedOnce /\ R!OrderCloses
    BY <1>2, ChangedReceipts, GoodsFinite, RR!WholeMeans DEF OrdersInv
  <1>3. ASSUME work = "resaves"
        PROVE  Q!TypeOK /\ Q!ReceivedAsMoved /\ Q!PostedMovedOnce /\ Q!OrderCloses
    BY <1>3, SavedAgain, GoodsFinite, QQ!WholeMeans DEF OrdersInv
  <1>4. ASSUME work = "sales" PROVE S!TypeOK /\ S!DeliveredAsGone
    <2>1. SS!IInv /\ SS!FinitelyMany
      BY <1>4, NoInvoice, GoodsFinite DEF OrdersInv
    <2>2. SS!TypeOK /\ SS!DeliveredAsGone
      BY <2>1, SS!TalliedMeans DEF SS!IInv, SS!TypeInv
    <2> QED  BY <2>2, NoInvoice
  <1>5. ASSUME work = "rewrites" PROVE D!TypeOK /\ D!DeliveredAsGone /\ D!InvoicedAsPosted
    <2>1. DD!IInv /\ DD!Sensible /\ DD!FinitelyMany
      BY <1>5, OneInvoice, GoodsSensible, GoodsFinite DEF OrdersInv
    <2>2. DD!TypeOK /\ DD!DeliveredAsGone /\ DD!InvoicedAsPosted
      BY <2>1, DD!CountedMeans, DD!TalliedMeans DEF DD!IInv, DD!TypeInv
    <2> QED  BY <2>2, OneInvoice
  <1>6. ASSUME work = "invoices" PROVE I!TypeOK /\ I!InvoicedAsPosted
    <2>1. II!IInv /\ II!Sensible /\ II!FinitelyMany
      BY <1>6, ManyInvoices, GoodsSensible, GoodsFinite DEF OrdersInv
    <2>2. II!TypeOK /\ II!InvoicedAsPosted
      BY <2>1, II!CountedMeans DEF II!IInv, II!TypeInv
    <2> QED  BY <2>2, ManyInvoices
  <1> QED  BY <1>1, <1>2, <1>3, <1>4, <1>5, <1>6
           DEF Bought, Sold, ReceivedAsMoved, PostedMovedOnce, OrderCloses, DeliveredAsGone,
               InvoicedAsPosted

\* TypesOK: whichever work is done, what it is about keeps its shape.
THEOREM AllTyped == MCSpec => []TypesOK
  <1>1. OrdersInv /\ TypeOK /\ B!TypeOK => TypesOK
    BY OrdersMean DEF TypesOK
  <1>2. B!Spec => []B!TypeOK
    BY GoodsSensible, BillingTypeCorrect
  <1> QED  BY <1>1, <1>2, OrdersInvariance, EachPartRuns, TransferTypeCorrect, PTL

\* Transfers, among the other work: the shelves and the document agree
\* (TransitAsRecorded) and nothing stays on the road (DoneMeansArrived).
THEOREM TransfersSound == MCSpec => [](TransitAsRecorded /\ DoneMeansArrived)
  BY EachPartRuns, ShelvesAgree, NothingOnTheRoad, PTL

\* Orders and their receipts, of one line and of two, changed or not, before the
\* order is confirmed or after: what arrived is counted (ReceivedAsMoved), once
\* (PostedMovedOnce), and closes the order when no receipt was posted before its
\* confirmation (OrderCloses).
THEOREM ReceiptsSound == MCSpec => [](ReceivedAsMoved /\ PostedMovedOnce /\ OrderCloses)
  <1>1. OrdersInv => ReceivedAsMoved /\ PostedMovedOnce /\ OrderCloses
    BY OrdersMean
  <1> QED  BY <1>1, OrdersInvariance, PTL

\* Bills: what was billed is what the posted bills claim (BilledAsPosted), and
\* the ledger holds one journal for each (PostedIsBooked).
THEOREM BillsSound == MCSpec => [](BilledAsPosted /\ PostedIsBooked)
  <1>1. B!BilledAsPosted /\ B!PostedIsBooked => BilledAsPosted /\ PostedIsBooked
    BY DEF BilledAsPosted, PostedIsBooked
  <1>2. B!Spec => [](B!BilledAsPosted /\ B!PostedIsBooked)
    BY GoodsSensible, GoodsFinite, BilledIsClaimed, OneJournalEach, PTL
  <1> QED  BY <1>1, <1>2, EachPartRuns, PTL

\* Sales: the order has counted what left (DeliveredAsGone), and a delivery is
\* invoiced for what its invoices claim and, unless a saving crossed its post, for
\* no more than left (InvoicedAsPosted); from the beginning of an order, from a
\* delivery begun and from one posted.
THEOREM SalesSound == MCSpec => [](DeliveredAsGone /\ InvoicedAsPosted)
  <1>1. OrdersInv => DeliveredAsGone /\ InvoicedAsPosted
    BY OrdersMean
  <1> QED  BY <1>1, OrdersInvariance, PTL

\* ConfirmedStays and OneNumber: no step takes a confirmation back, rewrites the
\* lines of a confirmed order, or gives an order that has a number another.
THEOREM OrdersStand == MCSpec => ConfirmedStays /\ OneNumber
  <1> DEFINE Stand == [purchaseOrder.state \in P!Numbered =>
                         /\ purchaseOrder'.state \notin P!Editable \cup {"none", "gone"}
                         /\ purchaseOrder'.ordered = purchaseOrder.ordered]_P!vars
             Keep  == [salesOrder.number # 0 => /\ salesOrder'.number = salesOrder.number
                                                /\ taken' # taken => "asked" \in sellerSlips]_S!vars
  <1>1. ASSUME OrdersInv, [MCNext]_<<vars, buying, billing, selling, work>>
        PROVE  Stand
    <2>0. P!vars = buying /\ PP!vars = buying /\ RR!vars = buying /\ QQ!vars = buying
      BY DEF P!vars, PP!vars, RR!vars, QQ!vars, buying
    <2>1. ASSUME purchaseOrder.state \in P!Numbered => /\ purchaseOrder'.state \in P!Numbered
                                                       /\ purchaseOrder'.ordered = purchaseOrder.ordered
          PROVE  Stand
      BY <2>1 DEF P!Numbered, P!Editable
    <2>2. CASE work = "receipts"
      <3>1. [PP!Next]_PP!vars /\ PP!TypeInv
        BY <1>1, <2>2, StepOfWork
           DEF OrdersInv, PP!WholeInv, PP!OrderIInv, PP!IInv
      <3> QED  BY <2>1, <3>1, PP!StepCommits DEF P!Numbered, PP!Numbered
    <2>3. CASE work = "changes"
      <3>1. [RR!Next]_RR!vars /\ RR!TypeInv
        BY <1>1, <2>3, StepOfWork
           DEF OrdersInv, RR!WholeInv, RR!OrderIInv, RR!IInv
      <3> QED  BY <2>1, <3>1, RR!StepCommits DEF P!Numbered, RR!Numbered
    <2>4. CASE work = "resaves"
      <3>1. [QQ!Next]_QQ!vars /\ QQ!TypeInv
        BY <1>1, <2>4, StepOfWork
           DEF OrdersInv, QQ!WholeInv, QQ!OrderIInv, QQ!IInv
      <3> QED  BY <2>1, <3>1, QQ!StepCommits DEF P!Numbered, QQ!Numbered
    <2>5. CASE work \notin AboutPurchases
      <3>1. UNCHANGED P!vars
        BY <1>1, <2>5, StepOfWork DEF P!vars, PP!vars
      <3> QED  BY <3>1
    <2> QED  BY <2>2, <2>3, <2>4, <2>5 DEF AboutPurchases
  <1>2. ASSUME OrdersInv, [MCNext]_<<vars, buying, billing, selling, work>>
        PROVE  Keep
    <2>1. CASE work = "sales"
      <3>1. [SS!Next]_SS!vars /\ SS!TypeInv /\ SS!Unissued /\ SS!OneAsks
        BY <1>2, <2>1, StepOfWork DEF OrdersInv, SS!IInv
      <3> QED  BY <3>1, SS!StepKeepsNumber
    <2>2. CASE work = "rewrites"
      <3>1. [DD!Next]_DD!vars /\ DD!TypeInv /\ DD!Unissued /\ DD!OneAsks
        BY <1>2, <2>2, StepOfWork DEF OrdersInv, DD!IInv
      <3> QED  BY <3>1, DD!StepKeepsNumber
    <2>3. CASE work = "invoices"
      <3>1. [II!Next]_II!vars /\ II!TypeInv /\ II!Unissued /\ II!OneAsks
        BY <1>2, <2>3, StepOfWork DEF OrdersInv, II!IInv
      <3> QED  BY <3>1, II!StepKeepsNumber
    <2>4. CASE work \notin AboutSales
      <3>1. UNCHANGED S!vars
        BY <1>2, <2>4, StepOfWork DEF S!vars, SS!vars
      <3> QED  BY <3>1
    <2> QED  BY <2>1, <2>2, <2>3, <2>4 DEF AboutSales
  <1>3. OrdersInv /\ [MCNext]_<<vars, buying, billing, selling, work>> => Stand /\ Keep
    BY <1>1, <1>2
  <1> QED  BY <1>3, OrdersInvariance, PTL
           DEF MCSpec, ConfirmedStays, OneNumber, P!ConfirmedStays, S!OneNumber
=============================================================================
