-------------------------- MODULE ReplicationProofs --------------------------
(***************************************************************************)
(* Proofs about the logs of Raft: log matching and what a leader holds of  *)
(* its own term, for every number of nodes, every schedule of messages and *)
(* every pattern of restarts.                                              *)
(*                                                                         *)
(* The invariant cannot speak of the logs alone: an AppendEntries that is  *)
(* still in flight, sent in whatever earlier term, may be stored at any    *)
(* time.  So it speaks of pieces of log, which are the logs of the nodes   *)
(* and the requests that carry entries, all alike.                         *)
(***************************************************************************)
EXTENDS RaftProofs

\* A log as a piece of log that starts before the first entry; an AppendEntries
\* has the same three fields.
Whole(l) == [prev_index |-> 0, prev_term |-> 0, entries |-> l]
Carriers == {m \in msgs : m.type = "AppendEntries" /\ m.entries # <<>>}
Pieces == {Whole(log[i]) : i \in Node} \cup Carriers

Piece(p) == p.prev_index \in Nat /\ p.prev_term \in Nat /\ p.entries \in Seq(Entry)
First(p) == p.prev_index
Last(p) == p.prev_index + Len(p.entries)
Span(p) == First(p) .. Last(p)
At(p, k) == p.entries[k - p.prev_index]
TermIn(p, k) == IF k = p.prev_index THEN p.prev_term ELSE At(p, k).term

\* Pieces p and q say the same of index n: the term, and the entry if both have it.
SameAt(p, q, n) ==
  /\ TermIn(p, n) = TermIn(q, n)
  /\ First(p) < n /\ First(q) < n => At(p, n) = At(q, n)

\* Where p and q have the same term, they are the same down to where the later
\* of the two starts.
Agree(p, q) ==
  \A k \in Span(p) \cap Span(q) : TermIn(p, k) = TermIn(q, k) =>
    \A n \in Span(p) \cap Span(q) : n <= k => SameAt(p, q, n)

\* Piece p is cut out of w.
CutFrom(p, w) == Span(p) \subseteq Span(w) /\ \A n \in Span(p) : SameAt(p, w, n)
-----------------------------------------------------------------------------
(***************************************************************************)
(* Pieces of log.                                                          *)
(***************************************************************************)
\* The bounds of a piece are indexes, and it has terms and entries between them.
LEMMA PieceType ==
  ASSUME NEW p, Piece(p)
  PROVE  /\ First(p) \in Nat /\ Last(p) \in Nat /\ First(p) <= Last(p)
         /\ \A n \in Span(p) : n \in Nat /\ TermIn(p, n) \in Nat
         /\ \A n \in Span(p) : First(p) < n => At(p, n) \in Entry /\ TermIn(p, n) = At(p, n).term
<1>1. First(p) \in Nat /\ Len(p.entries) \in Nat
  BY DEF Piece, First
<1>2. ASSUME NEW n \in Span(p), First(p) < n
      PROVE  At(p, n) \in Entry /\ TermIn(p, n) = At(p, n).term
  <2>1. n - p.prev_index \in 1 .. Len(p.entries) /\ n # p.prev_index
    BY <1>1, <1>2 DEF Span, First, Last
  <2> QED
    BY <2>1 DEF Piece, At, TermIn
<1>3. ASSUME NEW n \in Span(p) PROVE n \in Nat /\ TermIn(p, n) \in Nat
  <2>1. n \in Nat /\ First(p) <= n
    BY <1>1 DEF Span, First, Last
  <2>2. CASE First(p) < n
    <3>1. At(p, n).term \in Nat
      BY <1>2, <2>2 DEF Entry
    <3> QED
      BY <1>2, <2>1, <2>2, <3>1
  <2>3. CASE n = First(p)
    BY <2>1, <2>3 DEF TermIn, First, Piece
  <2> QED
    BY <1>1, <2>1, <2>2, <2>3
<1> QED
  BY <1>1, <1>2, <1>3 DEF First, Last

\* What a whole log is as a piece.
LEMMA WholeType ==
  ASSUME NEW l \in Seq(Entry)
  PROVE  /\ Piece(Whole(l)) /\ First(Whole(l)) = 0 /\ Last(Whole(l)) = Len(l)
         /\ Span(Whole(l)) = 0 .. Len(l) /\ TermIn(Whole(l), 0) = 0
         /\ \A n \in 1 .. Len(l) :
              At(Whole(l), n) = l[n] /\ TermIn(Whole(l), n) = l[n].term
  BY DEF Whole, Piece, First, Last, Span, At, TermIn

\* Agreement goes both ways, and every piece agrees with itself.
LEMMA AgreeSymmetric ==
  ASSUME NEW p, NEW q, Agree(p, q)
  PROVE  Agree(q, p)
  BY DEF Agree, SameAt

\* Every piece agrees with itself.
LEMMA AgreeReflexive ==
  ASSUME NEW p
  PROVE  Agree(p, p)
  BY DEF Agree, SameAt

\* A piece cut from one that agrees with q agrees with q.
LEMMA CutAgrees ==
  ASSUME NEW p, Piece(p), NEW w, Piece(w), NEW q, Piece(q), CutFrom(p, w), Agree(w, q)
  PROVE  Agree(p, q)
<1> SUFFICES ASSUME NEW k \in Span(p) \cap Span(q), TermIn(p, k) = TermIn(q, k),
                    NEW n \in Span(p) \cap Span(q), n <= k
             PROVE  SameAt(p, q, n)
  BY DEF Agree
<1>1. k \in Span(w) /\ n \in Span(w) /\ SameAt(p, w, k) /\ SameAt(p, w, n)
  BY DEF CutFrom
<1>2. SameAt(w, q, n)
  BY <1>1 DEF Agree, SameAt
<1>3. First(w) <= First(p) /\ First(p) \in Nat /\ First(w) \in Nat /\ n \in Nat
  <2>1. First(p) \in Span(p)
    BY PieceType DEF Span
  <2>2. First(p) \in Span(w)
    BY <2>1 DEF CutFrom
  <2> QED
    BY <2>2, PieceType DEF Span
<1> QED
  BY <1>1, <1>2, <1>3 DEF SameAt

\* Cutting twice is cutting once.
LEMMA CutTwice ==
  ASSUME NEW p, Piece(p), NEW v, Piece(v), NEW w, Piece(w), CutFrom(p, v), CutFrom(v, w)
  PROVE  CutFrom(p, w)
<1>1. First(p) \in Span(v) /\ First(p) \in Nat /\ First(v) \in Nat
  <2>1. First(p) \in Span(p)
    BY PieceType DEF Span
  <2> QED
    BY <2>1, PieceType DEF CutFrom
<1>2. First(v) <= First(p)
  BY <1>1, PieceType DEF Span
<1>3. ASSUME NEW n \in Span(p) PROVE n \in Span(w) /\ SameAt(p, w, n)
  <2>1. n \in Nat /\ n \in Span(v) /\ SameAt(p, v, n) /\ n \in Span(w) /\ SameAt(v, w, n)
    BY PieceType DEF CutFrom
  <2> QED
    BY <1>1, <1>2, <2>1 DEF SameAt
<1> QED
  BY <1>3 DEF CutFrom

\* A prefix is cut from the log.
LEMMA PrefixIsCut ==
  ASSUME NEW l \in Seq(Entry), NEW s \in Seq(Entry), Len(l) <= Len(s),
         \A n \in 1 .. Len(l) : l[n] = s[n]
  PROVE  CutFrom(Whole(l), Whole(s))
<1>1. Len(l) \in Nat /\ Len(s) \in Nat
  OBVIOUS
<1>2. Span(Whole(l)) = 0 .. Len(l) /\ Span(Whole(s)) = 0 .. Len(s)
  BY WholeType
<1>3. ASSUME NEW n \in 0 .. Len(l) PROVE SameAt(Whole(l), Whole(s), n)
  <2>1. CASE n = 0
    BY <2>1, WholeType DEF SameAt
  <2>2. CASE n \in 1 .. Len(l)
    <3>1. n \in 1 .. Len(s)
      BY <1>1, <2>2
    <3> QED
      BY <2>2, <3>1, WholeType DEF SameAt
  <2> QED
    BY <2>1, <2>2
<1> QED
  BY <1>1, <1>2, <1>3 DEF CutFrom

\* The entries that a heartbeat carries, with the point before them, are cut from
\* the sender's log.
LEMMA HeartbeatIsCut ==
  ASSUME NEW i \in Node, NEW t \in Nat, NEW l \in Seq(Entry), NEW c \in Nat,
         NEW next \in [Node -> Nat], NEW m \in Heartbeats(i, t, l, c, next),
         m.entries # <<>>
  PROVE  Piece(m) /\ CutFrom(m, Whole(l))
<1>1. PICK j \in Node \ {i} : next[j] > 0 /\ m = [type |-> "AppendEntries", term |-> t,
    from |-> i, to |-> j,
    prev_index |-> next[j] - 1, prev_term |-> TermAt(l, next[j] - 1),
    entries |-> SubSeq(l, next[j], Least(Len(l), next[j] + MaxEntries - 1)),
    leader_commit |-> c]
  BY DEF Heartbeats
<1> DEFINE a == next[j]
           b == Least(Len(l), a + MaxEntries - 1)
           es == SubSeq(l, a, b)
<1>2. m.prev_index = a - 1 /\ m.prev_term = TermAt(l, a - 1) /\ m.entries = es
  BY <1>1
<1>3. a \in Nat /\ a > 0 /\ Len(l) \in Nat /\ b \in Int /\ b <= Len(l)
  BY <1>1, ConfigAssumption DEF Least
<1>4. m \in AppendEntriesMsg
  BY HeartbeatsType
<1>5. Piece(m)
  BY <1>4 DEF AppendEntriesMsg, Piece
<1> HIDE DEF a, b
<1>6. a <= b
  <2>1. ASSUME ~(a <= b) PROVE es = <<>>
    BY <1>3, <2>1, SubSeqProperties
  <2> QED
    BY <1>2, <2>1
<1>7. Len(es) = b - a + 1 /\ \A n \in 1 .. b - a + 1 : es[n] = l[a + n - 1]
  BY <1>3, <1>6, SubSeqProperties
<1>8. First(m) = a - 1 /\ Last(m) = b
  BY <1>2, <1>3, <1>7 DEF First, Last
<1>9. Span(m) = a - 1 .. b /\ Span(Whole(l)) = 0 .. Len(l) /\ First(Whole(l)) = 0
  BY <1>8, WholeType DEF Span
<1>10. ASSUME NEW n \in a - 1 .. b PROVE SameAt(m, Whole(l), n)
  <2>1. n \in 0 .. Len(l)
    BY <1>3, <1>6
  <2>2. CASE n = a - 1
    <3>1. TermIn(m, n) = TermAt(l, n)
      BY <1>2, <2>2 DEF TermIn
    <3>2. TermAt(l, n) = TermIn(Whole(l), n)
      BY <2>1, WholeType DEF TermAt
    <3> QED
      BY <1>3, <1>8, <2>2, <3>1, <3>2 DEF SameAt
  <2>3. CASE n \in a .. b
    <3>1. n - (a - 1) \in 1 .. b - a + 1 /\ a + (n - (a - 1)) - 1 = n /\ n # a - 1
      BY <1>3, <2>3
    <3>2. es[n - (a - 1)] = l[n]
      BY <1>7, <3>1
    <3>3. At(m, n) = l[n] /\ TermIn(m, n) = l[n].term
      BY <1>2, <3>1, <3>2 DEF At, TermIn
    <3>4. n \in 1 .. Len(l)
      BY <1>3, <2>3
    <3> QED
      BY <3>3, <3>4, WholeType DEF SameAt
  <2> QED
    BY <1>3, <2>2, <2>3
<1>11. a - 1 .. b \subseteq 0 .. Len(l)
  BY <1>3
<1> QED
  BY <1>5, <1>9, <1>10, <1>11 DEF CutFrom
-----------------------------------------------------------------------------
(***************************************************************************)
(* The inductive invariant.                                                *)
(***************************************************************************)
PiecesAgree == \A p, q \in Pieces : Agree(p, q)

\* The point before the first entry of a log has term 0, in a request as in a log.
StartsAtZero == \A p \in Pieces : First(p) = 0 => TermIn(p, 0) = 0

\* Entries are made in terms somebody was elected in.
ElectedIn(t) == \E e \in elections : e.term = t
TermsElected == \A p \in Pieces : \A k \in Span(p) : k > 0 => ElectedIn(TermIn(p, k))

\* What piece p has of node i's term, i has.
Holds(i, p) ==
  \A k \in Span(p) : k > 0 /\ TermIn(p, k) = current_term[i] =>
    k \in 1 .. Len(log[i]) /\ log[i][k].term = current_term[i]
LeadersHold == \A i \in Node : state[i] = Leader => \A p \in Pieces : Holds(i, p)

CandidatesUnelected == \A i \in Node : state[i] = Candidate => ~Elected(i, current_term[i])

PiecesInv == PiecesAgree /\ StartsAtZero /\ TermsElected /\ LeadersHold
LogInv == PiecesInv /\ CandidatesUnelected

\* Requests and logs of their types are pieces.
LEMMA TypedPieces ==
  ASSUME NEW ms \in SUBSET Message, NEW ls \in [Node -> Seq(Entry)],
         NEW p \in {Whole(ls[i]) : i \in Node}
                     \cup {m \in ms : m.type = "AppendEntries" /\ m.entries # <<>>}
  PROVE  Piece(p)
<1>1. CASE p \in ms /\ p.type = "AppendEntries"
  <2>1. p \in AppendEntriesMsg
    BY <1>1 DEF Message, RequestVoteMsg, VoteReplyMsg, AppendEntriesMsg, AppendReplyMsg
  <2> QED
    BY <2>1 DEF AppendEntriesMsg, Piece
<1>2. CASE \E i \in Node : p = Whole(ls[i])
  BY <1>2, WholeType
<1> QED
  BY <1>1, <1>2

\* Every piece of a well typed cluster is one, before and after a step.
LEMMA PiecesType ==
  /\ TypeOK => \A p \in Pieces : Piece(p)
  /\ TypeOK' => \A p \in Pieces' : Piece(p)
  BY TypedPieces DEF TypeOK, Pieces, Carriers

\* The logs are pieces.
LEMMA LogIsPiece ==
  ASSUME NEW i \in Node
  PROVE  Whole(log[i]) \in Pieces
  BY DEF Pieces

LEMMA LogTyped ==
  ASSUME TypeOK, NEW i \in Node
  PROVE  log[i] \in Seq(Entry) /\ Len(log[i]) \in Nat /\ DOMAIN log[i] = 1 .. Len(log[i])
<1>1. log[i] \in Seq(Entry)
  BY DEF TypeOK
<1> QED
  BY <1>1

\* One step adds one piece w, and what is cut from it: if w agrees with all that
\* was there and leaders hold what it has of their term, the invariant is kept.
LEMMA PiecesStep ==
  ASSUME TypeOK, TypeOK', PiecesInv,
         NEW l \in Seq(Entry), \A q \in Pieces : Agree(Whole(l), q),
         \A p \in Pieces' : p \in Pieces \/ CutFrom(p, Whole(l)),
         elections \subseteq elections',
         \A k \in 1 .. Len(l) : ElectedIn(l[k].term)',
         \A i \in Node : state'[i] = Leader =>
            Holds(i, Whole(l))' /\ \A q \in Pieces : Holds(i, q)'
  PROVE  PiecesInv'
<1> DEFINE w == Whole(l)
<1>1. /\ Piece(w) /\ First(w) = 0 /\ TermIn(w, 0) = 0 /\ Span(w) = 0 .. Len(l)
      /\ \A k \in 1 .. Len(l) : TermIn(w, k) = l[k].term
  BY WholeType
<1>2. \A p \in Pieces' : Piece(p)
  BY PiecesType
<1>3. \A p \in Pieces : Piece(p)
  BY PiecesType
<1> HIDE DEF w
<1>4. PiecesAgree'
  <2>1. \A p, q \in Pieces : Agree(p, q)
    BY DEF PiecesInv, PiecesAgree
  <2>2. ASSUME NEW p \in Pieces' PROVE Agree(w, p)
    <3>1. CASE p \in Pieces
      BY <3>1 DEF w
    <3>2. CASE CutFrom(p, w)
      <4>1. Agree(p, w)
        BY <1>1, <1>2, <3>2, AgreeReflexive, CutAgrees
      <4> QED
        BY <4>1, AgreeSymmetric
    <3> QED
      BY <3>1, <3>2 DEF w
  <2>3. ASSUME NEW p \in Pieces', NEW q \in Pieces' PROVE Agree(p, q)
    <3>1. CASE p \in Pieces /\ q \in Pieces
      BY <2>1, <3>1
    <3>2. CASE CutFrom(p, w)
      BY <1>1, <1>2, <2>2, <3>2, CutAgrees
    <3>3. CASE CutFrom(q, w)
      <4>1. Agree(q, p)
        BY <1>1, <1>2, <2>2, <3>3, CutAgrees
      <4> QED
        BY <4>1, AgreeSymmetric
    <3> QED
      BY <3>1, <3>2, <3>3 DEF w
  <2> QED
    BY <2>3 DEF PiecesAgree
<1>5. ASSUME NEW p \in Pieces', CutFrom(p, w), NEW k \in Span(p)
      PROVE  k \in 0 .. Len(l) /\ TermIn(p, k) = TermIn(w, k) /\ k \in Nat
  BY <1>1, <1>2, <1>5, PieceType DEF CutFrom, SameAt
<1>6. StartsAtZero'
  <2> SUFFICES ASSUME NEW p \in Pieces', First(p) = 0 PROVE TermIn(p, 0) = 0
    BY DEF StartsAtZero
  <2>1. CASE p \in Pieces
    BY <2>1 DEF PiecesInv, StartsAtZero
  <2>2. CASE CutFrom(p, w)
    <3>1. 0 \in Span(p)
      BY <1>2, PieceType DEF Span
    <3> QED
      BY <1>1, <1>5, <2>2, <3>1
  <2> QED
    BY <2>1, <2>2 DEF w
<1>7. TermsElected'
  <2> SUFFICES ASSUME NEW p \in Pieces', NEW k \in Span(p), k > 0
               PROVE  ElectedIn(TermIn(p, k))'
    BY DEF TermsElected
  <2>1. CASE p \in Pieces
    BY <2>1 DEF PiecesInv, TermsElected, ElectedIn
  <2>2. CASE CutFrom(p, w)
    <3>1. k \in 1 .. Len(l) /\ TermIn(p, k) = l[k].term
      BY <1>1, <1>5, <2>2
    <3> QED
      BY <3>1
  <2> QED
    BY <2>1, <2>2 DEF w
<1>8. LeadersHold'
  <2> SUFFICES ASSUME NEW i \in Node, state'[i] = Leader, NEW p \in Pieces',
                      NEW k \in Span(p), k > 0, TermIn(p, k) = current_term'[i]
               PROVE  k \in 1 .. Len(log'[i]) /\ log'[i][k].term = current_term'[i]
    BY DEF LeadersHold, Holds
  <2>1. CASE p \in Pieces
    BY <2>1 DEF Holds
  <2>2. CASE CutFrom(p, w)
    <3>1. k \in Span(w) /\ TermIn(w, k) = current_term'[i]
      BY <1>1, <1>5, <2>2
    <3>2. Holds(i, w)'
      BY DEF w
    <3> QED
      BY <3>1, <3>2 DEF Holds
  <2> QED
    BY <2>1, <2>2 DEF w
<1> QED
  BY <1>4, <1>6, <1>7, <1>8 DEF PiecesInv
-----------------------------------------------------------------------------
(***************************************************************************)
(* The three ways a step changes one log: it keeps a prefix, its leader    *)
(* adds entries of its own term, or a request is stored.                   *)
(***************************************************************************)
\* What the step of node i that gives it log l and sends ms adds to the pieces.
LEMMA NewPieces ==
  ASSUME TypeOK, NEW i \in Node, NEW l \in Seq(Entry), log' = [log EXCEPT ![i] = l],
         NEW ms, msgs' \subseteq msgs \cup ms,
         \A m \in ms : m.type = "AppendEntries" /\ m.entries # <<>> => CutFrom(m, Whole(l))
  PROVE  \A p \in Pieces' : p \in Pieces \/ CutFrom(p, Whole(l))
<1> SUFFICES ASSUME NEW p \in Pieces' PROVE p \in Pieces \/ CutFrom(p, Whole(l))
  OBVIOUS
<1>1. CASE p \in Carriers'
  BY <1>1 DEF Carriers, Pieces
<1>2. ASSUME NEW j \in Node, p = Whole(log'[j]) PROVE p \in Pieces \/ CutFrom(p, Whole(l))
  <2>1. CASE j # i
    BY <1>2, <2>1 DEF TypeOK, Pieces
  <2>2. CASE j = i
    <3>1. p = Whole(l)
      BY <1>2, <2>2 DEF TypeOK
    <3> QED
      BY <3>1, PrefixIsCut
  <2> QED
    BY <2>1, <2>2
<1> QED
  BY <1>1, <1>2 DEF Pieces

\* The step keeps leaders, terms and what the leaders' logs hold.
LeadersStay ==
  \A j \in Node : state'[j] = Leader =>
    state[j] = Leader /\ current_term'[j] = current_term[j] /\ log'[j] = log[j]

\* Node i keeps a prefix of its log, or all of it, and may send parts of it.
LEMMA KeepPrefix ==
  ASSUME TypeOK, TypeOK', PiecesInv, NEW i \in Node, NEW l \in Seq(Entry),
         Len(l) <= Len(log[i]), \A n \in 1 .. Len(l) : l[n] = log[i][n],
         log' = [log EXCEPT ![i] = l], LeadersStay, elections \subseteq elections',
         NEW ms, msgs' \subseteq msgs \cup ms,
         \A m \in ms : m.type = "AppendEntries" /\ m.entries # <<>> => CutFrom(m, Whole(l))
  PROVE  PiecesInv'
<1>1. log[i] \in Seq(Entry) /\ Len(l) \in Nat /\ Len(log[i]) \in Nat
  BY DEF TypeOK
<1>2. Whole(log[i]) \in Pieces /\ Piece(Whole(log[i])) /\ Piece(Whole(l))
  BY <1>1, LogIsPiece, WholeType
<1>3. CutFrom(Whole(l), Whole(log[i]))
  BY <1>1, PrefixIsCut
<1>4. \A q \in Pieces : Agree(Whole(l), q)
  BY <1>2, <1>3, PiecesType, CutAgrees DEF PiecesInv, PiecesAgree
<1>5. \A p \in Pieces' : p \in Pieces \/ CutFrom(p, Whole(l))
  BY NewPieces
<1>6. ASSUME NEW k \in 1 .. Len(l)
      PROVE  /\ k \in Span(Whole(log[i])) /\ k \in Span(Whole(l)) /\ k \in Nat /\ k > 0
             /\ l[k].term = TermIn(Whole(log[i]), k)
  <2>1. k \in 1 .. Len(log[i]) /\ k \in 0 .. Len(log[i]) /\ k \in 0 .. Len(l) /\ k > 0
    BY <1>1
  <2>2. l[k] = log[i][k]
    OBVIOUS
  <2> QED
    BY <1>1, <2>1, <2>2, WholeType
<1>7. \A k \in 1 .. Len(l) : ElectedIn(l[k].term)'
  BY <1>2, <1>6 DEF PiecesInv, TermsElected, ElectedIn
<1>8. ASSUME NEW j \in Node, state'[j] = Leader
      PROVE  Holds(j, Whole(l))' /\ \A q \in Pieces : Holds(j, q)'
  <2>1. current_term'[j] = current_term[j] /\ log'[j] = log[j]
    BY <1>8 DEF LeadersStay
  <2>2. \A q \in Pieces : Holds(j, q)
    BY <1>8 DEF LeadersStay, PiecesInv, LeadersHold
  <2>3. \A q \in Pieces : Holds(j, q)'
    BY <2>1, <2>2 DEF Holds
  <2>4. \A k \in Span(Whole(l)) : k > 0 => k \in 1 .. Len(l) /\ TermIn(Whole(l), k) = l[k].term
    <3>1. Span(Whole(l)) = 0 .. Len(l)
      BY WholeType
    <3> QED
      BY <1>1, <3>1, WholeType
  <2>5. Holds(j, Whole(l))'
    BY <1>2, <1>6, <2>3, <2>4 DEF Holds
  <2> QED
    BY <2>3, <2>5
<1> QED
  BY <1>4, <1>5, <1>7, <1>8, PiecesStep

\* Whatever of term t is in a piece is in i's log.
HoldsAllOf(i, t) ==
  \A q \in Pieces : \A k \in Span(q) : k > 0 /\ TermIn(q, k) = t =>
    k \in 1 .. Len(log[i]) /\ log[i][k].term = t

\* Node i, elected in term t and now its leader, adds entries es of that term, or
\* none, and may send parts of the log it then has.
LEMMA LeaderGrows ==
  ASSUME TypeOK, TypeOK', PiecesInv, NEW i \in Node, NEW t \in Nat, HoldsAllOf(i, t),
         NEW es \in Seq(Entry), \A n \in 1 .. Len(es) : es[n].term = t,
         log' = [log EXCEPT ![i] = @ \o es],
         ElectedIn(t)', elections \subseteq elections', current_term'[i] = t,
         \A j \in Node \ {i} : state'[j] = Leader =>
           state[j] = Leader /\ current_term'[j] = current_term[j] /\ current_term[j] # t,
         NEW ms, msgs' \subseteq msgs \cup ms,
         \A m \in ms : m.type = "AppendEntries" /\ m.entries # <<>>
                         => CutFrom(m, Whole(log[i] \o es))
  PROVE  PiecesInv'
<1>l. PICK l : l = log[i] \o es
  OBVIOUS
<1>1. /\ log[i] \in Seq(Entry) /\ l \in Seq(Entry) /\ Len(log[i]) \in Nat /\ Len(es) \in Nat
      /\ Len(l) = Len(log[i]) + Len(es)
      /\ log' = [log EXCEPT ![i] = l]
  BY <1>l DEF TypeOK
<1>2. /\ \A n \in 1 .. Len(log[i]) : n \in 1 .. Len(l) /\ l[n] = log[i][n]
      /\ \A n \in 1 .. Len(l) : n > Len(log[i]) => l[n].term = t
  <2>1. \A n \in 1 .. Len(log[i]) : n \in 1 .. Len(l) /\ l[n] = log[i][n]
    BY <1>l, <1>1
  <2>2. ASSUME NEW n \in 1 .. Len(l), n > Len(log[i]) PROVE l[n].term = t
    <3>1. n - Len(log[i]) \in 1 .. Len(es) /\ l[n] = es[n - Len(log[i])]
      BY <1>l, <1>1, <2>2
    <3> QED
      BY <3>1
  <2> QED
    BY <2>1, <2>2
<1>3. \A j \in Node \ {i} : log'[j] = log[j]
  BY <1>1 DEF TypeOK
<1>4. log'[i] = l
  BY <1>1 DEF TypeOK
<1>5. \A m \in ms : m.type = "AppendEntries" /\ m.entries # <<>> => CutFrom(m, Whole(l))
  BY <1>l
<1>6. Whole(log[i]) \in Pieces /\ Span(Whole(l)) = 0 .. Len(l)
      /\ Span(Whole(log[i])) = 0 .. Len(log[i])
  BY <1>1, LogIsPiece, WholeType
<1>7. CutFrom(Whole(log[i]), Whole(l))
  BY <1>1, <1>2, PrefixIsCut
<1>8. ASSUME NEW k \in Span(Whole(l))
      PROVE  /\ k \in Nat
             /\ k > Len(log[i]) => k \in 1 .. Len(l) /\ TermIn(Whole(l), k) = t
             /\ k <= Len(log[i]) => k \in Span(Whole(log[i]))
                                    /\ TermIn(Whole(l), k) = TermIn(Whole(log[i]), k)
  <2>1. k \in 0 .. Len(l) /\ k \in Nat /\ Len(l) \in Nat
    BY <1>1, <1>6
  <2>2. CASE k > Len(log[i])
    <3>1. k \in 1 .. Len(l)
      BY <1>1, <2>1, <2>2
    <3>2. TermIn(Whole(l), k) = l[k].term
      BY <1>1, <3>1, WholeType
    <3>3. l[k].term = t
      BY <1>1, <1>2, <2>1, <2>2, <3>1
    <3> QED
      BY <2>1, <2>2, <3>1, <3>2, <3>3
  <2>3. CASE k <= Len(log[i])
    BY <1>1, <1>6, <1>7, <2>1, <2>3 DEF CutFrom, SameAt
  <2> QED
    BY <1>1, <2>1, <2>2, <2>3
<1>9. ASSUME NEW q \in Pieces PROVE Agree(Whole(l), q)
  <2> SUFFICES ASSUME NEW k \in Span(Whole(l)) \cap Span(q), TermIn(Whole(l), k) = TermIn(q, k),
                      NEW n \in Span(Whole(l)) \cap Span(q), n <= k
               PROVE  SameAt(Whole(l), q, n)
    BY DEF Agree
  <2>1. k <= Len(log[i])
    <3> SUFFICES ASSUME k > Len(log[i]) PROVE FALSE
      BY <1>1, <1>8
    <3>1. TermIn(q, k) = t /\ k > 0
      BY <1>1, <1>8
    <3>2. k \in 1 .. Len(log[i])
      BY <1>9, <3>1 DEF HoldsAllOf
    <3> QED
      BY <1>1, <3>2
  <2>2. n <= Len(log[i]) /\ n \in Nat
    BY <1>1, <1>8, <2>1
  <2>3. SameAt(Whole(log[i]), q, n)
    BY <1>6, <1>8, <1>9, <2>1, <2>2 DEF PiecesInv, PiecesAgree, Agree
  <2>4. SameAt(Whole(log[i]), Whole(l), n)
    BY <1>7, <1>8, <2>2 DEF CutFrom
  <2>5. First(Whole(l)) = 0 /\ First(Whole(log[i])) = 0
    BY <1>1, WholeType
  <2> QED
    BY <2>3, <2>4, <2>5 DEF SameAt
<1>10. \A p \in Pieces' : p \in Pieces \/ CutFrom(p, Whole(l))
  BY <1>1, <1>5, NewPieces
<1>11. ASSUME NEW k \in 1 .. Len(l) PROVE ElectedIn(l[k].term)'
  <2>1. k \in Span(Whole(l)) /\ k > 0 /\ l[k].term = TermIn(Whole(l), k)
    BY <1>1, <1>6, WholeType
  <2>2. CASE k > Len(log[i])
    BY <1>2, <2>2
  <2>3. CASE k <= Len(log[i])
    <3>1. k \in Span(Whole(log[i])) /\ l[k].term = TermIn(Whole(log[i]), k)
      BY <1>8, <2>1, <2>3
    <3>2. ElectedIn(l[k].term)
      BY <1>6, <2>1, <3>1 DEF PiecesInv, TermsElected
    <3> QED
      BY <3>2 DEF ElectedIn
  <2> QED
    BY <1>1, <1>8, <2>1, <2>2, <2>3
<1>12. ASSUME NEW j \in Node, state'[j] = Leader
       PROVE  Holds(j, Whole(l))' /\ \A q \in Pieces : Holds(j, q)'
  <2>1. CASE j = i
    <3>1. Holds(i, Whole(l))'
      <4> SUFFICES ASSUME NEW k \in Span(Whole(l)), k > 0, TermIn(Whole(l), k) = t
                   PROVE  k \in 1 .. Len(l) /\ l[k].term = t
        BY <1>4 DEF Holds
      <4>1. k \in 1 .. Len(l)
        BY <1>1, <1>6
      <4> QED
        BY <1>1, <4>1, WholeType
    <3>2. ASSUME NEW q \in Pieces PROVE Holds(i, q)'
      BY <1>2, <1>4, <3>2 DEF HoldsAllOf, Holds
    <3> QED
      BY <2>1, <3>1, <3>2
  <2>2. CASE j # i
    <3>1. /\ state[j] = Leader /\ current_term'[j] = current_term[j] /\ current_term[j] # t
          /\ log'[j] = log[j]
      BY <1>3, <1>12, <2>2
    <3>2. \A q \in Pieces : Holds(j, q)'
      BY <3>1 DEF PiecesInv, LeadersHold, Holds
    <3>3. Holds(j, Whole(l))'
      <4> SUFFICES ASSUME NEW k \in Span(Whole(l)), k > 0,
                          TermIn(Whole(l), k) = current_term'[j]
                   PROVE  k \in 1 .. Len(log'[j]) /\ log'[j][k].term = current_term'[j]
        BY DEF Holds
      <4>1. k <= Len(log[i])
        BY <1>1, <1>8, <3>1
      <4>2. k \in Span(Whole(log[i])) /\ TermIn(Whole(log[i]), k) = current_term'[j]
        BY <1>8, <4>1
      <4> QED
        BY <1>6, <3>2, <4>2 DEF Holds
    <3> QED
      BY <3>2, <3>3
  <2> QED
    BY <2>1, <2>2
<1> QED
  BY <1>1, <1>9, <1>10, <1>11, <1>12, PiecesStep

\* The loop of raft_recv_appendentries, over a log that has the request's entries
\* wherever it has their terms: the log is left alone, or it ends with them all.
LEMMA StoredMerges ==
  ASSUME NEW l \in Seq(Entry), NEW prev \in 0 .. Len(l), NEW es \in Seq(Entry),
         \A n \in 1 .. Len(es) :
           prev + n <= Len(l) /\ l[prev + n].term = es[n].term => l[prev + n] = es[n]
  PROVE  \/ Stored(l, prev, es) = l
         \/ /\ Len(Stored(l, prev, es)) = prev + Len(es)
            /\ \A k \in 1 .. prev : Stored(l, prev, es)[k] = l[k]
            /\ \A n \in 1 .. Len(es) : Stored(l, prev, es)[prev + n] = es[n]
<1> DEFINE kept(n) == prev + n <= Len(l) /\ l[prev + n].term = es[n].term
           of(k) == IF k <= prev \/ (\A n \in 1 .. k - prev : kept(n))
                    THEN l[k] ELSE es[k - prev]
           s == [k \in 1 .. prev + Len(es) |-> of(k)]
<1>1. Stored(l, prev, es) = IF \A n \in DOMAIN es : kept(n) THEN l ELSE s
  BY DEF Stored
<1>2. prev \in Nat /\ Len(es) \in Nat /\ Len(l) \in Nat
  OBVIOUS
<1>3. \A k \in 1 .. prev : of(k) = l[k]
  BY <1>2
<1>4. ASSUME NEW n \in 1 .. Len(es) PROVE of(prev + n) = es[n]
  <2>1. n \in 1 .. (prev + n) - prev /\ (prev + n) - prev = n /\ ~(prev + n <= prev)
    BY <1>2
  <2>2. CASE \A x \in 1 .. (prev + n) - prev : kept(x)
    BY <2>1, <2>2
  <2>3. CASE ~(\A x \in 1 .. (prev + n) - prev : kept(x))
    <3> HIDE DEF kept
    <3> QED
      BY <2>1, <2>3
  <2> QED
    BY <2>2, <2>3
<1> HIDE DEF of
<1>5. /\ Len(s) = prev + Len(es)
      /\ \A k \in 1 .. prev : s[k] = l[k]
      /\ \A n \in 1 .. Len(es) : s[prev + n] = es[n]
  <2>1. Len(s) = prev + Len(es)
    BY <1>2
  <2>2. \A k \in 1 .. prev : k \in 1 .. prev + Len(es)
    BY <1>2
  <2>3. \A n \in 1 .. Len(es) : prev + n \in 1 .. prev + Len(es)
    BY <1>2
  <2> QED
    BY <1>3, <1>4, <2>1, <2>2, <2>3
<1> QED
  BY <1>1, <1>5

\* A follower whose log has the point before the entries of request m gets log s,
\* its own up to that point and the entries of m after it.
LEMMA StoreRequest ==
  ASSUME TypeOK, TypeOK', PiecesInv, NEW i \in Node, NEW m \in Carriers,
         NEW prev \in Nat, m.prev_index = prev, HasPrev(log[i], m),
         NEW s \in Seq(Entry), Len(s) = prev + Len(m.entries),
         \A k \in 1 .. prev : s[k] = log[i][k],
         \A n \in 1 .. Len(m.entries) : s[prev + n] = m.entries[n],
         log' = [log EXCEPT ![i] = s], LeadersStay, state'[i] # Leader,
         UNCHANGED elections,
         NEW ms, msgs' \subseteq msgs \cup ms, \A r \in ms : r.type # "AppendEntries"
  PROVE  PiecesInv'
<1> DEFINE l == log[i]
<1>1. /\ l \in Seq(Entry) /\ Len(l) \in Nat /\ Piece(m) /\ m \in Pieces /\ Whole(l) \in Pieces
      /\ Len(m.entries) \in Nat
  <2>1. m \in Pieces /\ Whole(l) \in Pieces /\ l \in Seq(Entry)
    BY LogIsPiece DEF Pieces, TypeOK
  <2>2. Piece(m)
    BY <2>1, PiecesType
  <2> QED
    BY <2>1, <2>2 DEF Piece
<1>2. /\ First(m) = prev /\ Span(m) = prev .. prev + Len(m.entries)
      /\ First(Whole(l)) = 0 /\ First(Whole(s)) = 0
      /\ Span(Whole(l)) = 0 .. Len(l) /\ Span(Whole(s)) = 0 .. prev + Len(m.entries)
  BY <1>1, WholeType DEF First, Span, Last
<1>3. prev <= Len(l)
  BY <1>1 DEF HasPrev
<1>4. TermIn(Whole(l), prev) = TermIn(m, prev)
  <2>1. CASE prev = 0
    BY <1>1, <1>2, <2>1, WholeType DEF PiecesInv, StartsAtZero
  <2>2. CASE prev # 0
    <3>1. prev \in 1 .. Len(l) /\ l[prev].term = m.prev_term
      BY <1>1, <2>2 DEF HasPrev
    <3> QED
      BY <1>1, <3>1, WholeType DEF TermIn
  <2> QED
    BY <2>1, <2>2
<1>5. \A k \in 0 .. prev : k \in Span(Whole(l)) /\ k \in Span(Whole(s))
                           /\ SameAt(Whole(s), Whole(l), k)
  <2> SUFFICES ASSUME NEW k \in 0 .. prev
               PROVE  k \in Span(Whole(l)) /\ k \in Span(Whole(s))
                      /\ SameAt(Whole(s), Whole(l), k)
    OBVIOUS
  <2>1. k \in Span(Whole(l)) /\ k \in Span(Whole(s))
    BY <1>1, <1>2, <1>3
  <2>2. CASE k = 0
    BY <1>1, <1>2, <2>2, WholeType DEF SameAt
  <2>3. CASE k \in 1 .. prev
    <3>1. k \in 1 .. Len(l) /\ k \in 1 .. Len(s) /\ s[k] = l[k]
      BY <1>1, <1>3, <2>3
    <3> QED
      BY <1>1, <3>1, WholeType DEF SameAt
  <2> QED
    BY <2>1, <2>2, <2>3
<1>6. \A k \in prev .. prev + Len(m.entries) :
        k \in Span(m) /\ k \in Span(Whole(s)) /\ SameAt(Whole(s), m, k)
  <2> SUFFICES ASSUME NEW k \in prev .. prev + Len(m.entries)
               PROVE  k \in Span(m) /\ k \in Span(Whole(s)) /\ SameAt(Whole(s), m, k)
    OBVIOUS
  <2>1. k \in Span(m) /\ k \in Span(Whole(s))
    BY <1>1, <1>2
  <2>2. CASE k = prev
    <3>1. TermIn(Whole(s), prev) = TermIn(Whole(l), prev)
      BY <1>5 DEF SameAt
    <3> QED
      BY <1>2, <1>4, <2>1, <2>2, <3>1 DEF SameAt
  <2>3. CASE k \in prev + 1 .. prev + Len(m.entries)
    <3>1. k - prev \in 1 .. Len(m.entries) /\ prev + (k - prev) = k /\ k \in 1 .. Len(s)
      BY <1>1, <2>3
    <3>2. s[k] = m.entries[k - prev]
      BY <3>1
    <3>3. At(m, k) = s[k] /\ TermIn(m, k) = s[k].term
      BY <2>3, <3>2 DEF At, TermIn
    <3> QED
      BY <2>1, <3>1, <3>3, WholeType DEF SameAt
  <2> QED
    BY <1>1, <2>1, <2>2, <2>3
<1>7. ASSUME NEW k \in Span(Whole(s))
      PROVE  k \in Nat /\ (k \in 0 .. prev \/ k \in prev .. prev + Len(m.entries))
  BY <1>1, <1>2
<1> HIDE DEF l
<1>8. ASSUME NEW q \in Pieces PROVE Agree(Whole(s), q)
  <2> SUFFICES ASSUME NEW k \in Span(Whole(s)) \cap Span(q), TermIn(Whole(s), k) = TermIn(q, k),
                      NEW n \in Span(Whole(s)) \cap Span(q), n <= k
               PROVE  SameAt(Whole(s), q, n)
    BY DEF Agree
  <2>1. Agree(Whole(l), q) /\ Agree(m, q) /\ First(q) \in Nat /\ Last(q) \in Nat
    BY <1>1, <1>8, PiecesType, PieceType DEF PiecesInv, PiecesAgree
  <2>2. k \in Nat /\ n \in Nat /\ First(q) <= n /\ First(q) <= k /\ k <= Last(q)
    BY <1>7, <2>1 DEF Span
  <2>3. ASSUME NEW c \in 0 .. prev, c \in Span(q), TermIn(Whole(l), c) = TermIn(q, c),
               n <= c
        PROVE  SameAt(Whole(s), q, n)
    <3>1. n \in 0 .. prev
      BY <2>2, <2>3
    <3>2. SameAt(Whole(l), q, n)
      BY <1>5, <2>1, <2>3, <3>1 DEF Agree
    <3> QED
      BY <1>2, <1>5, <3>1, <3>2 DEF SameAt
  <2>4. CASE k \in 0 .. prev
    BY <1>5, <2>3, <2>4 DEF SameAt
  <2>5. CASE k \in prev .. prev + Len(m.entries)
    <3>1. TermIn(m, k) = TermIn(q, k) /\ k \in Span(m)
      BY <1>6, <2>5 DEF SameAt
    <3>2. CASE n > prev
      <4>1. n \in prev .. prev + Len(m.entries) /\ n \in Span(m)
        BY <1>1, <1>2, <2>2, <3>2
      <4>2. SameAt(m, q, n)
        BY <2>1, <3>1, <4>1 DEF Agree
      <4> QED
        BY <1>2, <1>6, <2>2, <3>2, <4>1, <4>2 DEF SameAt
    <3>3. CASE n <= prev
      <4>1. prev <= k /\ prev \in Span(m)
        BY <1>1, <1>2, <2>2, <2>5
      <4>2. prev \in Span(q)
        BY <2>1, <2>2, <3>3, <4>1 DEF Span
      <4>3. TermIn(m, prev) = TermIn(q, prev)
        BY <2>1, <3>1, <4>1, <4>2 DEF Agree, SameAt
      <4>4. TermIn(Whole(l), prev) = TermIn(q, prev) /\ prev \in 0 .. prev
        BY <1>4, <4>3 DEF l
      <4> QED
        BY <2>3, <3>3, <4>2, <4>4
    <3> QED
      BY <2>2, <3>2, <3>3
  <2> QED
    BY <1>7, <2>4, <2>5
<1>9. \A p \in Pieces' : p \in Pieces \/ CutFrom(p, Whole(s))
  BY NewPieces
<1>10. ASSUME NEW k \in Span(Whole(s))
       PROVE  \E q \in Pieces : k \in Span(q) /\ TermIn(q, k) = TermIn(Whole(s), k)
  BY <1>1, <1>5, <1>6, <1>7 DEF SameAt, l
<1>11. ASSUME NEW k \in 1 .. Len(s) PROVE ElectedIn(s[k].term)'
  <2>1. k \in Span(Whole(s)) /\ k > 0 /\ s[k].term = TermIn(Whole(s), k)
    BY <1>1, WholeType
  <2>2. ElectedIn(s[k].term)
    BY <1>10, <2>1 DEF PiecesInv, TermsElected
  <2> QED
    BY <2>2 DEF ElectedIn
<1>12. ASSUME NEW j \in Node, state'[j] = Leader
       PROVE  Holds(j, Whole(s))' /\ \A q \in Pieces : Holds(j, q)'
  <2>1. current_term'[j] = current_term[j] /\ log'[j] = log[j] /\ state[j] = Leader
    BY <1>12 DEF LeadersStay
  <2>2. \A q \in Pieces : Holds(j, q)
    BY <2>1 DEF PiecesInv, LeadersHold
  <2>3. \A q \in Pieces : Holds(j, q)'
    BY <2>1, <2>2 DEF Holds
  <2>4. Holds(j, Whole(s))'
    BY <1>10, <2>3 DEF Holds
  <2> QED
    BY <2>3, <2>4
<1> QED
  BY <1>8, <1>9, <1>11, <1>12, PiecesStep
-----------------------------------------------------------------------------
(***************************************************************************)
(* Every step preserves the invariant.                                     *)
(***************************************************************************)
\* Nobody becomes a candidate or a leader, or takes one of these roles along to
\* another term.
RolesStay ==
  \A j \in Node : state'[j] # Follower =>
    state'[j] = state[j] /\ current_term'[j] = current_term[j]

LEMMA CandidatesStay ==
  ASSUME CandidatesUnelected, UNCHANGED elections, RolesStay
  PROVE  CandidatesUnelected'
  BY DEF CandidatesUnelected, RolesStay, Elected, Follower, Candidate

\* A step that leaves logs and elections alone and sends parts of i's log, if any.
LEMMA SameLogs ==
  ASSUME TypeOK, TypeOK', LogInv, NEW i \in Node, UNCHANGED <<log, elections>>, RolesStay,
         NEW ms, msgs' \subseteq msgs \cup ms,
         \A m \in ms : m.type = "AppendEntries" /\ m.entries # <<>>
                         => CutFrom(m, Whole(log[i]))
  PROVE  LogInv'
<1>1. PICK l : l = log[i]
  OBVIOUS
<1>2. /\ l \in Seq(Entry) /\ Len(l) <= Len(log[i]) /\ \A n \in 1 .. Len(l) : l[n] = log[i][n]
      /\ log' = [log EXCEPT ![i] = l] /\ elections \subseteq elections'
  BY <1>1 DEF TypeOK
<1>3. LeadersStay
  BY DEF LeadersStay, RolesStay, Leader, Follower
<1>4. PiecesInv'
  BY <1>1, <1>2, <1>3, KeepPrefix DEF LogInv
<1> QED
  BY <1>4, CandidatesStay DEF LogInv

\* The same, of a step that sends no AppendEntries.
LEMMA SameLogsNoAppend ==
  ASSUME TypeOK, TypeOK', LogInv, UNCHANGED <<log, elections>>, RolesStay,
         NEW ms, msgs' \subseteq msgs \cup ms, \A m \in ms : m.type # "AppendEntries"
  PROVE  LogInv'
<1>1. CASE Node = {}
  <2>1. Pieces' \subseteq Pieces
    BY <1>1 DEF Pieces, Carriers
  <2> QED
    BY <1>1, <2>1
       DEF LogInv, PiecesInv, PiecesAgree, StartsAtZero, TermsElected, LeadersHold,
           CandidatesUnelected, ElectedIn
<1>2. CASE Node # {}
  <2>1. PICK i \in Node : TRUE
    BY <1>2
  <2> QED
    BY <2>1, SameLogs
<1> QED
  BY <1>1, <1>2

\* A leader's heartbeats, from the log it has or a longer one.
LEMMA HeartbeatsAreCut ==
  ASSUME NEW i \in Node, NEW t \in Nat, NEW l \in Seq(Entry), NEW c \in Nat,
         NEW next \in [Node -> Nat], NEW es \in Seq(Entry),
         NEW m \in Heartbeats(i, t, l, c, next), m.entries # <<>>
  PROVE  CutFrom(m, Whole(l \o es))
<1>1. Piece(m) /\ CutFrom(m, Whole(l))
  BY HeartbeatIsCut
<1>2. l \o es \in Seq(Entry) /\ Len(l) <= Len(l \o es)
      /\ \A n \in 1 .. Len(l) : l[n] = (l \o es)[n]
  OBVIOUS
<1>3. CutFrom(Whole(l), Whole(l \o es))
  BY <1>2, PrefixIsCut
<1> QED
  BY <1>1, <1>2, <1>3, WholeType, CutTwice

\* A leader sends heartbeats: raft_tick, and a read that sends a round at once.
LEMMA HeartbeatLogs ==
  ASSUME TypeOK, TypeOK', LogInv, NEW i \in Node, TickHeartbeat(i) \/ SendRound(i)
  PROVE  LogInv'
<1> DEFINE ms == Heartbeats(i, current_term[i], log[i], commit_index[i], next_index[i])
<1>1. /\ UNCHANGED <<log, elections>> /\ msgs' \subseteq msgs \cup ms
      /\ UNCHANGED <<current_term, state>>
  BY DEF TickHeartbeat, SendRound, Send, voteVars, logVars
<1>2. RolesStay
  BY <1>1 DEF RolesStay
<1>3. \A m \in ms : m.entries # <<>> => CutFrom(m, Whole(log[i]))
  <2>1. /\ current_term[i] \in Nat /\ log[i] \in Seq(Entry) /\ commit_index[i] \in Nat
        /\ next_index[i] \in [Node -> Nat]
    BY DEF TypeOK
  <2> QED
    BY <2>1, HeartbeatIsCut
<1> QED
  BY <1>1, <1>2, <1>3, SameLogs

\* A leader has every entry of its term.
LEMMA LeaderHoldsAll ==
  ASSUME LogInv, NEW i \in Node, state[i] = Leader
  PROVE  HoldsAllOf(i, current_term[i])
  BY DEF LogInv, PiecesInv, LeadersHold, Holds, HoldsAllOf

\* Two leaders are in different terms.
LEMMA LeadersDiffer ==
  ASSUME TypeOK, ElectionInv, NEW i \in Node, NEW j \in Node \ {i},
         state[i] = Leader, state[j] = Leader
  PROVE  current_term[i] # current_term[j]
<1>1. Elected(i, current_term[i]) /\ Elected(j, current_term[j])
  BY DEF ElectionInv, TallyIsGranted
<1> QED
  BY <1>1 DEF ElectionInv, OneLeaderPerTerm, Elected

\* A client's call appends to a leader's log.
LEMMA LeaderAppends ==
  ASSUME TypeOK, TypeOK', ElectionInv, LogInv, NEW i \in Node, state[i] = Leader,
         NEW es \in Seq(Entry), \A n \in 1 .. Len(es) : es[n].term = current_term[i],
         log' = [log EXCEPT ![i] = @ \o es],
         UNCHANGED <<voteVars, elections>>,
         NEW ms, msgs' \subseteq msgs \cup ms,
         \A m \in ms : m.type = "AppendEntries" /\ m.entries # <<>>
                         => CutFrom(m, Whole(log[i] \o es))
  PROVE  LogInv'
<1>1. PICK t \in Nat : t = current_term[i]
  BY DEF TypeOK
<1>2. UNCHANGED <<current_term, state>>
  BY DEF voteVars
<1>3. ElectedIn(t)'
  BY <1>1, <1>2 DEF ElectionInv, TallyIsGranted, Elected, ElectedIn
<1>4. HoldsAllOf(i, t)
  BY <1>1, LeaderHoldsAll
<1>5. \A j \in Node \ {i} : state'[j] = Leader =>
        state[j] = Leader /\ current_term'[j] = current_term[j] /\ current_term[j] # t
  BY <1>1, <1>2, LeadersDiffer
<1>6. PiecesInv'
  <2>1. elections \subseteq elections' /\ current_term'[i] = t
        /\ \A n \in 1 .. Len(es) : es[n].term = t
    BY <1>1, <1>2
  <2> QED
    BY <1>3, <1>4, <1>5, <2>1, LeaderGrows DEF LogInv
<1>7. CandidatesUnelected'
  BY <1>2, CandidatesStay DEF LogInv, RolesStay
<1> QED
  BY <1>6, <1>7 DEF LogInv

\* raft_propose, raft_propose_noop and raft_propose_batch, whole or cut short.
LEMMA ProposalLogs ==
  ASSUME TypeOK, TypeOK', ElectionInv, LogInv, NEW i \in Node,
         \/ \E d \in Data \cup {Noop} : Propose(i, d)
         \/ \E ds \in Batches : ProposeBatch(i, ds)
         \/ \E ds \in Batches : \E n \in 1 .. Len(ds) - 1 : AbortBatch(i, ds, n)
  PROVE  LogInv'
<1>1. /\ current_term[i] \in Nat /\ log[i] \in Seq(Entry) /\ commit_index[i] \in Nat
      /\ next_index[i] \in [Node -> Nat]
  BY DEF TypeOK
<1>2. ASSUME NEW ds \in Seq(Data)
      PROVE  /\ EntriesOf(current_term[i], ds) \in Seq(Entry)
             /\ \A n \in 1 .. Len(EntriesOf(current_term[i], ds)) :
                  EntriesOf(current_term[i], ds)[n].term = current_term[i]
  <2>1. EntriesOf(current_term[i], ds) \in Seq(Entry)
    BY <1>1, <1>2, EntriesOfType
  <2>2. DOMAIN EntriesOf(current_term[i], ds) = 1 .. Len(ds)
        /\ Len(EntriesOf(current_term[i], ds)) = Len(ds)
    BY <1>2 DEF EntriesOf
  <2> QED
    BY <2>1, <2>2 DEF EntriesOf, EntryOf
<1>3. ASSUME NEW d \in Data \cup {Noop}, Propose(i, d) PROVE LogInv'
  <2> DEFINE es == <<EntryOf(current_term[i], d)>>
             l == Append(log[i], EntryOf(current_term[i], d))
             c == SoleCommit(i, Len(l))
             ms == Heartbeats(i, current_term[i], l, c, next_index[i])
  <2>1. EntryOf(current_term[i], d) \in Entry /\ EntryOf(current_term[i], d).term = current_term[i]
    BY <1>1 DEF EntryOf, Entry
  <2>2. /\ es \in Seq(Entry) /\ l = log[i] \o es /\ l \in Seq(Entry)
        /\ \A n \in 1 .. Len(es) : es[n].term = current_term[i]
    BY <1>1, <2>1
  <2>3. c \in Nat
    <3>1. Len(l) \in Nat
      BY <2>2
    <3> QED
      BY <3>1, SoleCommitType
  <2>4. /\ state[i] = Leader /\ log' = [log EXCEPT ![i] = l]
        /\ msgs' \subseteq msgs \cup ms /\ UNCHANGED <<voteVars, elections>>
    BY <1>3 DEF Propose, MayPropose, Send
  <2> HIDE DEF es, c
  <2>5. \A m \in ms : m.entries # <<>> => CutFrom(m, Whole(l))
    BY <1>1, <2>2, <2>3, HeartbeatIsCut
  <2>6. log' = [log EXCEPT ![i] = @ \o es]
    BY <2>2, <2>4
  <2>7. \A m \in ms : m.type = "AppendEntries" /\ m.entries # <<>>
                        => CutFrom(m, Whole(log[i] \o es))
    BY <2>2, <2>5
  <2> HIDE DEF ms, l
  <2> QED
    BY <2>2, <2>4, <2>6, <2>7, LeaderAppends
<1>4. ASSUME NEW ds \in Batches, ProposeBatch(i, ds) PROVE LogInv'
  <2> DEFINE es == EntriesOf(current_term[i], ds)
             l == log[i] \o es
             ms == Heartbeats(i, current_term[i], l, commit_index[i], next_index[i])
  <2>1. /\ es \in Seq(Entry) /\ l \in Seq(Entry)
        /\ \A n \in 1 .. Len(es) : es[n].term = current_term[i]
    BY <1>1, <1>2, PayloadAssumption
  <2>2. /\ state[i] = Leader /\ log' = [log EXCEPT ![i] = @ \o es]
        /\ msgs' \subseteq msgs \cup ms /\ UNCHANGED <<voteVars, elections>>
    BY <1>4 DEF ProposeBatch, MayPropose, Send
  <2> HIDE DEF es
  <2>3. \A m \in ms : m.type = "AppendEntries" /\ m.entries # <<>>
                        => CutFrom(m, Whole(log[i] \o es))
    BY <1>1, <2>1, HeartbeatIsCut
  <2> HIDE DEF ms, l
  <2> QED
    BY <2>1, <2>2, <2>3, LeaderAppends
<1>5. ASSUME NEW ds \in Batches, NEW n \in 1 .. Len(ds) - 1, AbortBatch(i, ds, n)
      PROVE  LogInv'
  <2> DEFINE es == EntriesOf(current_term[i], SubSeq(ds, 1, n))
             ms == {}
  <2>1. SubSeq(ds, 1, n) \in Seq(Data)
    <3>1. ds \in Seq(Data) /\ Len(ds) \in Nat /\ n <= Len(ds)
      BY PayloadAssumption
    <3> QED
      BY <3>1, SubSeqProperties
  <2>2. es \in Seq(Entry) /\ \A k \in 1 .. Len(es) : es[k].term = current_term[i]
    BY <1>2, <2>1
  <2>3. /\ state[i] = Leader /\ log' = [log EXCEPT ![i] = @ \o es]
        /\ msgs' \subseteq msgs \cup ms /\ UNCHANGED <<voteVars, elections>>
        /\ \A m \in ms : m.type = "AppendEntries" /\ m.entries # <<>>
                            => CutFrom(m, Whole(log[i] \o es))
    BY <1>5 DEF AbortBatch, MayPropose
  <2> HIDE DEF es, ms
  <2> QED
    BY <2>2, <2>3, LeaderAppends
<1> QED
  BY <1>3, <1>4, <1>5

\* No one was elected before in the term a node is being elected in.
LEMMA TermIsNew ==
  ASSUME TypeOK, ElectionInv, ElectionInv', CandidatesUnelected,
         NEW i \in Node, NEW t \in Nat, NEW S, BecomeLeader(i, t, S),
         (t = current_term[i] /\ state[i] = Candidate) \/ t = current_term[i] + 1
  PROVE  ~ElectedIn(t)
<1> SUFFICES ASSUME NEW e \in elections, e.term = t PROVE FALSE
  BY DEF ElectedIn
<1> DEFINE new == [term |-> t, leader |-> i, voters |-> S]
<1>1. new \in elections' /\ e \in elections' /\ new.term = t /\ new.leader = i
  BY DEF BecomeLeader
<1>2. e.leader = i
  <2> HIDE DEF new
  <2> QED
    BY <1>1 DEF ElectionInv, OneLeaderPerTerm
<1>3. current_term[i] >= t
  BY <1>2 DEF ElectionInv, ElectionIsGranted
<1>4. CASE t = current_term[i] /\ state[i] = Candidate
  BY <1>2, <1>4 DEF CandidatesUnelected, Elected
<1>5. CASE t = current_term[i] + 1
  BY <1>3, <1>5 DEF TypeOK
<1> QED
  BY <1>4, <1>5

\* raft_become_leader: the no-op is the first entry of its term anywhere.
LEMMA NewLeaderLogs ==
  ASSUME TypeOK, TypeOK', ElectionInv, ElectionInv', LogInv,
         NEW i \in Node, NEW t \in Nat, NEW S, BecomeLeader(i, t, S),
         (t = current_term[i] /\ state[i] = Candidate) \/ t = current_term[i] + 1,
         current_term' = [current_term EXCEPT ![i] = t]
  PROVE  LogInv'
<1>1. ~ElectedIn(t)
  BY TermIsNew DEF LogInv
<1>2. /\ elections' = elections \cup {[term |-> t, leader |-> i, voters |-> S]}
      /\ state' = [state EXCEPT ![i] = Leader]
  BY DEF BecomeLeader
<1>3. /\ elections \subseteq elections' /\ ElectedIn(t)' /\ current_term'[i] = t
      /\ \A j \in Node \ {i} :
           state'[j] = state[j] /\ current_term'[j] = current_term[j]
           /\ \A u : Elected(j, u)' <=> Elected(j, u)
  <2> DEFINE new == [term |-> t, leader |-> i, voters |-> S]
  <2>1. new \in elections' /\ new.term = t /\ new.leader = i /\ elections' = elections \cup {new}
    BY <1>2
  <2> HIDE DEF new
  <2>2. ElectedIn(t)'
    BY <2>1 DEF ElectedIn
  <2>3. current_term'[i] = t
    BY DEF TypeOK
  <2>4. ASSUME NEW j \in Node \ {i}
        PROVE  /\ state'[j] = state[j] /\ current_term'[j] = current_term[j]
               /\ \A u : Elected(j, u)' <=> Elected(j, u)
    <3>1. state'[j] = state[j] /\ current_term'[j] = current_term[j]
      BY <1>2 DEF TypeOK
    <3>2. \A u : Elected(j, u)' <=> Elected(j, u)
      BY <2>1 DEF Elected
    <3> QED
      BY <3>1, <3>2
  <2> QED
    BY <2>1, <2>2, <2>3, <2>4
<1>4. HoldsAllOf(i, t)
  BY <1>1 DEF HoldsAllOf, LogInv, PiecesInv, TermsElected
<1>5. \A j \in Node \ {i} : state'[j] = Leader =>
        state[j] = Leader /\ current_term'[j] = current_term[j] /\ current_term[j] # t
  BY <1>1, <1>3 DEF ElectionInv, TallyIsGranted, Elected, ElectedIn
<1>6. CandidatesUnelected'
  <2>1. state'[i] # Candidate
    BY <1>2 DEF TypeOK, Leader, Candidate
  <2> QED
    BY <1>3, <2>1 DEF CandidatesUnelected, LogInv
<1> DEFINE next == [j \in Node |-> Len(log[i]) + 1]
           noop == <<EntryOf(t, Noop)>>
           withNoop == Append(log[i], EntryOf(t, Noop))
           c == SoleCommit(i, Len(withNoop))
           first == Heartbeats(i, t, log[i], commit_index[i], next)
           second == Heartbeats(i, t, withNoop, c, next)
<1>7. /\ log[i] \in Seq(Entry) /\ commit_index[i] \in Nat /\ Len(log[i]) \in Nat
      /\ next \in [Node -> Nat]
  BY DEF TypeOK
<1>8. /\ noop \in Seq(Entry) /\ \A n \in 1 .. Len(noop) : noop[n].term = t
      /\ withNoop = log[i] \o noop /\ withNoop \in Seq(Entry)
  <2>1. EntryOf(t, Noop) \in Entry /\ EntryOf(t, Noop).term = t
    BY DEF EntryOf, Entry
  <2> QED
    BY <1>7, <2>1
<1>9. c \in Nat
  <2>1. Len(withNoop) \in Nat
    BY <1>8
  <2> QED
    BY <2>1, SoleCommitType
<1> HIDE DEF next, noop, withNoop, c
<1>10. \A es \in Seq(Entry) : \A m \in first : m.entries # <<>> => CutFrom(m, Whole(log[i] \o es))
  BY <1>7, HeartbeatsAreCut
<1>11. \A m \in second : m.entries # <<>> => CutFrom(m, Whole(withNoop))
  BY <1>7, <1>8, <1>9, HeartbeatIsCut
<1>12. \/ log' = log /\ msgs' \subseteq msgs \cup first
       \/ log' = [log EXCEPT ![i] = withNoop] /\ msgs' \subseteq msgs \cup (first \cup second)
  BY DEF BecomeLeader, Send, logVars, next, withNoop, c
<1> HIDE DEF first, second
<1>13. CASE log' = log /\ msgs' \subseteq msgs \cup first
  <2>1. <<>> \in Seq(Entry) /\ log' = [log EXCEPT ![i] = @ \o <<>>]
        /\ \A n \in 1 .. Len(<<>>) : <<>>[n].term = t
    BY <1>7, <1>13 DEF TypeOK
  <2>2. \A m \in first : m.type = "AppendEntries" /\ m.entries # <<>>
                           => CutFrom(m, Whole(log[i] \o <<>>))
    BY <1>10, <2>1
  <2>3. PiecesInv'
    BY <1>3, <1>4, <1>5, <1>13, <2>1, <2>2, LeaderGrows DEF LogInv
  <2> QED
    BY <1>6, <2>3 DEF LogInv
<1>14. CASE log' = [log EXCEPT ![i] = withNoop] /\ msgs' \subseteq msgs \cup (first \cup second)
  <2> DEFINE both == first \cup second
  <2>1. log' = [log EXCEPT ![i] = @ \o noop] /\ msgs' \subseteq msgs \cup both
    BY <1>8, <1>14
  <2>2. \A m \in both : m.type = "AppendEntries" /\ m.entries # <<>>
                                       => CutFrom(m, Whole(log[i] \o noop))
    BY <1>8, <1>10, <1>11
  <2> HIDE DEF both
  <2>3. PiecesInv'
    BY <1>3, <1>4, <1>5, <1>8, <2>1, <2>2, LeaderGrows DEF LogInv
  <2> QED
    BY <1>6, <2>3 DEF LogInv
<1> QED
  BY <1>12, <1>13, <1>14

\* raft_become_candidate: a candidate's term is new, alone in its cluster it leads.
LEMMA CandidateLogs ==
  ASSUME TypeOK, TypeOK', ElectionInv, ElectionInv', LogInv, NEW i \in Node, BecomeCandidate(i)
  PROVE  LogInv'
<1> DEFINE t == current_term[i] + 1
<1>1. t \in Nat /\ current_term' = [current_term EXCEPT ![i] = t]
  BY DEF BecomeCandidate, TypeOK
<1>2. CASE IsQuorum({i})
  <2>1. BecomeLeader(i, t, {i})
    BY <1>2 DEF BecomeCandidate
  <2> QED
    BY <1>1, <2>1, NewLeaderLogs
<1>3. CASE ~IsQuorum({i})
  <2>1. /\ UNCHANGED <<log, elections>> /\ msgs' \subseteq msgs \cup VoteRequests(i, t, FALSE)
        /\ state' = [state EXCEPT ![i] = Candidate]
    BY <1>3 DEF BecomeCandidate, Send, logVars
  <2>2. \A m \in VoteRequests(i, t, FALSE) : m.type # "AppendEntries"
    BY DEF VoteRequests
  <2>3. LeadersStay
    BY <1>1, <2>1 DEF LeadersStay, TypeOK, Leader, Candidate
  <2>4. PiecesInv'
    <3>1. PICK l : l = log[i]
      OBVIOUS
    <3>2. /\ l \in Seq(Entry) /\ Len(l) <= Len(log[i])
          /\ \A n \in 1 .. Len(l) : l[n] = log[i][n]
          /\ log' = [log EXCEPT ![i] = l] /\ elections \subseteq elections'
      BY <2>1, <3>1 DEF TypeOK
    <3>3. PICK ms : msgs' \subseteq msgs \cup ms /\ \A m \in ms : m.type # "AppendEntries"
      BY <2>1, <2>2
    <3> QED
      BY <2>3, <3>2, <3>3, KeepPrefix DEF LogInv
  <2>5. CandidatesUnelected'
    <3> SUFFICES ASSUME NEW j \in Node, state'[j] = Candidate
                 PROVE  ~Elected(j, current_term'[j])
      BY <2>1 DEF CandidatesUnelected, Elected
    <3>1. CASE j = i
      BY <1>1, <3>1 DEF ElectionInv, ElectionIsGranted, Elected, TypeOK
    <3>2. CASE j # i
      BY <1>1, <2>1, <3>2 DEF LogInv, CandidatesUnelected, TypeOK
    <3> QED
      BY <3>1, <3>2
  <2> QED
    BY <2>4, <2>5 DEF LogInv
<1> QED
  BY <1>2, <1>3

\* A node restarts, with an empty log.
LEMMA CreateLogs ==
  ASSUME TypeOK, TypeOK', LogInv, NEW i \in Node, Create(i)
  PROVE  LogInv'
<1>1. /\ log' = [log EXCEPT ![i] = <<>>] /\ UNCHANGED <<msgs, elections>>
      /\ state' = [state EXCEPT ![i] = Follower]
      /\ \A j \in Node \ {i} : current_term'[j] = current_term[j]
  BY DEF Create, TypeOK
<1>2. RolesStay /\ LeadersStay
  BY <1>1 DEF RolesStay, LeadersStay, TypeOK, Leader, Follower
<1>3. PICK l, ms : l = <<>> /\ ms = {}
  OBVIOUS
<1>4. /\ l \in Seq(Entry)
      /\ Len(l) <= Len(log[i]) /\ \A n \in 1 .. Len(l) : l[n] = log[i][n]
      /\ log' = [log EXCEPT ![i] = l]
      /\ msgs' \subseteq msgs \cup ms /\ elections \subseteq elections'
      /\ \A m \in ms : m.type = "AppendEntries" /\ m.entries # <<>> => CutFrom(m, Whole(l))
  <2>1. Len(log[i]) \in Nat
    BY DEF TypeOK
  <2> QED
    BY <1>1, <1>3, <2>1
<1>5. PiecesInv'
  BY <1>2, <1>4, KeepPrefix DEF LogInv
<1> QED
  BY <1>1, <1>2, <1>5, CandidatesStay DEF LogInv

\* raft_recv_appendentries answers, whatever it does to the log.
LEMMA RecognizeRoles ==
  ASSUME TypeOK, NEW m \in msgs, RecognizeLeader(m)
  PROVE  RolesStay /\ state'[m.to] # Leader /\ UNCHANGED elections
<1>1. m.to \in Node
  BY MessageFields
<1>2. CASE m.term > current_term[m.to] \/ state[m.to] # Follower
  <2>1. /\ state' = [state EXCEPT ![m.to] = Follower]
        /\ current_term' = [current_term EXCEPT ![m.to] = m.term] /\ UNCHANGED elections
    BY <1>2 DEF RecognizeLeader, BecomeFollower
  <2> QED
    BY <1>1, <2>1 DEF RolesStay, TypeOK, Follower, Leader
<1>3. CASE ~(m.term > current_term[m.to] \/ state[m.to] # Follower)
  BY <1>3 DEF RecognizeLeader, voteVars, RolesStay, Follower, Leader
<1> QED
  BY <1>2, <1>3

\* The loop of raft_recv_appendentries stores a request.
LEMMA AcceptLogs ==
  ASSUME TypeOK, TypeOK', LogInv, NEW m \in msgs, AcceptAppend(m)
  PROVE  LogInv'
<1> DEFINE i == m.to
           es == m.entries
           s == Stored(log[i], m.prev_index, es)
<1>1. /\ m \in AppendEntriesMsg /\ m.type = "AppendEntries" /\ i \in Node
      /\ m.prev_index \in Nat /\ es \in Seq(Entry) /\ log[i] \in Seq(Entry)
      /\ HasPrev(log[i], m) /\ log' = [log EXCEPT ![i] = s]
  <2>1. m.type = "AppendEntries" /\ m \in AppendEntriesMsg
    BY MessageFields DEF AcceptAppend, RecognizeLeader
  <2> QED
    BY <2>1 DEF AcceptAppend, AppendEntriesMsg, TypeOK
<1>2. RolesStay /\ state'[i] # Leader /\ UNCHANGED elections
  BY RecognizeRoles DEF AcceptAppend
<1>3. PICK ms : msgs' \subseteq msgs \cup ms /\ \A r \in ms : r.type # "AppendEntries"
  <2>1. PICK ms : ms = {AppendReply(m, TRUE, Len(s), 0, 0)}
    OBVIOUS
  <2>2. msgs' \subseteq msgs \cup ms
    BY <2>1 DEF AcceptAppend, Send
  <2>3. \A r \in ms : r.type # "AppendEntries"
    BY <2>1 DEF AppendReply
  <2> QED
    BY <2>2, <2>3
<1>4. CASE s = log[i]
  <2>1. UNCHANGED log
    BY <1>1, <1>4 DEF TypeOK
  <2> QED
    BY <1>2, <1>3, <2>1, SameLogsNoAppend
<1>5. CASE s # log[i]
  <2>1. m \in Carriers
    <3>1. ASSUME es = <<>> PROVE s = log[i]
      BY <3>1 DEF Stored
    <3> QED
      BY <1>1, <1>5, <3>1 DEF Carriers
  <2>2. m.prev_index \in 0 .. Len(log[i])
    BY <1>1 DEF HasPrev
  <2>3. \A n \in 1 .. Len(es) : m.prev_index + n <= Len(log[i])
            /\ log[i][m.prev_index + n].term = es[n].term => log[i][m.prev_index + n] = es[n]
    <3> DEFINE w == Whole(log[i])
    <3>1. Agree(w, m) /\ Piece(m)
      BY <1>1, <2>1, LogIsPiece, PiecesType DEF LogInv, PiecesInv, PiecesAgree, Pieces
    <3>2. ASSUME NEW n \in 1 .. Len(es), m.prev_index + n <= Len(log[i]),
                 log[i][m.prev_index + n].term = es[n].term
          PROVE  log[i][m.prev_index + n] = es[n]
      <4> DEFINE k == m.prev_index + n
      <4>1. k \in 1 .. Len(log[i]) /\ k > m.prev_index /\ k - m.prev_index = n
            /\ k \in m.prev_index .. m.prev_index + Len(es) /\ k <= k /\ k \in 0 .. Len(log[i])
        BY <1>1, <3>2
      <4>2. k \in Span(m) /\ At(m, k) = es[n] /\ TermIn(m, k) = es[n].term /\ First(m) < k
        BY <1>1, <4>1 DEF Span, First, Last, At, TermIn
      <4>3. /\ k \in Span(w) /\ At(w, k) = log[i][k] /\ TermIn(w, k) = log[i][k].term
            /\ First(w) < k
        BY <1>1, <4>1, WholeType
      <4>4. TermIn(w, k) = TermIn(m, k)
        BY <3>2, <4>2, <4>3
      <4> HIDE DEF k, w
      <4>5. SameAt(w, m, k)
        BY <3>1, <4>1, <4>2, <4>3, <4>4 DEF Agree
      <4>6. log[i][k] = es[n]
        BY <4>2, <4>3, <4>5 DEF SameAt
      <4> QED
        BY <4>6 DEF k
    <3> QED
      BY <3>2
  <2>4. /\ Len(s) = m.prev_index + Len(es)
        /\ \A k \in 1 .. m.prev_index : s[k] = log[i][k]
        /\ \A n \in 1 .. Len(es) : s[m.prev_index + n] = es[n]
    BY <1>1, <1>5, <2>2, <2>3, StoredMerges
  <2>5. s \in Seq(Entry)
    BY <1>1, <2>2, StoredType
  <2>6. LeadersStay
    BY <1>1, <1>2 DEF LeadersStay, RolesStay, Leader, Follower, TypeOK
  <2>7. PICK prev \in Nat, merged \in Seq(Entry) : prev = m.prev_index /\ merged = s
    BY <1>1, <2>5
  <2>8. PiecesInv'
    <3>1. /\ Len(merged) = prev + Len(m.entries)
          /\ \A k \in 1 .. prev : merged[k] = log[i][k]
          /\ \A n \in 1 .. Len(m.entries) : merged[prev + n] = m.entries[n]
          /\ log' = [log EXCEPT ![i] = merged]
      BY <1>1, <2>4, <2>7
    <3> HIDE DEF s, es, i
    <3>2. i \in Node /\ HasPrev(log[i], m)
      BY <1>1
    <3> QED
      BY <1>2, <1>3, <2>1, <2>6, <2>7, <3>1, <3>2, StoreRequest DEF LogInv
  <2> QED
    BY <1>2, <2>8, CandidatesStay DEF LogInv
<1> QED
  BY <1>4, <1>5

\* raft_recv_appendentries, each way it ends.
LEMMA AppendLogs ==
  ASSUME TypeOK, TypeOK', LogInv, NEW m \in msgs,
         RefuseStaleAppend(m) \/ RefuseMissingPrev(m) \/ RefuseConflictingPrev(m)
           \/ AcceptAppend(m)
  PROVE  LogInv'
<1> DEFINE i == m.to
           l == log[i]
<1>1. i \in Node /\ l \in Seq(Entry) /\ Len(l) \in Nat
  <2>1. i \in Node
    BY MessageFields
  <2>2. l \in Seq(Entry)
    BY <2>1 DEF TypeOK
  <2> QED
    BY <2>1, <2>2
<1>2. ASSUME NEW b, NEW n, NEW ct, NEW ci, Send({AppendReply(m, b, n, ct, ci)})
      PROVE  \E ms : msgs' \subseteq msgs \cup ms /\ \A r \in ms : r.type # "AppendEntries"
  <2>1. PICK ms : ms = {AppendReply(m, b, n, ct, ci)}
    OBVIOUS
  <2>2. msgs' \subseteq msgs \cup ms /\ \A r \in ms : r.type # "AppendEntries"
    BY <1>2, <2>1 DEF Send, AppendReply
  <2> QED
    BY <2>2
<1>3. CASE RefuseStaleAppend(m)
  <2>1. /\ UNCHANGED <<log, elections, state, current_term>>
        /\ Send({AppendReply(m, FALSE, 0, 0, 0)})
    BY <1>3 DEF RefuseStaleAppend, voteVars, logVars
  <2>2. PICK ms : msgs' \subseteq msgs \cup ms /\ \A r \in ms : r.type # "AppendEntries"
    BY <1>2, <2>1
  <2> QED
    BY <2>1, <2>2, SameLogsNoAppend DEF RolesStay
<1>4. CASE RefuseMissingPrev(m)
  <2>1. RolesStay /\ UNCHANGED <<log, elections>> /\ Send({AppendReply(m, FALSE, Len(l), 0, 0)})
    BY <1>4, RecognizeRoles DEF RefuseMissingPrev, logVars
  <2>2. PICK ms : msgs' \subseteq msgs \cup ms /\ \A r \in ms : r.type # "AppendEntries"
    BY <1>2, <2>1
  <2> QED
    BY <2>1, <2>2, SameLogsNoAppend
<1>5. CASE RefuseConflictingPrev(m)
  <2> DEFINE prev == m.prev_index
             cut == SubSeq(l, 1, prev - 1)
  <2>1. /\ RolesStay /\ state'[i] # Leader /\ UNCHANGED elections
        /\ prev \in DOMAIN l /\ log' = [log EXCEPT ![i] = cut]
        /\ Send({AppendReply(m, FALSE, prev - 1, l[prev].term, FirstOfTerm(l, l[prev].term))})
    BY <1>5, RecognizeRoles DEF RefuseConflictingPrev
  <2>2. PICK ms : msgs' \subseteq msgs \cup ms /\ \A r \in ms : r.type # "AppendEntries"
    BY <1>2, <2>1
  <2>3. prev \in 1 .. Len(l) /\ prev - 1 \in Nat
    BY <1>1, <2>1
  <2>4. /\ cut \in Seq(Entry) /\ Len(cut) <= Len(l)
        /\ \A n \in 1 .. Len(cut) : cut[n] = l[n]
    BY <1>1, <2>3, SubSeqProperties
  <2>5. LeadersStay
    BY <1>1, <2>1 DEF LeadersStay, RolesStay, Leader, Follower, TypeOK
  <2>6. PICK s : s = cut
    OBVIOUS
  <2>7. PiecesInv'
    <3>1. /\ s \in Seq(Entry) /\ Len(s) <= Len(log[i])
          /\ \A n \in 1 .. Len(s) : s[n] = log[i][n]
          /\ log' = [log EXCEPT ![i] = s] /\ elections \subseteq elections'
      BY <2>1, <2>4, <2>6
    <3> HIDE DEF i
    <3> QED
      BY <1>1, <2>2, <2>5, <3>1, KeepPrefix DEF LogInv
  <2> QED
    BY <2>1, <2>7, CandidatesStay DEF LogInv
<1>6. CASE AcceptAppend(m)
  BY <1>6, AcceptLogs
<1> QED
  BY <1>3, <1>4, <1>5, <1>6

\* The other messages: votes, and what a leader does with replies.
LEMMA OtherMessageLogs ==
  ASSUME TypeOK, TypeOK', ElectionInv, ElectionInv', LogInv, NEW m \in msgs,
         \/ RecvPrevote(m) \/ RecvRequestVote(m) \/ CrashWhileVoting(m)
         \/ RecvPrevoteReply(m) \/ RecvVoteReply(m) \/ RecvHigherTermReply(m)
         \/ RecvAppendSuccess(m) \/ RecvAppendRefusal(m)
  PROVE  LogInv'
<1>1. m.to \in Node /\ current_term[m.to] \in Nat
  BY MessageFields DEF TypeOK
<1>2. ASSUME NEW t, NEW g, Send({VoteReply(m, t, g)})
      PROVE  \E ms : msgs' \subseteq msgs \cup ms /\ \A r \in ms : r.type # "AppendEntries"
  <2>1. PICK ms : ms = {VoteReply(m, t, g)}
    OBVIOUS
  <2>2. msgs' \subseteq msgs \cup ms /\ \A r \in ms : r.type # "AppendEntries"
    BY <1>2, <2>1 DEF Send, VoteReply
  <2> QED
    BY <2>2
<1>3. ASSUME UNCHANGED <<log, elections, msgs>>, RolesStay PROVE LogInv'
  <2>1. PICK ms : ms = {}
    OBVIOUS
  <2>2. msgs' \subseteq msgs \cup ms /\ \A r \in ms : r.type # "AppendEntries"
    BY <1>3, <2>1
  <2> QED
    BY <1>3, <2>2, SameLogsNoAppend
<1>4. ASSUME NEW v, NEW l, BecomeFollower(m.to, m.term, v, l) PROVE RolesStay
  BY <1>1, <1>4 DEF BecomeFollower, RolesStay, TypeOK
<1>5. CASE RecvPrevote(m)
  <2>1. /\ UNCHANGED <<log, elections, state, current_term>>
        /\ \E g : Send({VoteReply(m, current_term[m.to], g)})
    BY <1>5 DEF RecvPrevote, voteVars, logVars
  <2>2. PICK ms : msgs' \subseteq msgs \cup ms /\ \A r \in ms : r.type # "AppendEntries"
    BY <1>2, <2>1
  <2> QED
    BY <2>1, <2>2, SameLogsNoAppend DEF RolesStay
<1>6. CASE RecvRequestVote(m)
  <2>1. UNCHANGED <<log, elections>> /\ \E t, g : Send({VoteReply(m, t, g)})
    BY <1>6 DEF RecvRequestVote, logVars
  <2>2. PICK ms : msgs' \subseteq msgs \cup ms /\ \A r \in ms : r.type # "AppendEntries"
    BY <1>2, <2>1
  <2>3. \/ \E v : BecomeFollower(m.to, m.term, v, None)
        \/ UNCHANGED <<state, current_term>>
    BY <1>6 DEF RecvRequestVote, voteVars
  <2>4. RolesStay
    BY <1>4, <2>3 DEF RolesStay
  <2> QED
    BY <2>1, <2>2, <2>4, SameLogsNoAppend
<1>7. CASE CrashWhileVoting(m)
  BY <1>1, <1>7, CreateLogs DEF CrashWhileVoting
<1>8. CASE RecvPrevoteReply(m)
  <2>1. CASE BecomeCandidate(m.to)
    BY <1>1, <2>1, CandidateLogs
  <2>2. CASE ~BecomeCandidate(m.to)
    BY <1>3, <1>8, <2>2 DEF RecvPrevoteReply, RolesStay, logVars
  <2> QED
    BY <2>1, <2>2
<1>9. CASE RecvVoteReply(m)
  <2> DEFINE got == votes_for_me[m.to] \cup {m.from}
  <2>1. state[m.to] = Candidate /\ UNCHANGED current_term
    BY <1>9 DEF RecvVoteReply
  <2>2. CASE IsQuorum(got)
    <3>1. BecomeLeader(m.to, current_term[m.to], got)
      BY <1>9, <2>2 DEF RecvVoteReply
    <3>2. current_term' = [current_term EXCEPT ![m.to] = current_term[m.to]]
      BY <2>1 DEF TypeOK
    <3> QED
      BY <1>1, <2>1, <3>1, <3>2, NewLeaderLogs
  <2>3. CASE ~IsQuorum(got)
    BY <1>3, <1>9, <2>1, <2>3 DEF RecvVoteReply, RolesStay, logVars
  <2> QED
    BY <2>2, <2>3
<1>10. CASE RecvHigherTermReply(m)
  BY <1>3, <1>4, <1>10 DEF RecvHigherTermReply, logVars
<1>11. CASE RecvAppendSuccess(m) \/ RecvAppendRefusal(m)
  BY <1>3, <1>11 DEF RecvAppendSuccess, RecvAppendRefusal, RolesStay, voteVars, logVars
<1> QED
  BY <1>5, <1>6, <1>7, <1>8, <1>9, <1>10, <1>11

\* raft_tick, the client's calls and the lifecycle.
LEMMA CallLogs ==
  ASSUME TypeOK, TypeOK', ElectionInv, ElectionInv', LogInv, NEW i \in Node, Call(i)
  PROVE  LogInv'
<1>1. CASE TickElection(i)
  <2>1. CASE BecomeCandidate(i)
    BY <2>1, CandidateLogs
  <2>2. CASE StartPrevote(i)
    <3>1. PICK ms : ms = VoteRequests(i, current_term[i] + 1, TRUE)
      OBVIOUS
    <3>2. msgs' \subseteq msgs \cup ms /\ \A r \in ms : r.type # "AppendEntries"
      BY <2>2, <3>1 DEF StartPrevote, Send, VoteRequests
    <3>3. UNCHANGED <<log, elections>> /\ RolesStay
      BY <2>2 DEF StartPrevote, logVars, RolesStay
    <3> QED
      BY <3>2, <3>3, SameLogsNoAppend
  <2> QED
    BY <1>1, <2>1, <2>2 DEF TickElection
<1>2. CASE TickHeartbeat(i) \/ SendRound(i)
  BY <1>2, HeartbeatLogs
<1>3. CASE TickApply(i) \/ Shutdown(i)
  <2>1. UNCHANGED <<log, elections, msgs>> /\ RolesStay
    BY <1>3 DEF TickApply, Shutdown, voteVars, logVars, RolesStay
  <2>2. PICK ms : ms = {}
    OBVIOUS
  <2>3. msgs' \subseteq msgs \cup ms /\ \A r \in ms : r.type # "AppendEntries"
    BY <2>1, <2>2
  <2> QED
    BY <2>1, <2>3, SameLogsNoAppend
<1>4. CASE \/ \E d \in Data \cup {Noop} : Propose(i, d)
           \/ \E ds \in Batches : ProposeBatch(i, ds)
           \/ \E ds \in Batches : \E n \in 1 .. Len(ds) - 1 : AbortBatch(i, ds, n)
  BY <1>4, ProposalLogs
<1>5. CASE Restart(i)
  BY <1>5, CreateLogs DEF Restart
<1> QED
  BY <1>1, <1>2, <1>3, <1>4, <1>5 DEF Call

\* The invariant is inductive.
LEMMA LogStep ==
  TypeOK /\ TypeOK' /\ ElectionInv /\ ElectionInv' /\ LogInv /\ [Next]_vars => LogInv'
<1> SUFFICES ASSUME TypeOK, TypeOK', ElectionInv, ElectionInv', LogInv, [Next]_vars
             PROVE  LogInv'
  OBVIOUS
<1>1. ASSUME NEW m \in msgs, Receive(m) PROVE LogInv'
  BY <1>1, AppendLogs, OtherMessageLogs DEF Receive
<1>2. ASSUME NEW i \in Node, Call(i) PROVE LogInv'
  BY <1>2, CallLogs
<1>3. CASE UNCHANGED vars
  <2>1. UNCHANGED <<log, elections, msgs>> /\ RolesStay
    BY <1>3 DEF vars, voteVars, logVars, RolesStay
  <2>2. PICK ms : ms = {}
    OBVIOUS
  <2>3. msgs' \subseteq msgs \cup ms /\ \A r \in ms : r.type # "AppendEntries"
    BY <2>1, <2>2
  <2> QED
    BY <2>1, <2>3, SameLogsNoAppend
<1> QED
  BY <1>1, <1>2, <1>3 DEF Next

\* A new cluster has empty logs and no messages.
LEMMA LogInit == Init => LogInv
<1> SUFFICES ASSUME Init PROVE LogInv
  OBVIOUS
<1>1. ASSUME NEW p \in Pieces
      PROVE  p = Whole(<<>>) /\ Span(p) = {0} /\ First(p) = 0 /\ TermIn(p, 0) = 0
  <2>1. p = Whole(<<>>)
    BY DEF Init, Pieces, Carriers
  <2>2. <<>> \in Seq(Entry) /\ 0 .. Len(<<>>) = {0}
    OBVIOUS
  <2> QED
    BY <2>1, <2>2, WholeType
<1>2. PiecesAgree
  BY <1>1, AgreeReflexive DEF PiecesAgree
<1>3. StartsAtZero /\ TermsElected
  BY <1>1 DEF StartsAtZero, TermsElected
<1>4. LeadersHold /\ CandidatesUnelected
  BY DEF Init, LeadersHold, CandidatesUnelected, Follower, Leader, Candidate
<1> QED
  BY <1>2, <1>3, <1>4 DEF LogInv, PiecesInv
-----------------------------------------------------------------------------
(***************************************************************************)
(* Theorems about the logs.                                                *)
(***************************************************************************)
\* The logs, and the requests in flight, of a cluster always satisfy LogInv.
THEOREM LogInvariant == Spec => []LogInv
<1>1. TypeOK /\ TypeOK' /\ ElectionInv /\ ElectionInv' /\ LogInv /\ [Next]_vars => LogInv'
  BY LogStep
<1> QED
  BY <1>1, LogInit, TypeCorrect, ElectionInvariant, PTL DEF Spec

\* Where two logs of nodes have the same term at an index, they have the same entry.
LEMMA LogsAgree ==
  ASSUME TypeOK, LogInv, NEW i \in Node, NEW j \in Node,
         NEW k \in DOMAIN log[i] \cap DOMAIN log[j], log[i][k].term = log[j][k].term
  PROVE  \A n \in 1 .. k : n \in DOMAIN log[i] \cap DOMAIN log[j] /\ log[i][n] = log[j][n]
<1> DEFINE p == Whole(log[i])
           q == Whole(log[j])
<1>1. /\ log[i] \in Seq(Entry) /\ log[j] \in Seq(Entry)
      /\ Len(log[i]) \in Nat /\ Len(log[j]) \in Nat
      /\ k \in 1 .. Len(log[i]) /\ k \in 1 .. Len(log[j])
  BY LogTyped
<1>2. Agree(p, q)
  BY LogIsPiece DEF LogInv, PiecesInv, PiecesAgree
<1>3. \A n \in 1 .. Len(log[i]) :
        n \in Span(p) /\ At(p, n) = log[i][n] /\ TermIn(p, n) = log[i][n].term /\ First(p) < n
  BY <1>1, WholeType
<1>4. \A n \in 1 .. Len(log[j]) :
        n \in Span(q) /\ At(q, n) = log[j][n] /\ TermIn(q, n) = log[j][n].term /\ First(q) < n
  BY <1>1, WholeType
<1> HIDE DEF p, q
<1>5. ASSUME NEW n \in 1 .. k
      PROVE  n \in DOMAIN log[i] \cap DOMAIN log[j] /\ log[i][n] = log[j][n]
  <2>1. n \in 1 .. Len(log[i]) /\ n \in 1 .. Len(log[j]) /\ n <= k
    BY <1>1
  <2>2. SameAt(p, q, n)
    BY <1>1, <1>2, <1>3, <1>4, <2>1 DEF Agree
  <2> QED
    BY <1>1, <1>3, <1>4, <2>1, <2>2 DEF SameAt
<1> QED
  BY <1>5

\* Log matching, whatever is lost, reordered or sent twice, and wherever nodes
\* restart with an empty log.
THEOREM LogsMatch == Spec => []LogMatching
<1>1. TypeOK /\ LogInv => LogMatching
  <2> SUFFICES ASSUME TypeOK, LogInv, NEW i \in Node, NEW j \in Node,
                      NEW k \in DOMAIN log[i] \cap DOMAIN log[j],
                      log[i][k].term = log[j][k].term
               PROVE  SubSeq(log[i], 1, k) = SubSeq(log[j], 1, k)
    BY DEF LogMatching
  <2>1. /\ log[i] \in Seq(Entry) /\ log[j] \in Seq(Entry)
        /\ k \in 1 .. Len(log[i]) /\ k \in 1 .. Len(log[j])
    BY LogTyped
  <2>2. \A n \in 1 .. k : log[i][n] = log[j][n]
    BY LogsAgree
  <2>3. /\ SubSeq(log[i], 1, k) \in Seq(Entry) /\ SubSeq(log[j], 1, k) \in Seq(Entry)
        /\ Len(SubSeq(log[i], 1, k)) = k /\ Len(SubSeq(log[j], 1, k)) = k
        /\ \A n \in 1 .. k : SubSeq(log[i], 1, k)[n] = log[i][n]
                             /\ SubSeq(log[j], 1, k)[n] = log[j][n]
    BY <2>1, SubSeqProperties
  <2>4. \A n \in 1 .. k : SubSeq(log[i], 1, k)[n] = SubSeq(log[j], 1, k)[n]
    BY <2>2, <2>3
  <2> QED
    BY <2>3, <2>4, SeqEqual
<1> QED
  BY <1>1, TypeCorrect, LogInvariant, PTL

\* A leader has every entry of its term that anybody has.
THEOREM LeadersHoldTheirTerm == Spec => []LeaderHoldsItsTerm
<1>1. TypeOK /\ LogInv => LeaderHoldsItsTerm
  <2> SUFFICES ASSUME TypeOK, LogInv, NEW i \in Node, NEW j \in Node, NEW k \in DOMAIN log[j],
                      state[i] = Leader, log[j][k].term = current_term[i]
               PROVE  k \in DOMAIN log[i] /\ log[i][k] = log[j][k]
    BY DEF LeaderHoldsItsTerm
  <2>1. /\ log[i] \in Seq(Entry) /\ log[j] \in Seq(Entry) /\ k \in 1 .. Len(log[j])
        /\ Len(log[j]) \in Nat
    BY LogTyped
  <2>2. k \in Span(Whole(log[j])) /\ k > 0 /\ TermIn(Whole(log[j]), k) = current_term[i]
    BY <2>1, WholeType
  <2>3. k \in 1 .. Len(log[i]) /\ log[i][k].term = current_term[i]
    BY <2>2, LogIsPiece DEF LogInv, PiecesInv, LeadersHold, Holds
  <2>4. k \in DOMAIN log[i] /\ log[i][k].term = log[j][k].term /\ k \in 1 .. k
    BY <2>1, <2>3
  <2> QED
    BY <2>4, LogsAgree
<1> QED
  BY <1>1, TypeCorrect, LogInvariant, PTL
-----------------------------------------------------------------------------
(***************************************************************************)
(* Next indexes.                                                           *)
(***************************************************************************)
\* A refusal that names the term of a conflict names where that term begins.
ConflictsPlaced ==
  \A m \in msgs : m.type = "AppendReply" /\ m.conflict_term > 0 => m.conflict_index > 0

NextInv == NextIndexPositive /\ ConflictsPlaced

\* The step sends no reply to an AppendEntries.
NoAppendReply == \A m \in msgs' \ msgs : m.type # "AppendReply"

\* A step that makes no leader and moves no next index, and sends no refusal
\* that names a term without its place.
LEMMA SameNext ==
  ASSUME NextInv, UNCHANGED next_index,
         \A i \in Node : state'[i] = Leader => state[i] = Leader,
         \A m \in msgs' \ msgs :
           m.type = "AppendReply" /\ m.conflict_term > 0 => m.conflict_index > 0
  PROVE  NextInv'
<1>1. NextIndexPositive'
  BY DEF NextInv, NextIndexPositive
<1>2. ConflictsPlaced'
  BY DEF NextInv, ConflictsPlaced
<1> QED
  BY <1>1, <1>2 DEF NextInv

\* Heartbeats and vote requests are no replies to AppendEntries.
LEMMA NotReplies ==
  /\ \A i, t, l, c, next : Send(Heartbeats(i, t, l, c, next)) => NoAppendReply
  /\ \A i, t, b : Send(VoteRequests(i, t, b)) => NoAppendReply
  /\ UNCHANGED msgs => NoAppendReply
<1>1. /\ \A i, t, l, c, next : \A m \in Heartbeats(i, t, l, c, next) : m.type # "AppendReply"
      /\ \A i, t, b : \A m \in VoteRequests(i, t, b) : m.type # "AppendReply"
  BY DEF Heartbeats, VoteRequests
<1> QED
  BY <1>1 DEF Send, NoAppendReply

\* A leader whose next indexes are positive before a step that writes only its own.
LEMMA OwnNext ==
  ASSUME TypeOK, NextInv, NEW i \in Node, NEW next \in [Node -> Nat],
         \A j \in Node : next[j] > 0,
         next_index' = [next_index EXCEPT ![i] = next],
         \A j \in Node \ {i} : state'[j] = Leader => state[j] = Leader,
         NoAppendReply
  PROVE  NextInv'
<1>1. ASSUME NEW a \in Node, NEW b \in Node, state'[a] = Leader
      PROVE  next_index'[a][b] > 0
  <2>1. CASE a = i
    BY <2>1 DEF TypeOK
  <2>2. CASE a # i
    BY <1>1, <2>2 DEF TypeOK, NextInv, NextIndexPositive
  <2> QED
    BY <2>1, <2>2
<1>2. ConflictsPlaced'
  BY DEF NextInv, ConflictsPlaced, NoAppendReply
<1> QED
  BY <1>1, <1>2 DEF NextInv, NextIndexPositive

\* A leader that has appended moves its own next index past its log.
LEMMA AppendedNext ==
  ASSUME TypeOK, NextInv, NEW i \in Node, state[i] = Leader, UNCHANGED state,
         NEW n \in Nat, OwnIndexes(i, next_index[i], match_index[i], n),
         NoAppendReply
  PROVE  NextInv'
<1>1. PICK next : next = [next_index[i] EXCEPT ![i] = n + 1]
  OBVIOUS
<1>2. next \in [Node -> Nat] /\ \A j \in Node : next[j] > 0
  BY <1>1 DEF TypeOK, NextInv, NextIndexPositive
<1>3. next_index' = [next_index EXCEPT ![i] = next]
  BY <1>1 DEF OwnIndexes
<1> QED
  BY <1>2, <1>3, OwnNext

\* A new leader starts past its log.
LEMMA LeaderNext ==
  ASSUME TypeOK, NextInv, NEW i \in Node, NEW t, NEW votes, BecomeLeader(i, t, votes)
  PROVE  NextInv'
<1>1. Len(log[i]) + 1 \in Nat /\ Len(log[i]) + 1 > 0 /\ Len(Append(log[i], EntryOf(t, Noop))) + 1 \in Nat
      /\ Len(Append(log[i], EntryOf(t, Noop))) + 1 > 0
  BY DEF TypeOK
<1>2. PICK next : next = [j \in Node |-> Len(log[i]) + 1]
  OBVIOUS
<1>3. PICK longer : longer = [next EXCEPT ![i] = Len(Append(log[i], EntryOf(t, Noop))) + 1]
  OBVIOUS
<1>4. /\ next \in [Node -> Nat] /\ \A j \in Node : next[j] > 0
      /\ longer \in [Node -> Nat] /\ \A j \in Node : longer[j] > 0
  BY <1>1, <1>2, <1>3
<1>5. /\ state' = [state EXCEPT ![i] = Leader]
      /\ next_index' = [next_index EXCEPT ![i] = next] \/ next_index' = [next_index EXCEPT ![i] = longer]
  BY <1>2, <1>3 DEF BecomeLeader, OwnIndexes
<1>6. \A j \in Node \ {i} : state'[j] = Leader => state[j] = Leader
  BY <1>5 DEF TypeOK
<1>7. NoAppendReply
  <2> DEFINE withNoop == Append(log[i], EntryOf(t, Noop))
             first == Heartbeats(i, t, log[i], commit_index[i], next)
             second == Heartbeats(i, t, withNoop, SoleCommit(i, Len(withNoop)), next)
  <2>1. Send(first) \/ Send(first \cup second)
    BY <1>2 DEF BecomeLeader
  <2>2. \A m \in first \cup second : m.type # "AppendReply"
    BY DEF Heartbeats
  <2> HIDE DEF first, second
  <2> QED
    BY <2>1, <2>2 DEF Send, NoAppendReply
<1> QED
  BY <1>4, <1>5, <1>6, <1>7, OwnNext

\* Standing for election, and being elected at once when alone.
LEMMA CandidateNext ==
  ASSUME TypeOK, NextInv, NEW i \in Node, BecomeCandidate(i)
  PROVE  NextInv'
<1>1. CASE BecomeLeader(i, current_term[i] + 1, {i})
  BY <1>1, LeaderNext
<1>2. CASE /\ state' = [state EXCEPT ![i] = Candidate]
           /\ Send(VoteRequests(i, current_term[i] + 1, FALSE))
           /\ UNCHANGED peerVars
  <2>1. NoAppendReply
    BY <1>2, NotReplies
  <2>2. \A j \in Node : state'[j] = Leader => state[j] = Leader
    BY <1>2 DEF TypeOK, Candidate, Leader
  <2> QED
    BY <1>2, <2>1, <2>2, SameNext DEF peerVars, NoAppendReply
<1> QED
  BY <1>1, <1>2 DEF BecomeCandidate

\* Where a leader goes on after a refusal is an index, whatever the refusal says.
LEMMA RolledBackPositive ==
  ASSUME NEW l \in Seq(Entry), NEW next \in Nat, next > 0, NEW m \in AppendReplyMsg,
         m.conflict_term > 0 => m.conflict_index > 0
  PROVE  RolledBack(l, next, m) > 0
<1>1. m.conflict_term \in Nat /\ m.conflict_index \in Nat /\ m.match_index \in Nat
  BY DEF AppendReplyMsg
<1>2. LastOfTerm(l, m.conflict_term) \in Nat
  BY <1>1, LastOfTermType
<1> QED
  BY <1>1, <1>2 DEF RolledBack

\* raft_create makes a follower, which has next indexes of no meaning.
LEMMA CreateNext ==
  ASSUME TypeOK, NextInv, NEW i \in Node, Create(i)
  PROVE  NextInv'
<1>1. PICK next : next = [j \in Node |-> 0]
  OBVIOUS
<1>2. /\ state' = [state EXCEPT ![i] = Follower]
      /\ next_index' = [next_index EXCEPT ![i] = next] /\ UNCHANGED msgs
  BY <1>1 DEF Create
<1>3. NextIndexPositive'
  BY <1>2 DEF TypeOK, NextInv, NextIndexPositive, Leader, Follower
<1>4. ConflictsPlaced'
  BY <1>2 DEF NextInv, ConflictsPlaced
<1> QED
  BY <1>3, <1>4 DEF NextInv

\* raft_recv_appendentries: what it answers, and that it makes no leader.
LEMMA AppendNext ==
  ASSUME TypeOK, NextInv, NEW m \in msgs,
         RefuseStaleAppend(m) \/ RefuseMissingPrev(m) \/ RefuseConflictingPrev(m)
           \/ AcceptAppend(m)
  PROVE  NextInv'
<1>1. UNCHANGED next_index /\ \A i \in Node : state'[i] = Leader => state[i] = Leader
  <2>1. CASE RefuseStaleAppend(m)
    BY <2>1 DEF RefuseStaleAppend, voteVars, peerVars
  <2>2. CASE RecognizeLeader(m)
    <3>1. RolesStay
      BY <2>2, RecognizeRoles
    <3>2. UNCHANGED next_index
      BY <2>2 DEF RecognizeLeader, peerVars
    <3> QED
      BY <3>1, <3>2 DEF RolesStay, Leader, Follower
  <2> QED
    BY <2>1, <2>2 DEF RefuseMissingPrev, RefuseConflictingPrev, AcceptAppend
<1>2. ASSUME NEW b, NEW n, NEW ct, NEW ci, ct > 0 => ci > 0,
             Send({AppendReply(m, b, n, ct, ci)})
      PROVE  NextInv'
  <2>1. \A r \in msgs' \ msgs : r = AppendReply(m, b, n, ct, ci)
    BY <1>2 DEF Send
  <2>2. AppendReply(m, b, n, ct, ci).conflict_term = ct
        /\ AppendReply(m, b, n, ct, ci).conflict_index = ci
    BY DEF AppendReply
  <2> QED
    BY <1>1, <1>2, <2>1, <2>2, SameNext
<1>3. CASE RefuseConflictingPrev(m)
  <2> DEFINE l == log[m.to]
  <2>1. l \in Seq(Entry) /\ m.prev_index \in DOMAIN l
    BY <1>3, MessageFields DEF RefuseConflictingPrev, TypeOK
  <2>2. FirstOfTerm(l, l[m.prev_index].term) \in DOMAIN l
    BY <2>1, FirstOfTermType
  <2>3. FirstOfTerm(l, l[m.prev_index].term) > 0
    BY <2>1, <2>2
  <2>4. Send({AppendReply(m, FALSE, m.prev_index - 1, l[m.prev_index].term,
                          FirstOfTerm(l, l[m.prev_index].term))})
    BY <1>3 DEF RefuseConflictingPrev
  <2> QED
    BY <1>2, <2>3, <2>4
<1>4. CASE RefuseStaleAppend(m) \/ RefuseMissingPrev(m) \/ AcceptAppend(m)
  <2>1. \E b, n : Send({AppendReply(m, b, n, 0, 0)})
    BY <1>4 DEF RefuseStaleAppend, RefuseMissingPrev, AcceptAppend
  <2> QED
    BY <1>2, <2>1
<1> QED
  BY <1>3, <1>4

\* raft_recv_appendentries_response.
LEMMA ReplyNext ==
  ASSUME TypeOK, NextInv, NEW m \in msgs, RecvAppendSuccess(m) \/ RecvAppendRefusal(m)
  PROVE  NextInv'
<1> DEFINE i == m.to
           j == m.from
<1>1. m \in AppendReplyMsg
  BY MessageFields DEF RecvAppendSuccess, RecvAppendRefusal
<1>2. /\ i \in Node /\ j \in Node /\ m.match_index \in Nat
      /\ next_index[i] \in [Node -> Nat] /\ log[i] \in Seq(Entry)
  BY <1>1 DEF AppendReplyMsg, TypeOK
<1>3. state[i] = Leader /\ UNCHANGED <<state, msgs>>
  BY DEF RecvAppendSuccess, RecvAppendRefusal, voteVars
<1>4. next_index[i][j] \in Nat /\ \A k \in Node : next_index[i][k] > 0
  BY <1>2, <1>3 DEF NextInv, NextIndexPositive
<1>5. ASSUME NEW n \in Nat, n > 0, next_index' = [next_index EXCEPT ![i] = [next_index[i] EXCEPT ![j] = n]]
      PROVE  NextInv'
  <2>1. PICK next : next = [next_index[i] EXCEPT ![j] = n]
    OBVIOUS
  <2>2. next \in [Node -> Nat] /\ \A k \in Node : next[k] > 0
    BY <1>2, <1>4, <1>5, <2>1
  <2>3. NoAppendReply
    BY <1>3, NotReplies
  <2>4. i \in Node /\ next_index' = [next_index EXCEPT ![i] = next]
    BY <1>2, <1>5, <2>1
  <2> QED
    BY <1>3, <2>2, <2>3, <2>4, OwnNext
<1>6. CASE RecvAppendSuccess(m)
  <2>1. CASE m.match_index > match_index[i][j]
    <3>1. PICK n : n = m.match_index + 1
      OBVIOUS
    <3>2. next_index' = [next_index EXCEPT ![i] = [next_index[i] EXCEPT ![j] = n]]
      BY <1>6, <2>1, <3>1 DEF RecvAppendSuccess
    <3>3. n \in Nat /\ n > 0
      BY <1>2, <3>1
    <3> QED
      BY <1>5, <3>2, <3>3
  <2>2. CASE ~(m.match_index > match_index[i][j])
    <3>1. next_index' = [next_index EXCEPT ![i] = next_index[i]]
      BY <1>6, <2>2 DEF RecvAppendSuccess
    <3>2. PICK n : n = next_index[i][j]
      OBVIOUS
    <3>3. [next_index[i] EXCEPT ![j] = n] = next_index[i]
      BY <1>2, <3>2
    <3>4. n \in Nat /\ n > 0
      BY <1>2, <1>4, <3>2
    <3> QED
      BY <1>5, <3>1, <3>3, <3>4
  <2> QED
    BY <2>1, <2>2
<1>7. CASE RecvAppendRefusal(m)
  <2>1. RolledBack(log[i], next_index[i][j], m) \in Nat
    BY <1>1, <1>2, <1>4, RolledBackType
  <2>2. RolledBack(log[i], next_index[i][j], m) > 0
    <3>1. m.conflict_term > 0 => m.conflict_index > 0
      BY <1>1 DEF NextInv, ConflictsPlaced, AppendReplyMsg
    <3> QED
      BY <1>1, <1>2, <1>4, <3>1, RolledBackPositive
  <2>3. next_index' = [next_index EXCEPT ![i] =
                         [next_index[i] EXCEPT ![j] = RolledBack(log[i], next_index[i][j], m)]]
    BY <1>7 DEF RecvAppendRefusal
  <2> QED
    BY <1>5, <2>1, <2>2, <2>3
<1> QED
  BY <1>6, <1>7

\* Votes, roles and a new life.
LEMMA VoteNext ==
  ASSUME TypeOK, NextInv, NEW m \in msgs,
         \/ RecvPrevote(m) \/ RecvRequestVote(m) \/ CrashWhileVoting(m)
         \/ RecvPrevoteReply(m) \/ RecvVoteReply(m) \/ RecvHigherTermReply(m)
  PROVE  NextInv'
<1>1. m.to \in Node
  BY MessageFields
<1>2. ASSUME UNCHANGED next_index, \A i \in Node : state'[i] = Leader => state[i] = Leader,
             UNCHANGED msgs \/ \E t, g : Send({VoteReply(m, t, g)})
      PROVE  NextInv'
  <2>1. \A t, g : VoteReply(m, t, g).type = "VoteReply"
    BY DEF VoteReply
  <2>2. NoAppendReply
    BY <1>2, <2>1 DEF Send, NoAppendReply
  <2> QED
    BY <1>2, <2>2, SameNext DEF NoAppendReply
<1>3. ASSUME NEW v, NEW l, BecomeFollower(m.to, m.term, v, l)
      PROVE  \A i \in Node : state'[i] = Leader => state[i] = Leader
  BY <1>1, <1>3 DEF BecomeFollower, TypeOK, Follower, Leader
<1>4. CASE RecvPrevote(m)
  BY <1>2, <1>4 DEF RecvPrevote, voteVars, peerVars
<1>5. CASE RecvRequestVote(m)
  <2>1. UNCHANGED next_index /\ \E t, g : Send({VoteReply(m, t, g)})
    BY <1>5 DEF RecvRequestVote, peerVars
  <2>2. \/ \E v : BecomeFollower(m.to, m.term, v, None)
        \/ UNCHANGED state
    BY <1>5 DEF RecvRequestVote, voteVars
  <2>3. \A i \in Node : state'[i] = Leader => state[i] = Leader
    BY <1>3, <2>2
  <2> QED
    BY <1>2, <2>1, <2>3
<1>6. CASE CrashWhileVoting(m)
  BY <1>1, <1>6, CreateNext DEF CrashWhileVoting
<1>7. CASE RecvPrevoteReply(m)
  <2>1. CASE BecomeCandidate(m.to)
    BY <1>1, <2>1, CandidateNext
  <2>2. CASE ~BecomeCandidate(m.to)
    BY <1>2, <1>7, <2>2 DEF RecvPrevoteReply, peerVars
  <2> QED
    BY <2>1, <2>2
<1>8. CASE RecvVoteReply(m)
  <2>1. CASE BecomeLeader(m.to, current_term[m.to], votes_for_me[m.to] \cup {m.from})
    BY <1>1, <2>1, LeaderNext
  <2>2. CASE ~BecomeLeader(m.to, current_term[m.to], votes_for_me[m.to] \cup {m.from})
    BY <1>2, <1>8, <2>2 DEF RecvVoteReply, peerVars
  <2> QED
    BY <2>1, <2>2
<1>9. CASE RecvHigherTermReply(m)
  BY <1>2, <1>3, <1>9 DEF RecvHigherTermReply, peerVars
<1> QED
  BY <1>4, <1>5, <1>6, <1>7, <1>8, <1>9

\* raft_tick, the client's calls and the lifecycle.
LEMMA CallNext ==
  ASSUME TypeOK, NextInv, NEW i \in Node, Call(i)
  PROVE  NextInv'
<1>1. log[i] \in Seq(Entry) /\ current_term[i] \in Nat
  BY DEF TypeOK
<1>2. CASE TickElection(i)
  <2>1. CASE BecomeCandidate(i)
    BY <2>1, CandidateNext
  <2>2. CASE StartPrevote(i)
    <3>1. NoAppendReply
      BY <2>2, NotReplies DEF StartPrevote
    <3> QED
      BY <2>2, <3>1, SameNext DEF StartPrevote, peerVars, NoAppendReply
  <2> QED
    BY <1>2, <2>1, <2>2 DEF TickElection
<1>3. CASE TickHeartbeat(i) \/ SendRound(i)
  <2>1. UNCHANGED <<next_index, state>>
        /\ Send(Heartbeats(i, current_term[i], log[i], commit_index[i], next_index[i]))
    BY <1>3 DEF TickHeartbeat, SendRound, peerVars, voteVars
  <2> QED
    BY <2>1, NotReplies, SameNext DEF NoAppendReply
<1>4. CASE TickApply(i) \/ Shutdown(i)
  <2>1. UNCHANGED <<next_index, state, msgs>>
    BY <1>4 DEF TickApply, Shutdown, peerVars, voteVars
  <2> QED
    BY <2>1, NotReplies, SameNext DEF NoAppendReply
<1>5. ASSUME NEW d \in Data \cup {Noop}, Propose(i, d) PROVE NextInv'
  <2>1. PICK n : n = Len(Append(log[i], EntryOf(current_term[i], d)))
    OBVIOUS
  <2>2. n \in Nat
    BY <1>1, <2>1, AppendEntryType
  <2>3. state[i] = Leader /\ UNCHANGED state /\ OwnIndexes(i, next_index[i], match_index[i], n)
    BY <1>5, <2>1 DEF Propose, MayPropose, voteVars
  <2>4. NoAppendReply
    BY <1>5, NotReplies DEF Propose
  <2> QED
    BY <2>2, <2>3, <2>4, AppendedNext
<1>6. ASSUME NEW ds \in Batches, ProposeBatch(i, ds) PROVE NextInv'
  <2>1. PICK n : n = Len(log[i] \o EntriesOf(current_term[i], ds))
    OBVIOUS
  <2>2. n \in Nat
    <3>1. EntriesOf(current_term[i], ds) \in Seq(Entry)
      BY <1>1, EntriesOfType, PayloadAssumption
    <3>2. PICK l : l = log[i] \o EntriesOf(current_term[i], ds)
      OBVIOUS
    <3>3. l \in Seq(Entry)
      BY <1>1, <3>1, <3>2
    <3>4. Len(l) \in Nat
      BY <3>3
    <3>5. n = Len(l)
      BY <2>1, <3>2, Zenon
    <3> QED
      BY <3>4, <3>5
  <2>3. state[i] = Leader /\ UNCHANGED state /\ OwnIndexes(i, next_index[i], match_index[i], n)
    BY <1>6, <2>1 DEF ProposeBatch, MayPropose, voteVars
  <2>4. NoAppendReply
    BY <1>6, NotReplies DEF ProposeBatch
  <2> QED
    BY <2>2, <2>3, <2>4, AppendedNext
<1>7. ASSUME NEW ds \in Batches, NEW n \in 1 .. Len(ds) - 1, AbortBatch(i, ds, n)
      PROVE  NextInv'
  <2>1. UNCHANGED <<next_index, state, msgs>>
    BY <1>7 DEF AbortBatch, peerVars, voteVars
  <2> QED
    BY <2>1, NotReplies, SameNext DEF NoAppendReply
<1>8. CASE Restart(i)
  BY <1>8, CreateNext DEF Restart
<1> QED
  BY <1>2, <1>3, <1>4, <1>5, <1>6, <1>7, <1>8 DEF Call

\* A leader's next index for a peer stays positive: raft_peer_needs_snapshot is
\* never asked about index 0, and next_index - 1 never wraps.
THEOREM NextIndexesPositive == Spec => []NextIndexPositive
<1>1. Init => NextInv
  BY DEF Init, NextInv, NextIndexPositive, ConflictsPlaced, Leader, Follower
<1>2. TypeOK /\ NextInv /\ [Next]_vars => NextInv'
  <2> SUFFICES ASSUME TypeOK, NextInv, [Next]_vars PROVE NextInv'
    OBVIOUS
  <2>1. ASSUME NEW m \in msgs, Receive(m) PROVE NextInv'
    BY <2>1, AppendNext, ReplyNext, VoteNext DEF Receive
  <2>2. ASSUME NEW i \in Node, Call(i) PROVE NextInv'
    BY <2>2, CallNext
  <2>3. CASE UNCHANGED vars
    <3>1. UNCHANGED <<next_index, state, msgs>>
      BY <2>3 DEF vars, voteVars, peerVars
    <3> QED
      BY <3>1 DEF NextInv, NextIndexPositive, ConflictsPlaced
  <2> QED
    BY <2>1, <2>2, <2>3 DEF Next
<1>3. NextInv => NextIndexPositive
  BY DEF NextInv
<1> QED
  BY <1>1, <1>2, <1>3, TypeCorrect, PTL DEF Spec
=============================================================================
