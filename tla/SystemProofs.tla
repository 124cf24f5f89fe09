---------------------------- MODULE SystemProofs ----------------------------
(***************************************************************************)
(* Proofs about System, for any number of servers, clients, payloads,      *)
(* connections, crashes and restarts.                                      *)
(***************************************************************************)
EXTENDS System, ChainProofs, Arithmetic, SequenceTheorems, FiniteSetTheorems

(***************************************************************************)
(* What the operators of Net do to connections.                            *)
(***************************************************************************)

\* The links of the system: initiator and responder.
Links == ({Router} \X Servers) \cup (Clients \X {Router})

IsConn(k) ==
    /\ DOMAIN k = {"who", "open", "inbox", "reset", "key"}
    /\ k.who \in [Ends -> Procs] /\ <<k.who["init"], k.who["resp"]>> \in Links
    /\ k.open \in [Ends -> BOOLEAN]
    /\ DOMAIN k.inbox = Ends
    /\ k.reset \in BOOLEAN
    /\ k.key \in [Ends -> Keys]

\* The connections r differ from cs in c only, and there not in who is at
\* its ends and which of them are open.
OnlyAt(cs, r, c) ==
    /\ DOMAIN r = DOMAIN cs
    /\ \A d \in DOMAIN cs \ {c} : r[d] = cs[d]
    /\ IsConn(r[c]) /\ r[c].who = cs[c].who /\ r[c].open = cs[c].open

\* The two ends of a connection.
LEMMA EndsOf ==
    /\ Ends = {"init", "resp"} /\ "init" # "resp"
    /\ Other("init") = "resp" /\ Other("resp") = "init"
    /\ \A e \in Ends : Other(e) \in Ends /\ Other(e) # e /\ Other(Other(e)) = e
  BY DEF Ends, Other

\* Initiators and responders are different processes.
LEMMA LinkEnds ==
    ASSUME NEW i, NEW r, <<i, r>> \in Links
    PROVE  /\ i \in Procs /\ r \in Procs /\ i # r
           /\ i = Router => r \in Servers /\ r # Router
           /\ i # Router => i \in Clients /\ i \notin Servers /\ r = Router
           /\ r # Router => r \in Servers /\ r \notin Clients /\ i = Router
           /\ r = Router => i \in Clients
  BY NetAssumption DEF Links, Procs, Servers

-----------------------------------------------------------------------------
\* k2 is k after packet was sent from end e.
SentAt(k, k2, e, packet) ==
    /\ k2.who = k.who /\ k2.key = k.key /\ k2.inbox[e] = k.inbox[e]
    /\ k.open[Other(e)] =>
           /\ k2.inbox[Other(e)] = Append(k.inbox[Other(e)], packet)
           /\ k2.reset = k.reset
    /\ ~k.open[Other(e)] => k2.inbox = k.inbox /\ k2.reset

\* k2 is k after a recv at end e.
TakenAt(k, k2, e) ==
    /\ k2.who = k.who /\ k2.key = k.key /\ k2.reset = k.reset
    /\ k2.inbox[Other(e)] = k.inbox[Other(e)]
    /\ k.inbox[e] = << >> => k2.inbox[e] = << >>
    /\ \A p : k.inbox[e] = <<p>> => k2.inbox[e] = << >>

\* k2 is k with the key of end e set.
KeyedAt(k, k2, e, key) ==
    /\ k2.who = k.who /\ k2.inbox = k.inbox /\ k2.reset = k.reset
    /\ k2.key[e] = key /\ k2.key[Other(e)] = k.key[Other(e)]

\* send puts the packet into the inbox of the other end, if that is open,
\* and resets the connection otherwise.
LEMMA SentEffect ==
    ASSUME NEW cs, NEW c \in DOMAIN cs, IsConn(cs[c]), NEW e \in Ends,
           NEW packet
    PROVE  LET r == Sent(cs, c, e, packet) IN
           OnlyAt(cs, r, c) /\ SentAt(cs[c], r[c], e, packet)
<1> DEFINE o == Other(e)
<1>1. o \in Ends /\ o # e
  BY EndsOf
<1>2. CASE cs[c].open[o]
  <2> DEFINE r == [cs EXCEPT ![c].inbox[o] = Append(@, packet)]
  <2>1. Sent(cs, c, e, packet) = r
    BY <1>2 DEF Sent
  <2>2. /\ DOMAIN r = DOMAIN cs /\ \A d \in DOMAIN cs \ {c} : r[d] = cs[d]
        /\ r[c] = [cs[c] EXCEPT !.inbox[o] = Append(@, packet)]
    OBVIOUS
  <2> HIDE DEF r, o
  <2>3. /\ r[c].who = cs[c].who /\ r[c].open = cs[c].open
        /\ r[c].reset = cs[c].reset /\ r[c].key = cs[c].key
        /\ DOMAIN r[c] = DOMAIN cs[c]
        /\ r[c].inbox = [cs[c].inbox EXCEPT ![o] = Append(@, packet)]
    BY <2>2 DEF IsConn
  <2>4. /\ r[c].inbox[e] = cs[c].inbox[e]
        /\ r[c].inbox[o] = Append(cs[c].inbox[o], packet)
        /\ DOMAIN r[c].inbox = Ends
    BY <1>1, <2>3 DEF IsConn
  <2>5. IsConn(r[c])
    BY <2>3, <2>4 DEF IsConn
  <2> QED
    BY <1>2, <2>1, <2>2, <2>3, <2>4, <2>5 DEF OnlyAt, SentAt, o
<1>3. CASE ~cs[c].open[o]
  <2> DEFINE r == [cs EXCEPT ![c].reset = TRUE]
  <2>1. Sent(cs, c, e, packet) = r
    BY <1>3 DEF Sent
  <2>2. /\ DOMAIN r = DOMAIN cs /\ \A d \in DOMAIN cs \ {c} : r[d] = cs[d]
        /\ r[c] = [cs[c] EXCEPT !.reset = TRUE]
    OBVIOUS
  <2> HIDE DEF r, o
  <2>3. /\ r[c].who = cs[c].who /\ r[c].open = cs[c].open
        /\ r[c].inbox = cs[c].inbox /\ r[c].key = cs[c].key
        /\ DOMAIN r[c] = DOMAIN cs[c] /\ r[c].reset = TRUE
    BY <2>2 DEF IsConn
  <2>4. IsConn(r[c])
    BY <2>3 DEF IsConn
  <2> QED
    BY <1>3, <2>1, <2>2, <2>3, <2>4 DEF OnlyAt, SentAt, o
<1> QED
  BY <1>2, <1>3

\* recv takes the packet at the head of the inbox, if there is one.
LEMMA TakenEffect ==
    ASSUME NEW c \in DOMAIN conns, IsConn(conns[c]), NEW e \in Ends
    PROVE  LET r == Taken(c, e) IN
           OnlyAt(conns, r, c) /\ TakenAt(conns[c], r[c], e)
<1> DEFINE o == Other(e)
<1>1. o \in Ends /\ o # e
  BY EndsOf
<1>2. CASE conns[c].inbox[e] = << >>
  BY <1>1, <1>2 DEF Taken, AtEnd, OnlyAt, TakenAt
<1>3. CASE conns[c].inbox[e] # << >>
  <2> DEFINE r == [conns EXCEPT ![c].inbox[e] = Tail(@)]
  <2>1. Taken(c, e) = r
    BY <1>3 DEF Taken, AtEnd
  <2>2. /\ DOMAIN r = DOMAIN conns /\ \A d \in DOMAIN conns \ {c} : r[d] = conns[d]
        /\ r[c] = [conns[c] EXCEPT !.inbox[e] = Tail(@)]
    OBVIOUS
  <2> HIDE DEF r, o
  <2>3. /\ r[c].who = conns[c].who /\ r[c].open = conns[c].open
        /\ r[c].reset = conns[c].reset /\ r[c].key = conns[c].key
        /\ DOMAIN r[c] = DOMAIN conns[c]
        /\ r[c].inbox = [conns[c].inbox EXCEPT ![e] = Tail(@)]
    BY <2>2 DEF IsConn
  <2>4. /\ r[c].inbox[o] = conns[c].inbox[o]
        /\ r[c].inbox[e] = Tail(conns[c].inbox[e])
        /\ DOMAIN r[c].inbox = Ends
    BY <1>1, <2>3 DEF IsConn
  <2>5. IsConn(r[c])
    BY <2>3, <2>4 DEF IsConn
  <2>6. ASSUME NEW p, conns[c].inbox[e] = <<p>> PROVE r[c].inbox[e] = << >>
    BY <2>4, <2>6
  <2> QED
    BY <1>3, <2>1, <2>2, <2>3, <2>4, <2>5, <2>6 DEF OnlyAt, TakenAt, o
<1> QED
  BY <1>2, <1>3

\* Setting the key of one end.
LEMMA WithKeyEffect ==
    ASSUME NEW cs, NEW c \in DOMAIN cs, IsConn(cs[c]), NEW e \in Ends,
           NEW key \in Keys
    PROVE  LET r == WithKey(cs, c, e, key) IN
           OnlyAt(cs, r, c) /\ KeyedAt(cs[c], r[c], e, key)
<1> DEFINE o == Other(e)
<1>1. o \in Ends /\ o # e
  BY EndsOf
<1> DEFINE r == [cs EXCEPT ![c].key[e] = key]
<1>2. WithKey(cs, c, e, key) = r
  BY DEF WithKey
<1>3. /\ DOMAIN r = DOMAIN cs /\ \A d \in DOMAIN cs \ {c} : r[d] = cs[d]
      /\ r[c] = [cs[c] EXCEPT !.key[e] = key]
  OBVIOUS
<1> HIDE DEF r, o
<1>4. /\ r[c].who = cs[c].who /\ r[c].open = cs[c].open
      /\ r[c].inbox = cs[c].inbox /\ r[c].reset = cs[c].reset
      /\ DOMAIN r[c] = DOMAIN cs[c]
      /\ r[c].key = [cs[c].key EXCEPT ![e] = key]
  BY <1>3 DEF IsConn
<1>5. r[c].key \in [Ends -> Keys] /\ r[c].key[e] = key /\ r[c].key[o] = cs[c].key[o]
  BY <1>1, <1>4 DEF IsConn
<1>6. IsConn(r[c])
  BY <1>4, <1>5 DEF IsConn
<1> QED
  BY <1>2, <1>3, <1>4, <1>5, <1>6 DEF OnlyAt, KeyedAt, o

-----------------------------------------------------------------------------
\* k2 is k with end e closed.
ShutAt(k, k2, e, pending) ==
    /\ IsConn(k2) /\ k2.who = k.who
    /\ ~k2.open[e] /\ k2.open[Other(e)] = k.open[Other(e)]
    /\ k2.inbox[e] = << >> /\ k2.inbox[Other(e)] = k.inbox[Other(e)]
    /\ k2.key[Other(e)] = k.key[Other(e)]
    /\ k2.reset => k.reset \/ k.inbox[e] # << >> \/ pending

\* Closing an end empties its inbox and forgets its key.
LEMMA ShutEffect ==
    ASSUME NEW k, IsConn(k), NEW e \in Ends, NEW pending \in BOOLEAN
    PROVE  ShutAt(k, Shut(k, e, pending), e, pending)
<1> DEFINE o == Other(e)
           k2 == Shut(k, e, pending)
<1>1. o \in Ends /\ o # e
  BY EndsOf
<1>2. /\ DOMAIN k2 = DOMAIN k
      /\ k2.who = k.who
      /\ k2.open = [k.open EXCEPT ![e] = FALSE]
      /\ k2.inbox = [k.inbox EXCEPT ![e] = << >>]
      /\ k2.key = [k.key EXCEPT ![e] = "unset"]
      /\ k2.reset = (k.reset \/ k.inbox[e] # << >> \/ pending)
  BY DEF Shut, IsConn
<1> HIDE DEF k2, o
<1>3. k2.open \in [Ends -> BOOLEAN] /\ ~k2.open[e] /\ k2.open[o] = k.open[o]
  BY <1>1, <1>2 DEF IsConn
<1>4. DOMAIN k2.inbox = Ends /\ k2.inbox[e] = << >> /\ k2.inbox[o] = k.inbox[o]
  BY <1>1, <1>2 DEF IsConn
<1>5. k2.key \in [Ends -> Keys] /\ k2.key[o] = k.key[o]
  BY <1>1, <1>2 DEF IsConn, Keys
<1>6. k2.reset \in BOOLEAN
  BY <1>2
<1>7. IsConn(k2)
  BY <1>2, <1>3, <1>4, <1>5, <1>6 DEF IsConn
<1>8. k2.reset => k.reset \/ k.inbox[e] # << >> \/ pending
  BY <1>2
<1> QED
  BY <1>2, <1>3, <1>4, <1>5, <1>7, <1>8 DEF ShutAt, o, k2

\* close, with the other end open: that end stays.
LEMMA ClosedEffect ==
    ASSUME NEW cs, NEW c \in DOMAIN cs, IsConn(cs[c]), NEW e \in Ends
    PROVE  LET r == Closed(cs, c, e) IN
           /\ \A d \in DOMAIN cs \ {c} : d \in DOMAIN r /\ r[d] = cs[d]
           /\ DOMAIN r \subseteq DOMAIN cs
           /\ c \in DOMAIN r <=> cs[c].open[Other(e)]
           /\ c \in DOMAIN r => ShutAt(cs[c], r[c], e, FALSE)
<1>1. CASE cs[c].open[Other(e)]
  <2>1. Closed(cs, c, e) = [cs EXCEPT ![c] = Shut(cs[c], e, FALSE)]
    BY <1>1 DEF Closed
  <2>2. ShutAt(cs[c], Shut(cs[c], e, FALSE), e, FALSE)
    BY ShutEffect
  <2> QED
    BY <1>1, <2>1, <2>2
<1>2. CASE ~cs[c].open[Other(e)]
  <2>1. Closed(cs, c, e) = [d \in DOMAIN cs \ {c} |-> cs[d]]
    BY <1>2 DEF Closed
  <2> QED
    BY <1>2, <2>1
<1> QED
  BY <1>1, <1>2

\* The connections made to p that p has not accepted.
Members(q) == {q[n] : n \in 1 .. Len(q)}
Queue(p) == Members(backlog[p])

\* p has end e of the connection k open.
Has(p, k, e) == k.who[e] = p /\ k.open[e]

\* The death of p closes its ends; the ends of others stay, and a
\* connection goes with its last end.
LEMMA OrphanedEffect ==
    ASSUME NEW cs, NEW p, \A d \in DOMAIN cs : IsConn(cs[d])
    PROVE  LET r == Orphaned(cs, p) IN
           /\ DOMAIN r \subseteq DOMAIN cs
           /\ \A d \in DOMAIN cs, e \in Ends :
                  cs[d].open[e] /\ cs[d].who[e] # p => d \in DOMAIN r
           /\ \A d \in DOMAIN r :
                  \/ r[d] = cs[d] /\ \A e \in Ends : ~Has(p, cs[d], e)
                  \/ \E e \in Ends :
                        /\ Has(p, cs[d], e) /\ cs[d].open[Other(e)]
                        /\ ShutAt(cs[d], r[d], e, d \in Queue(p))
<1> DEFINE r == Orphaned(cs, p)
           D == {d \in DOMAIN cs : HasOpen(cs[d], p) =>
                     cs[d].open[Other(EndOf(cs[d], p))]}
<1>1. /\ DOMAIN r = D
      /\ \A d \in D : r[d] =
             IF HasOpen(cs[d], p)
             THEN Shut(cs[d], EndOf(cs[d], p),
                       \E i \in 1 .. Len(backlog[p]) : backlog[p][i] = d)
             ELSE cs[d]
  BY DEF Orphaned
<1>2. ASSUME NEW d \in DOMAIN cs, HasOpen(cs[d], p)
      PROVE  EndOf(cs[d], p) \in Ends /\ Has(p, cs[d], EndOf(cs[d], p))
  <2>1. cs[d].who["init"] # cs[d].who["resp"]
    BY LinkEnds DEF IsConn
  <2> QED
    BY <1>2, <2>1 DEF HasOpen, EndOf, Has, Ends
<1>3. ASSUME NEW d \in DOMAIN cs, ~HasOpen(cs[d], p)
      PROVE  \A e \in Ends : ~Has(p, cs[d], e)
  BY <1>3 DEF HasOpen, Has
<1> HIDE DEF r
<1>4. ASSUME NEW d \in DOMAIN cs, NEW e \in Ends,
             cs[d].open[e], cs[d].who[e] # p
      PROVE  d \in D
  <2> SUFFICES ASSUME HasOpen(cs[d], p) PROVE cs[d].open[Other(EndOf(cs[d], p))]
    OBVIOUS
  <2>1. EndOf(cs[d], p) \in Ends /\ EndOf(cs[d], p) # e
    BY <1>2, <1>4 DEF Has
  <2>2. Other(EndOf(cs[d], p)) = e
    BY <2>1 DEF Ends, Other
  <2> QED
    BY <1>4, <2>2
<1>5. ASSUME NEW d \in D
      PROVE  \/ r[d] = cs[d] /\ \A e \in Ends : ~Has(p, cs[d], e)
             \/ \E e \in Ends :
                   /\ Has(p, cs[d], e) /\ cs[d].open[Other(e)]
                   /\ ShutAt(cs[d], r[d], e, d \in Queue(p))
  <2>1. CASE ~HasOpen(cs[d], p)
    BY <1>1, <1>3, <2>1
  <2>2. CASE HasOpen(cs[d], p)
    <3>1. PICK e \in Ends : e = EndOf(cs[d], p) /\ Has(p, cs[d], e)
      BY <1>2, <2>2
    <3> DEFINE b == \E i \in 1 .. Len(backlog[p]) : backlog[p][i] = d
    <3>2. b => d \in Queue(p)
      BY DEF Queue, Members
    <3>3. r[d] = Shut(cs[d], e, b)
      BY <1>1, <2>2, <3>1, Zenon
    <3>4. ShutAt(cs[d], r[d], e, d \in Queue(p))
      <4>1. b \in BOOLEAN
        OBVIOUS
      <4> HIDE DEF b
      <4>2. ShutAt(cs[d], r[d], e, b)
        BY <3>3, <4>1, ShutEffect
      <4> QED
        BY <3>2, <4>2 DEF ShutAt
    <3> QED
      BY <2>2, <3>1, <3>4
  <2> QED
    BY <2>1, <2>2
<1> QED
  BY <1>1, <1>4, <1>5 DEF r

-----------------------------------------------------------------------------
\* A new connection: its number is free, and it is open and empty.
LEMMA ConnectedEffect ==
    ASSUME NEW p, NEW q, <<p, q>> \in Links, FreeConns # {}
    PROVE  LET r == Connected(p, q)
               c == FreshConn
           IN
           /\ c \in 1 .. MaxConns /\ c \notin DOMAIN conns
           /\ DOMAIN r = DOMAIN conns \cup {c}
           /\ \A d \in DOMAIN conns : r[d] = conns[d]
           /\ IsConn(r[c])
           /\ r[c].who["init"] = p /\ r[c].who["resp"] = q
           /\ r[c].open["init"] /\ r[c].open["resp"]
           /\ r[c].inbox["init"] = << >> /\ r[c].inbox["resp"] = << >>
           /\ r[c].key["init"] = "unset" /\ r[c].key["resp"] = "unset"
           /\ ~r[c].reset
<1> DEFINE c == FreshConn
           k == [who   |-> [e \in Ends |-> IF e = "init" THEN p ELSE q],
                 open  |-> [e \in Ends |-> TRUE],
                 inbox |-> [e \in Ends |-> << >>],
                 reset |-> FALSE,
                 key   |-> [e \in Ends |-> "unset"]]
<1>1. c \in FreeConns
  <2>1. FreeConns \subseteq Nat
    BY NetAssumption DEF FreeConns
  <2>2. \E x \in FreeConns : \A y \in FreeConns : x <= y
    BY <2>1, LeastNumber
  <2> QED
    BY <2>2 DEF FreshConn
<1> HIDE DEF c
<1>2. c \in 1 .. MaxConns /\ c \notin DOMAIN conns
  BY <1>1 DEF FreeConns
<1>3. /\ DOMAIN Connected(p, q) = DOMAIN conns \cup {c}
      /\ \A d \in DOMAIN conns : Connected(p, q)[d] = conns[d]
      /\ Connected(p, q)[c] = k
  BY <1>2 DEF Connected, c
<1>4. p \in Procs /\ q \in Procs
  BY LinkEnds
<1>5. /\ DOMAIN k = {"who", "open", "inbox", "reset", "key"}
      /\ k.who["init"] = p /\ k.who["resp"] = q
      /\ k.open["init"] /\ k.open["resp"] /\ ~k.reset
      /\ k.inbox["init"] = << >> /\ k.inbox["resp"] = << >>
      /\ k.key["init"] = "unset" /\ k.key["resp"] = "unset"
  BY DEF Ends
<1>6. /\ k.who \in [Ends -> Procs] /\ k.open \in [Ends -> BOOLEAN]
      /\ DOMAIN k.inbox = Ends
  BY <1>4
<1>7. k.reset \in BOOLEAN /\ k.key \in [Ends -> Keys]
  BY DEF Keys
<1> HIDE DEF k
<1>8. IsConn(k)
  BY <1>5, <1>6, <1>7 DEF IsConn
<1> QED
  BY <1>2, <1>3, <1>5, <1>8 DEF c

\* No connection is twice in a queue.
Distinct(q) == \A m, n \in 1 .. Len(q) : q[m] = q[n] => m = n

\* A connection joins a queue at its end.
LEMMA JoinQueue ==
    ASSUME NEW S, NEW q \in Seq(S), Distinct(q), NEW c \in S, c \notin Members(q)
    PROVE  /\ Append(q, c) \in Seq(S) /\ Distinct(Append(q, c))
           /\ Members(Append(q, c)) = Members(q) \cup {c}
<1> DEFINE r == Append(q, c)
<1>1. /\ r \in Seq(S) /\ Len(r) = Len(q) + 1 /\ Len(q) \in Nat
      /\ r[Len(q) + 1] = c /\ \A n \in 1 .. Len(q) : r[n] = q[n]
  OBVIOUS
<1> HIDE DEF r
<1>2. Members(r) = Members(q) \cup {c}
  <2>1. \A x : x \in Members(r) => x \in Members(q) \cup {c}
    BY <1>1 DEF Members
  <2>2. \A x : x \in Members(q) => x \in Members(r)
    BY <1>1 DEF Members
  <2>3. Len(q) + 1 \in 1 .. Len(r)
    BY <1>1
  <2>4. c \in Members(r)
    BY <1>1, <2>3 DEF Members
  <2> QED
    BY <2>1, <2>2, <2>4
<1>3. Distinct(r)
  BY <1>1 DEF Distinct, Members
<1> QED
  BY <1>1, <1>2, <1>3 DEF r

\* The connection that was first in a queue leaves it.
LEMMA LeaveQueue ==
    ASSUME NEW S, NEW q \in Seq(S), Distinct(q), q # << >>
    PROVE  /\ Head(q) \in S /\ Head(q) \in Members(q)
           /\ Tail(q) \in Seq(S) /\ Distinct(Tail(q))
           /\ Members(Tail(q)) = Members(q) \ {Head(q)}
<1>1. /\ Len(q) \in Nat \ {0} /\ Head(q) = q[1] /\ Tail(q) \in Seq(S)
      /\ Len(Tail(q)) = Len(q) - 1
      /\ \A n \in 1 .. Len(q) - 1 : Tail(q)[n] = q[n + 1]
  BY EmptySeq, HeadTailProperties
<1>2. PICK t \in Seq(S) : t = Tail(q)
  BY <1>1
<1>3. 1 \in 1 .. Len(q) /\ q[1] \in S
  BY <1>1
<1>4. Distinct(t)
  BY <1>1, <1>2 DEF Distinct
<1>5. Members(t) = Members(q) \ {q[1]}
  <2>1. ASSUME NEW x \in Members(t) PROVE x \in Members(q) /\ x # q[1]
    <3>1. PICK n \in 1 .. Len(t) : x = t[n]
      BY DEF Members
    <3>2. n + 1 \in 1 .. Len(q) /\ x = q[n + 1] /\ n + 1 # 1
      BY <1>1, <1>2, <3>1
    <3> QED
      BY <1>3, <3>2 DEF Distinct, Members
  <2>2. ASSUME NEW x \in Members(q), x # q[1] PROVE x \in Members(t)
    <3>1. PICK n \in 1 .. Len(q) : x = q[n]
      BY DEF Members
    <3>2. n - 1 \in 1 .. Len(t) /\ t[n - 1] = q[(n - 1) + 1] /\ (n - 1) + 1 = n
      BY <1>1, <1>2, <2>2, <3>1
    <3> QED
      BY <3>1, <3>2 DEF Members
  <2> QED
    BY <2>1, <2>2
<1> QED
  BY <1>1, <1>2, <1>3, <1>4, <1>5 DEF Members


(***************************************************************************)
(* What the processes are doing on a connection.  Its initiator i, the     *)
(* router on the connection to server r or a client on the one to the      *)
(* router, waits to send the client hello ("connected"), for the server    *)
(* hello ("server_hello"), for an answer ("await"), or is "idle".  Its     *)
(* responder r waits for the client hello, for a request ("serve"), or is  *)
(* the router, "busy" with a request.                                      *)
(***************************************************************************)
InitPc(i, r) ==
    IF i # Router THEN cpc[i]
    ELSE IF r = ri /\ rpc \in {"connected", "server_hello", "await"} THEN rpc
    ELSE "idle"

RespPc(r) ==
    IF r # Router THEN spc[r] ELSE IF rpc = "await" THEN "busy" ELSE rpc

InitSock(i, r) == IF i # Router THEN sockfd[i] ELSE server_sockets[r]
RespSock(r) == IF r # Router THEN ssock[r] ELSE client_sock
Wanted(i) == IF i # Router THEN cmd[i] ELSE request

InitPhase(c) ==
    IF conns[c].open["init"]
    THEN InitPc(conns[c].who["init"], conns[c].who["resp"])
    ELSE "gone"

RespPhase(c) ==
    IF ~conns[c].open["resp"] THEN "gone"
    ELSE IF RespSock(conns[c].who["resp"]) = c THEN RespPc(conns[c].who["resp"])
    ELSE "queued"

(***************************************************************************)
(* The packets on a connection k whose initiator is in phase i, waiting    *)
(* for the answer to want, and whose responder is in phase r; the router   *)
(* is busy with the request busy; dead are the processes that failed.      *)
(***************************************************************************)
Requests == {[kind |-> "RETRIEVE"]} \cup [kind : {"STORE"}, data : Data]
RequestsOf(who) ==
    IF who = Router THEN Requests ELSE Requests \cup {[kind |-> "EXIT"]}

ReplyKinds == {"INVALID", "NO_DATA", "BLOCKS"}
Replies ==
    {r \in [kind : ReplyKinds \cup {"NO_RESPONSE"}, blocks : Seq(Block)] :
        ReplyLen(r) \in 0 .. BlocksLen(2)}

\* No answer is longer than one that lists two blocks of every server.
ListMax == NUM_SERVERS * (11 + BlocksLen(2))

\* The inbox holds one packet: a data packet under the key of both ends.
OneData(inbox) ==
    /\ inbox # << >>
    /\ inbox = <<Head(inbox)>>
    /\ Head(inbox).type = "Data" /\ Head(inbox).key = "shared"
    /\ Head(inbox).len \in Nat

OneRequest(inbox, bodies) ==
    /\ OneData(inbox)
    /\ Head(inbox).len <= Least(SEGMENT_MAX, RECV_MAX)
    /\ Head(inbox).body \in bodies

\* body answers what who wanted.
IsAnswer(who, want, body) ==
    IF who # Router THEN AnswersCommand(want, body)
    ELSE IF want.kind = "STORE" THEN body.kind = "DATA_STORED"
    ELSE body \in Replies /\ body.kind \in ReplyKinds

OneAnswer(inbox, who, want) ==
    /\ OneData(inbox)
    /\ Head(inbox).len <= OVERHEAD + ListMax
    /\ IsAnswer(who, want, Head(inbox).body)

\* Both ends are open.
Talking(i, r, k, want, busy) ==
    LET in == k.inbox["init"]
        rin == k.inbox["resp"]
        ki == k.key["init"]
        kr == k.key["resp"]
    IN
    /\ ~k.reset
    /\ \/ /\ r \in {"queued", "client_hello"}
          /\ in = << >> /\ ki = "unset" /\ kr = "unset"
          /\ \/ i = "connected" /\ rin = << >>
             \/ i = "server_hello" /\ rin = <<ClientHello>>
       \/ /\ r = "serve" /\ i = "server_hello"
          /\ rin = << >> /\ ki = "unset" /\ kr \in {"shared", "garbage"}
          /\ in = <<ServerHello(kr)>>
       \/ /\ r = "serve" /\ i = "idle"
          /\ in = << >> /\ rin = << >> /\ ki = "shared" /\ kr = "shared"
       \/ /\ r = "serve" /\ i = "await"
          /\ ki = "shared" /\ kr = "shared"
          /\ \/ in = << >> /\ OneRequest(rin, {want})
             \/ rin = << >> /\ OneAnswer(in, k.who["init"], want)
       \/ /\ r = "busy" /\ i = "await"
          /\ in = << >> /\ rin = << >> /\ ki = "shared" /\ kr = "shared"
          /\ busy = want

\* The initiator has gone.
Left(r, k, dead) ==
    LET rin == k.inbox["resp"] IN
    /\ k.inbox["init"] = << >>
    /\ \/ /\ r \in {"queued", "client_hello"}
          /\ ~k.reset /\ k.key["resp"] = "unset"
          /\ \/ rin = <<ClientHello>>
             \/ rin = << >> /\ k.who["init"] \in dead
       \/ r = "serve" /\ rin = << >>
       \/ /\ r = "serve" /\ ~k.reset /\ k.key["resp"] = "shared"
          /\ OneRequest(rin, RequestsOf(k.who["init"]))
       \/ r = "busy" /\ ~k.reset /\ rin = << >>

\* The responder has gone.
Deserted(i, k, want, dead) ==
    LET in == k.inbox["init"] IN
    /\ k.inbox["resp"] = << >>
    /\ k.who["init"] = Router => k.who["resp"] \in dead
    /\ \/ i = "connected" /\ in = << >> /\ k.key["init"] = "unset"
       \/ /\ i = "server_hello" /\ k.key["init"] = "unset"
          /\ in \in {<< >>, <<ServerHello("shared")>>, <<ServerHello("garbage")>>}
       \/ i = "idle" /\ in = << >>
       \/ i = "await" /\ in = << >>
       \/ /\ i = "await" /\ k.key["init"] = "shared"
          /\ OneAnswer(in, k.who["init"], want)

Exchange(i, r, k, want, busy, dead) ==
    \/ i # "gone" /\ r # "gone" /\ Talking(i, r, k, want, busy)
    \/ i = "gone" /\ r # "gone" /\ Left(r, k, dead)
    \/ i # "gone" /\ r = "gone" /\ Deserted(i, k, want, dead)

-----------------------------------------------------------------------------
(***************************************************************************)
(* The inductive invariant.                                                *)
(***************************************************************************)
\* An end that is open belongs to a process that knows it.
Held(c) ==
    LET k == conns[c] IN
    /\ k.open["init"] => InitSock(k.who["init"], k.who["resp"]) = c
    /\ k.open["resp"] => \/ RespSock(k.who["resp"]) = c
                         \/ c \in Queue(k.who["resp"])

Coherent(c) ==
    Exchange(InitPhase(c), RespPhase(c), conns[c],
             Wanted(conns[c].who["init"]), request, failed)

ConnInv == \A c \in DOMAIN conns : IsConn(conns[c]) /\ Held(c) /\ Coherent(c)

\* What a process knows of is a connection of its own, with its end open.
InitEnd(c, i, r) ==
    /\ c \in DOMAIN conns /\ conns[c].open["init"]
    /\ conns[c].who["init"] = i /\ conns[c].who["resp"] = r

RespEnd(c, r) ==
    /\ c \in DOMAIN conns /\ conns[c].open["resp"] /\ conns[c].who["resp"] = r

SockInv ==
    /\ \A link \in Links :
           InitSock(link[1], link[2]) # NoConn =>
               InitEnd(InitSock(link[1], link[2]), link[1], link[2])
    /\ \A r \in Servers \cup {Router} :
           RespSock(r) # NoConn => RespEnd(RespSock(r), r)

QueueInv ==
    /\ backlog \in [Procs -> Seq(1 .. MaxConns)]
    /\ \A r \in Procs :
           /\ Distinct(backlog[r])
           /\ life[r] # "up" \/ r \in Clients => backlog[r] = << >>
           /\ \A c \in Queue(r) : RespEnd(c, r) /\ c # RespSock(r)

ServerInv ==
    /\ spc \in [Servers -> {"accept", "client_hello", "serve"}]
    /\ ssock \in [Servers -> 0 .. MaxConns]
    /\ \A s \in Servers :
           /\ ssock[s] = NoConn <=> spc[s] = "accept"
           /\ life[s] \in {"up", "killed", "ub"}
           /\ life[s] # "up" => spc[s] = "accept" /\ s \in failed
           /\ life[s] = "ub" => Router \in failed

RouterInv ==
    /\ rpc \in {"connect", "connected", "server_hello",
                "accept", "client_hello", "serve", "await"}
    /\ ri \in Servers
    /\ current_server \in Servers
    /\ server_sockets \in [Servers -> 0 .. MaxConns]
    /\ client_sock \in 0 .. MaxConns
    /\ \A s \in Servers :
           server_sockets[s] = NoConn <=>
               \/ rpc = "connect" /\ s >= ri
               \/ rpc \in {"connected", "server_hello"} /\ s > ri
    /\ client_sock = NoConn <=> rpc \notin {"client_hello", "serve", "await"}
    /\ life[Router] # "up" => rpc = "connect" /\ ri = 0
    /\ IF rpc = "await"
       THEN /\ request \in Requests
            /\ replies \in Seq(Replies)
            /\ Len(replies) = IF request.kind = "RETRIEVE" THEN ri ELSE 0
       ELSE request = NoRequest /\ replies = << >>
    /\ life[Router] = "sigpipe" => failed \cap Servers # {}
    /\ life[Router] = "ub" => failed \cap Clients # {}

ClientInv ==
    /\ cpc \in [Clients -> {"off", "connected", "server_hello", "idle", "await"}]
    /\ sockfd \in [Clients -> 0 .. MaxConns]
    /\ DOMAIN cmd = Clients
    /\ \A c \in Clients :
           /\ cpc[c] = "off" <=> life[c] # "up"
           /\ cpc[c] = "off" => sockfd[c] = NoConn
           /\ cpc[c] \in {"connected", "server_hello", "await"} =>
                  sockfd[c] # NoConn
           /\ IF cpc[c] = "await" THEN cmd[c] \in Requests ELSE cmd[c] = NoCommand

ShardInv ==
    /\ DOMAIN chain = Servers
    /\ \A s \in Servers : Chained(chain[s])
    /\ allocFails \in 0 .. MaxAllocFails

NetInv ==
    /\ life \in [Procs -> Lives]
    /\ failed \subseteq Procs
    /\ DOMAIN conns \subseteq 1 .. MaxConns

SysInv ==
    /\ NetInv /\ ConnInv /\ SockInv /\ QueueInv
    /\ ServerInv /\ ShardInv /\ RouterInv /\ ClientInv

-----------------------------------------------------------------------------
(***************************************************************************)
(* How the packets of a connection change with the phases of its ends.     *)
(***************************************************************************)
\* What an exchange depends on.
LEMMA ExchangeKeeps ==
    ASSUME NEW i, NEW r, NEW k, NEW w, NEW b, NEW f, Exchange(i, r, k, w, b, f),
           NEW w2, i = "await" => w2 = w,
           NEW b2, r = "busy" => b2 = b,
           NEW f2, f \subseteq f2
    PROVE  Exchange(i, r, k, w2, b2, f2)
<1>1. CASE i # "gone" /\ r # "gone"
  BY <1>1 DEF Exchange, Talking
<1>2. CASE i = "gone" /\ r # "gone"
  BY <1>2 DEF Exchange, Left
<1>3. CASE i # "gone" /\ r = "gone"
  BY <1>3 DEF Exchange, Deserted
<1> QED
  BY <1>1, <1>2, <1>3 DEF Exchange

\* accept.
LEMMA ExchangeAccept ==
    ASSUME NEW i, NEW k, NEW w, NEW b, NEW f, Exchange(i, "queued", k, w, b, f)
    PROVE  Exchange(i, "client_hello", k, w, b, f)
  BY DEF Exchange, Talking, Left

\* The initiator sends the client hello.
LEMMA ExchangeHello ==
    ASSUME NEW k, NEW k2, SentAt(k, k2, "init", ClientHello),
           NEW r, NEW w, NEW b, NEW f, Exchange("connected", r, k, w, b, f),
           r = "gone" <=> ~k.open["resp"]
    PROVE  Exchange("server_hello", r, k2, w, b, f)
<1>1. Append(<< >>, ClientHello) = <<ClientHello>>
  OBVIOUS
<1> QED
  BY <1>1, EndsOf DEF SentAt, Exchange, Talking, Deserted

\* The responder answers it: k1 is k with the hello taken, and k2 is k1 with
\* the key set.
LEMMA ExchangeAnswerHello ==
    ASSUME NEW k, NEW k1, NEW k2, NEW k3, NEW key \in {"shared", "garbage"},
           TakenAt(k, k1, "resp"), KeyedAt(k1, k2, "resp", key),
           SentAt(k2, k3, "resp", ServerHello(key)), k2.open = k.open,
           NEW i, NEW w, NEW b, NEW f, Exchange(i, "client_hello", k, w, b, f),
           i = "gone" <=> ~k.open["init"],
           k.inbox["resp"] # << >> \/ ~k.open["init"]
    PROVE  Exchange(i, "serve", k3, w, b, f)
<1>1. Append(<< >>, ServerHello(key)) = <<ServerHello(key)>>
  OBVIOUS
<1>2. k2.inbox["resp"] = << >> /\ k2.inbox["init"] = k.inbox["init"]
  BY EndsOf DEF TakenAt, KeyedAt, Exchange, Talking, Left
<1>3. CASE i # "gone"
  <2>1. /\ i = "server_hello" /\ k.inbox["init"] = << >> /\ ~k.reset
        /\ k.key["init"] = "unset"
    BY <1>3 DEF Exchange, Talking
  <2>2. k3.inbox["init"] = <<ServerHello(key)>> /\ k3.inbox["resp"] = << >>
    BY <1>1, <1>2, <1>3, <2>1, EndsOf DEF SentAt
  <2>3. k3.key["init"] = "unset" /\ k3.key["resp"] = key /\ ~k3.reset
    BY <1>3, <2>1, EndsOf DEF SentAt, KeyedAt, TakenAt
  <2> QED
    BY <2>1, <2>2, <2>3 DEF Exchange, Talking
<1>4. CASE i = "gone"
  <2>1. k3.inbox["init"] = << >> /\ k3.inbox["resp"] = << >>
    BY <1>2, <1>4, EndsOf DEF SentAt, Exchange, Left
  <2> QED
    BY <1>4, <2>1 DEF Exchange, Left
<1> QED
  BY <1>3, <1>4

\* The initiator receives the server hello, or the end of the connection.
LEMMA ExchangeHelloReceived ==
    ASSUME NEW k, NEW k1, NEW k2, TakenAt(k, k1, "init"),
           \/ k.inbox["init"] = << >> /\ k2 = k
           \/ /\ k.inbox["init"] # << >> /\ Head(k.inbox["init"]).key = "shared"
              /\ KeyedAt(k1, k2, "init", "shared"),
           NEW r, NEW w, NEW b, NEW f, Exchange("server_hello", r, k, w, b, f),
           r = "gone" <=> ~k.open["resp"],
           k.inbox["init"] # << >> \/ ~k.open["resp"]
    PROVE  Exchange("idle", r, k2, w, b, f)
<1>1. \A key : Head(<<ServerHello(key)>>).key = key
  BY DEF ServerHello, Hello
<1>2. CASE r # "gone"
  <2>1. /\ r = "serve" /\ k.inbox["resp"] = << >> /\ ~k.reset
        /\ k.inbox["init"] = <<ServerHello(k.key["resp"])>>
        /\ k.inbox["init"] # << >>
    BY <1>2 DEF Exchange, Talking
  <2>2. k.key["resp"] = "shared" /\ KeyedAt(k1, k2, "init", "shared")
    BY <1>1, <2>1
  <2>3. /\ k2.inbox["init"] = << >> /\ k2.inbox["resp"] = << >> /\ ~k2.reset
        /\ k2.key["init"] = "shared" /\ k2.key["resp"] = "shared"
    BY <2>1, <2>2, EndsOf DEF TakenAt, KeyedAt
  <2> QED
    BY <2>1, <2>3 DEF Exchange, Talking
<1>3. CASE r = "gone"
  <2>1. Deserted("server_hello", k, w, f)
    BY <1>3 DEF Exchange
  <2>2. k2.inbox["init"] = << >> /\ k2.inbox["resp"] = << >> /\ k2.who = k.who
    BY <2>1, EndsOf DEF Deserted, TakenAt, KeyedAt
  <2> QED
    BY <1>3, <2>1, <2>2 DEF Exchange, Deserted
<1> QED
  BY <1>2, <1>3

\* A data packet under the key of end e.
IsData(p, k, e) == p.type = "Data" /\ p.key = k.key[e] /\ p.len \in Nat

\* What one packet in an inbox looks like.
LEMMA OneInbox ==
    ASSUME NEW p, p.type = "Data", p.key = "shared", p.len \in Nat
    PROVE  OneData(Append(<< >>, p)) /\ Head(Append(<< >>, p)) = p
<1>1. Append(<< >>, p) = <<p>> /\ Head(<<p>>) = p /\ <<p>> # << >>
  OBVIOUS
<1> QED
  BY <1>1 DEF OneData

\* The initiator sends a request.
LEMMA ExchangeRequest ==
    ASSUME NEW k, NEW k2, NEW p, SentAt(k, k2, "init", p), IsData(p, k, "init"),
           p.len <= Least(SEGMENT_MAX, RECV_MAX),
           NEW r, NEW w, NEW b, NEW f, Exchange("idle", r, k, w, b, f),
           r = "gone" <=> ~k.open["resp"],
           NEW w2, p.body = w2
    PROVE  Exchange("await", r, k2, w2, b, f)
<1>1. CASE r # "gone"
  <2>1. /\ r = "serve" /\ ~k.reset
        /\ k.inbox["init"] = << >> /\ k.inbox["resp"] = << >>
        /\ k.key["init"] = "shared" /\ k.key["resp"] = "shared"
    BY <1>1 DEF Exchange, Talking
  <2>2. /\ k2.inbox["init"] = << >> /\ k2.inbox["resp"] = Append(<< >>, p)
        /\ ~k2.reset /\ k2.key = k.key
    BY <1>1, <2>1, EndsOf DEF SentAt
  <2>3. OneRequest(k2.inbox["resp"], {w2})
    BY <2>1, <2>2, OneInbox DEF OneRequest, IsData
  <2> QED
    BY <2>1, <2>2, <2>3 DEF Exchange, Talking
<1>2. CASE r = "gone"
  BY <1>2, EndsOf DEF Exchange, Deserted, SentAt
<1> QED
  BY <1>1, <1>2

\* A server answers a request.
LEMMA ExchangeRespond ==
    ASSUME NEW k, NEW k1, NEW k2, NEW p, TakenAt(k, k1, "resp"),
           SentAt(k1, k2, "resp", p), k1.open = k.open, IsData(p, k, "resp"),
           NEW i, NEW w, NEW b, NEW f, Exchange(i, "serve", k, w, b, f),
           i = "gone" <=> ~k.open["init"],
           k.inbox["resp"] # << >>, p.len <= OVERHEAD + ListMax,
           i = "await" => IsAnswer(k.who["init"], w, p.body)
    PROVE  Exchange(i, "serve", k2, w, b, f)
<1>1. CASE i # "gone"
  <2>1. /\ i = "await" /\ ~k.reset
        /\ k.inbox["init"] = << >> /\ OneRequest(k.inbox["resp"], {w})
        /\ k.key["init"] = "shared" /\ k.key["resp"] = "shared"
    BY <1>1 DEF Exchange, Talking
  <2>2. k1.inbox["resp"] = << >> /\ k1.inbox["init"] = << >>
    BY <2>1, EndsOf DEF TakenAt, OneRequest, OneData
  <2>3. /\ k2.inbox["resp"] = << >> /\ k2.inbox["init"] = Append(<< >>, p)
        /\ ~k2.reset /\ k2.key = k.key /\ k2.who = k.who
    BY <1>1, <2>1, <2>2, EndsOf DEF TakenAt, SentAt
  <2>4. OneAnswer(k2.inbox["init"], k2.who["init"], w)
    BY <2>1, <2>3, OneInbox DEF OneAnswer, IsData
  <2> QED
    BY <2>1, <2>3, <2>4 DEF Exchange, Talking
<1>2. CASE i = "gone"
  <2>1. k1.inbox["resp"] = << >> /\ k1.inbox["init"] = << >>
    BY <1>2, EndsOf DEF Exchange, Left, TakenAt, OneRequest, OneData
  <2>2. k2.inbox["resp"] = << >> /\ k2.inbox["init"] = << >>
    BY <1>2, <2>1, EndsOf DEF SentAt
  <2> QED
    BY <1>2, <2>2 DEF Exchange, Left
<1> QED
  BY <1>1, <1>2

\* The router takes a request of a client.
LEMMA ExchangeTake ==
    ASSUME NEW k, NEW k2, TakenAt(k, k2, "resp"),
           NEW i, NEW w, NEW b, NEW f, Exchange(i, "serve", k, w, b, f),
           k.inbox["resp"] # << >>
    PROVE  Exchange(i, "busy", k2, w, Head(k.inbox["resp"]).body, f)
<1>1. CASE i # "gone"
  <2>1. /\ i = "await" /\ ~k.reset
        /\ k.inbox["init"] = << >> /\ OneRequest(k.inbox["resp"], {w})
        /\ k.key["init"] = "shared" /\ k.key["resp"] = "shared"
    BY <1>1 DEF Exchange, Talking
  <2>2. /\ k2.inbox["resp"] = << >> /\ k2.inbox["init"] = << >>
        /\ ~k2.reset /\ k2.key = k.key
    BY <2>1, EndsOf DEF TakenAt, OneRequest, OneData
  <2> QED
    BY <2>1, <2>2 DEF Exchange, Talking, OneRequest
<1>2. CASE i = "gone"
  BY <1>2, EndsOf DEF Exchange, Left, TakenAt, OneRequest, OneData
<1> QED
  BY <1>1, <1>2

\* The router answers the client.
LEMMA ExchangeAnswer ==
    ASSUME NEW k, NEW k2, NEW p, SentAt(k, k2, "resp", p), IsData(p, k, "resp"),
           NEW i, NEW w, NEW b, NEW f, Exchange(i, "busy", k, w, b, f),
           i = "gone" <=> ~k.open["init"],
           p.len <= OVERHEAD + ListMax,
           k.who["init"] # Router, AnswersCommand(b, p.body),
           NEW b2
    PROVE  Exchange(i, "serve", k2, w, b2, f)
<1>1. CASE i # "gone"
  <2>1. /\ i = "await" /\ ~k.reset /\ b = w
        /\ k.inbox["init"] = << >> /\ k.inbox["resp"] = << >>
        /\ k.key["init"] = "shared" /\ k.key["resp"] = "shared"
    BY <1>1 DEF Exchange, Talking
  <2>2. /\ k2.inbox["resp"] = << >> /\ k2.inbox["init"] = Append(<< >>, p)
        /\ ~k2.reset /\ k2.key = k.key /\ k2.who = k.who
    BY <1>1, <2>1, EndsOf DEF SentAt
  <2>3. OneAnswer(k2.inbox["init"], k2.who["init"], w)
    BY <2>1, <2>2, OneInbox DEF OneAnswer, IsAnswer, IsData
  <2> QED
    BY <2>1, <2>2, <2>3 DEF Exchange, Talking
<1>2. CASE i = "gone"
  BY <1>2, EndsOf DEF Exchange, Left, SentAt
<1> QED
  BY <1>1, <1>2

\* The initiator takes the answer, or sees the end of the connection.
LEMMA ExchangeAnswered ==
    ASSUME NEW k, NEW k2, TakenAt(k, k2, "init"),
           NEW r, NEW w, NEW b, NEW f, Exchange("await", r, k, w, b, f),
           r = "gone" <=> ~k.open["resp"],
           k.inbox["init"] # << >> \/ ~k.open["resp"],
           NEW w2, NEW b2
    PROVE  Exchange("idle", r, k2, w2, b2, f)
<1>1. CASE r # "gone"
  <2>1. /\ r = "serve" /\ ~k.reset
        /\ k.inbox["resp"] = << >> /\ OneAnswer(k.inbox["init"], k.who["init"], w)
        /\ k.key["init"] = "shared" /\ k.key["resp"] = "shared"
    BY <1>1 DEF Exchange, Talking
  <2>2. /\ k2.inbox["resp"] = << >> /\ k2.inbox["init"] = << >>
        /\ ~k2.reset /\ k2.key = k.key
    BY <2>1, EndsOf DEF TakenAt, OneAnswer, OneData
  <2> QED
    BY <2>1, <2>2 DEF Exchange, Talking
<1>2. CASE r = "gone"
  BY <1>2, EndsOf DEF Exchange, Deserted, TakenAt, OneAnswer, OneData
<1> QED
  BY <1>1, <1>2

\* The initiator closes its end, after it took packets from its inbox or not.
LEMMA ExchangeInitCloses ==
    ASSUME NEW i, NEW r, NEW k0, NEW w, NEW b, NEW f, Exchange(i, r, k0, w, b, f),
           i # "gone", r # "gone",
           NEW k, k.who = k0.who, k.reset = k0.reset,
           k.key["resp"] = k0.key["resp"], k.inbox["resp"] = k0.inbox["resp"],
           k0.inbox["init"] = << >> => k.inbox["init"] = << >>,
           NEW k2, ShutAt(k, k2, "init", FALSE),
           NEW w2, NEW b2, NEW f2,
           i = "connected" => k.who["init"] \in f2,
           i = "await" => w \in RequestsOf(k.who["init"])
    PROVE  Exchange("gone", r, k2, w2, b2, f2)
<1>1. Talking(i, r, k0, w, b)
  BY DEF Exchange
<1>2. /\ k2.who = k0.who /\ k2.inbox["init"] = << >>
      /\ k2.inbox["resp"] = k0.inbox["resp"] /\ k2.key["resp"] = k0.key["resp"]
      /\ k0.inbox["init"] = << >> => ~k2.reset
  BY <1>1, EndsOf DEF ShutAt, Talking
<1>3. Left(r, k2, f2)
  BY <1>1, <1>2 DEF Talking, Left, OneRequest
<1> QED
  BY <1>3 DEF Exchange

\* The responder ends.
LEMMA ExchangeRespCloses ==
    ASSUME NEW i, NEW r, NEW k0, NEW w, NEW b, NEW f, Exchange(i, r, k0, w, b, f),
           i # "gone", r # "gone",
           NEW k, k.who = k0.who,
           k.key["init"] = k0.key["init"], k.inbox["init"] = k0.inbox["init"],
           NEW k2, NEW pending, ShutAt(k, k2, "resp", pending),
           NEW b2, NEW f2,
           k.who["init"] = Router => k.who["resp"] \in f2
    PROVE  Exchange(i, "gone", k2, w, b2, f2)
<1>1. Talking(i, r, k0, w, b)
  BY DEF Exchange
<1>2. /\ k2.who = k0.who /\ k2.inbox["resp"] = << >>
      /\ k2.inbox["init"] = k0.inbox["init"] /\ k2.key["init"] = k0.key["init"]
  BY <1>1, EndsOf DEF ShutAt
<1>3. Deserted(i, k2, w, f2)
  BY <1>1, <1>2 DEF Talking, Deserted
<1> QED
  BY <1>3 DEF Exchange

-----------------------------------------------------------------------------
(***************************************************************************)
(* What a step leaves alone.                                               *)
(***************************************************************************)
\* Every end is open or gone.
LEMMA PhaseGone ==
    ASSUME RouterInv, ClientInv, ServerInv, NEW c, IsConn(conns[c])
    PROVE  /\ InitPhase(c) = "gone" <=> ~conns[c].open["init"]
           /\ RespPhase(c) = "gone" <=> ~conns[c].open["resp"]
<1>1. <<conns[c].who["init"], conns[c].who["resp"]>> \in Links
  BY DEF IsConn
<1>2. InitPc(conns[c].who["init"], conns[c].who["resp"]) # "gone"
  BY <1>1, LinkEnds DEF InitPc, RouterInv, ClientInv
<1>3. RespPc(conns[c].who["resp"]) # "gone"
  <2>1. rpc # "gone"
    BY DEF RouterInv
  <2>2. \A s \in Servers : spc[s] # "gone"
    BY DEF ServerInv
  <2>3. conns[c].who["resp"] # Router => conns[c].who["resp"] \in Servers
    BY <1>1, LinkEnds
  <2> QED
    BY <2>1, <2>2, <2>3 DEF RespPc
<1> QED
  BY <1>2, <1>3 DEF InitPhase, RespPhase

\* A connection that a step does not concern.
LEMMA Undisturbed ==
    ASSUME NEW d, Coherent(d), conns'[d] = conns[d],
           InitPhase(d)' = InitPhase(d), RespPhase(d)' = RespPhase(d),
           InitPhase(d) = "await" =>
               Wanted(conns[d].who["init"])' = Wanted(conns[d].who["init"]),
           RespPhase(d) = "busy" => request' = request,
           failed \subseteq failed'
    PROVE  Coherent(d)'
<1>1. Coherent(d)' <=>
          Exchange(InitPhase(d), RespPhase(d), conns[d],
                   Wanted(conns[d].who["init"])', request', failed')
  BY DEF Coherent
<1>2. Exchange(InitPhase(d), RespPhase(d), conns[d],
               Wanted(conns[d].who["init"]), request, failed)
  BY DEF Coherent
<1> QED
  BY <1>1, <1>2, ExchangeKeeps

\* A step of server s does not concern the connections that are not its own.
LEMMA ServerFrame ==
    ASSUME NEW s \in Servers, NEW d, IsConn(conns[d]), Coherent(d),
           conns'[d] = conns[d], d # ssock[s], d # ssock'[s],
           \A t \in Servers \ {s} : spc'[t] = spc[t] /\ ssock'[t] = ssock[t],
           UNCHANGED <<routervars, clientvars, failed>>
    PROVE  Coherent(d)'
<1> DEFINE i == conns[d].who["init"]
           r == conns[d].who["resp"]
<1>1. <<i, r>> \in Links
  BY DEF IsConn
<1>2. InitPhase(d)' = InitPhase(d)
  BY DEF InitPhase, InitPc, routervars, clientvars
<1>3. RespPhase(d)' = RespPhase(d)
  <2>1. CASE r = Router
    BY <2>1 DEF RespPhase, RespSock, RespPc, routervars
  <2>2. CASE r # Router /\ r # s
    <3>1. r \in Servers \ {s}
      BY <1>1, <2>2, LinkEnds
    <3> QED
      BY <2>2, <3>1 DEF RespPhase, RespSock, RespPc
  <2>3. CASE r = s
    <3>1. s # Router
      BY NetAssumption DEF Servers
    <3> QED
      BY <2>3, <3>1 DEF RespPhase, RespSock, RespPc
  <2> QED
    BY <2>1, <2>2, <2>3
<1>4. Wanted(i)' = Wanted(i) /\ request' = request
  BY DEF Wanted, routervars, clientvars
<1> HIDE DEF i, r
<1> QED
  BY <1>2, <1>3, <1>4, Undisturbed DEF i, routervars

\* A step of client k does not concern the connections that are not its own.
LEMMA ClientFrame ==
    ASSUME NEW k \in Clients, NEW d, IsConn(conns[d]), Coherent(d), Held(d),
           conns'[d] = conns[d], d # sockfd[k],
           \A j \in Clients \ {k} : cpc'[j] = cpc[j] /\ cmd'[j] = cmd[j],
           UNCHANGED <<servervars, routervars, failed>>
    PROVE  Coherent(d)'
<1> DEFINE i == conns[d].who["init"]
           r == conns[d].who["resp"]
<1>1. <<i, r>> \in Links
  BY DEF IsConn
<1>2. RespPhase(d)' = RespPhase(d)
  BY DEF RespPhase, RespSock, RespPc, servervars, routervars
<1>3. conns[d].open["init"] => i # k
  <2>1. k # Router
    BY NetAssumption
  <2> QED
    BY <2>1 DEF Held, InitSock
<1>4. i # k => InitPc(i, r)' = InitPc(i, r) /\ Wanted(i)' = Wanted(i)
  <2>1. CASE i = Router
    BY <2>1 DEF InitPc, Wanted, routervars
  <2>2. CASE i # Router /\ i # k
    <3>1. i \in Clients \ {k}
      BY <1>1, <2>2, LinkEnds
    <3> QED
      BY <2>2, <3>1 DEF InitPc, Wanted
  <2> QED
    BY <2>1, <2>2
<1>5. InitPhase(d)' = InitPhase(d)
  BY <1>3, <1>4 DEF InitPhase
<1>6. InitPhase(d) = "await" => Wanted(i)' = Wanted(i)
  BY <1>3, <1>4 DEF InitPhase
<1> HIDE DEF i, r
<1> QED
  BY <1>2, <1>5, <1>6, Undisturbed DEF i, routervars

\* A step of the router does not concern a connection on which it is where
\* it was.
LEMMA RouterFrame ==
    ASSUME ServerInv, NEW d, IsConn(conns[d]), Coherent(d), conns'[d] = conns[d],
           conns[d].who["init"] = Router /\ conns[d].open["init"] =>
               /\ InitPc(Router, conns[d].who["resp"])'
                      = InitPc(Router, conns[d].who["resp"])
               /\ InitPc(Router, conns[d].who["resp"]) = "await" =>
                      request' = request,
           conns[d].who["resp"] = Router /\ conns[d].open["resp"] =>
               \/ d # client_sock /\ d # client_sock'
               \/ /\ client_sock' = client_sock
                  /\ RespPc(Router)' = RespPc(Router)
                  /\ RespPc(Router) = "busy" => request' = request,
           UNCHANGED <<servervars, clientvars, failed>>
    PROVE  Coherent(d)'
<1> DEFINE i == conns[d].who["init"]
           r == conns[d].who["resp"]
<1>1. <<i, r>> \in Links
  BY DEF IsConn
<1>2. InitPhase(d)' = InitPhase(d)
  <2>1. CASE i = Router
    BY <2>1 DEF InitPhase
  <2>2. CASE i # Router
    BY <2>2 DEF InitPhase, InitPc, clientvars
  <2> QED
    BY <2>1, <2>2
<1>3. InitPhase(d) = "await" => Wanted(i)' = Wanted(i)
  <2>1. CASE i = Router
    BY <2>1 DEF InitPhase, Wanted
  <2>2. CASE i # Router
    BY <2>2 DEF Wanted, clientvars
  <2> QED
    BY <2>1, <2>2
<1>4. RespPhase(d)' = RespPhase(d) /\ (RespPhase(d) = "busy" => request' = request)
  <2>1. CASE r = Router
    BY <2>1 DEF RespPhase, RespSock
  <2>2. CASE r # Router
    <3>1. r \in Servers
      BY <1>1, <2>2, LinkEnds
    <3>2. RespPhase(d)' = RespPhase(d)
      BY <2>2 DEF RespPhase, RespSock, RespPc, servervars
    <3>3. RespPhase(d) # "busy"
      BY <2>2, <3>1 DEF RespPhase, RespPc, ServerInv
    <3> QED
      BY <3>2, <3>3
  <2> QED
    BY <2>1, <2>2
<1> HIDE DEF i, r
<1> QED
  BY <1>2, <1>3, <1>4, Undisturbed DEF i

-----------------------------------------------------------------------------
(***************************************************************************)
(* Steps that only send and receive.                                       *)
(***************************************************************************)
SameEnds(cs, r) ==
    /\ DOMAIN r = DOMAIN cs
    /\ \A d \in DOMAIN cs :
           IsConn(r[d]) /\ r[d].who = cs[d].who /\ r[d].open = cs[d].open

\* A change of one connection, after another change or not.
LEMMA SameEndsStep ==
    ASSUME NEW cs, NEW c \in DOMAIN cs, \A d \in DOMAIN cs : IsConn(cs[d]),
           NEW r, OnlyAt(cs, r, c)
    PROVE  /\ SameEnds(cs, r)
           /\ \A q : SameEnds(r, q) => SameEnds(cs, q)
           /\ \A q : OnlyAt(r, q, c) => OnlyAt(cs, q, c)
<1>1. SameEnds(cs, r)
  BY DEF OnlyAt, SameEnds
<1>2. \A q : SameEnds(r, q) => SameEnds(cs, q)
  BY <1>1 DEF SameEnds
<1>3. \A q : OnlyAt(r, q, c) => OnlyAt(cs, q, c)
  BY DEF OnlyAt
<1> QED
  BY <1>1, <1>2, <1>3

\* Sending and receiving changes neither who is at the ends of a connection
\* nor which of them are open.
LEMMA TalkKeeps ==
    ASSUME SysInv, SameEnds(conns, conns'),
           UNCHANGED <<backlog, life, failed>>,
           UNCHANGED <<sockfd, server_sockets, ssock, client_sock>>,
           \A d \in DOMAIN conns : Coherent(d)'
    PROVE  NetInv' /\ ConnInv' /\ SockInv' /\ QueueInv'
<1>1. \A i, r : InitSock(i, r)' = InitSock(i, r) /\ RespSock(r)' = RespSock(r)
  BY DEF InitSock, RespSock
<1>2. \A r : Queue(r)' = Queue(r)
  BY DEF Queue
<1>3. NetInv'
  BY DEF SysInv, NetInv, SameEnds
<1>4. ConnInv'
  <2> SUFFICES ASSUME NEW c \in DOMAIN conns'
               PROVE  IsConn(conns'[c]) /\ Held(c)' /\ Coherent(c)'
    BY DEF ConnInv
  <2>1. c \in DOMAIN conns /\ IsConn(conns'[c]) /\ Coherent(c)'
    BY DEF SameEnds
  <2>2. Held(c)
    BY <2>1 DEF SysInv, ConnInv
  <2>3. conns'[c].who = conns[c].who /\ conns'[c].open = conns[c].open
    BY <2>1 DEF SameEnds
  <2>4. Held(c)'
    BY <1>1, <1>2, <2>2, <2>3 DEF Held
  <2> QED
    BY <2>1, <2>4
<1>5. \A c, i, r : InitEnd(c, i, r) => InitEnd(c, i, r)'
  BY DEF InitEnd, SameEnds
<1>6. \A c, r : RespEnd(c, r) => RespEnd(c, r)'
  BY DEF RespEnd, SameEnds
<1>7. SockInv'
  BY <1>1, <1>5, <1>6 DEF SysInv, SockInv
<1>8. QueueInv'
  BY <1>1, <1>2, <1>6 DEF SysInv, QueueInv
<1> QED
  BY <1>3, <1>4, <1>7, <1>8

\* What the invariant says of the connection at hand.
LEMMA AtServer ==
    ASSUME SysInv, NEW s \in Servers, ssock[s] # NoConn
    PROVE  LET c == ssock[s] IN
           /\ c \in DOMAIN conns /\ IsConn(conns[c]) /\ Held(c) /\ Coherent(c)
           /\ conns[c].open["resp"] /\ conns[c].who["resp"] = s
           /\ conns[c].who["init"] = Router
           /\ s # Router /\ s \in Procs
           /\ RespPhase(c) = spc[s]
<1> DEFINE c == ssock[s]
<1>1. s # Router /\ s \in Procs
  BY NetAssumption DEF Servers, Procs
<1>2. RespEnd(c, s)
  BY <1>1 DEF SysInv, SockInv, RespSock
<1>3. /\ c \in DOMAIN conns /\ IsConn(conns[c]) /\ Held(c) /\ Coherent(c)
      /\ conns[c].open["resp"] /\ conns[c].who["resp"] = s
  BY <1>2 DEF RespEnd, SysInv, ConnInv
<1>4. <<conns[c].who["init"], s>> \in Links
  BY <1>3 DEF IsConn
<1>5. conns[c].who["init"] = Router
  BY <1>1, <1>4, LinkEnds
<1>6. RespPhase(c) = spc[s]
  BY <1>1, <1>3 DEF RespPhase, RespSock, RespPc
<1> QED
  BY <1>1, <1>3, <1>5, <1>6

\* The same for the connection of a client.
LEMMA AtClient ==
    ASSUME SysInv, NEW k \in Clients, sockfd[k] # NoConn
    PROVE  LET c == sockfd[k] IN
           /\ c \in DOMAIN conns /\ IsConn(conns[c]) /\ Held(c) /\ Coherent(c)
           /\ conns[c].open["init"] /\ conns[c].who["init"] = k
           /\ conns[c].who["resp"] = Router
           /\ k # Router /\ k \in Procs
           /\ InitPhase(c) = cpc[k]
<1> DEFINE c == sockfd[k]
<1>1. k # Router /\ k \in Procs /\ <<k, Router>> \in Links
  BY NetAssumption DEF Procs, Links
<1>2. InitEnd(c, k, Router)
  <2>1. InitSock(k, Router) = c
    BY <1>1 DEF InitSock
  <2>2. \A link \in Links :
           InitSock(link[1], link[2]) # NoConn =>
               InitEnd(InitSock(link[1], link[2]), link[1], link[2])
    BY DEF SysInv, SockInv
  <2>3. PICK link \in Links : link = <<k, Router>>
    BY <1>1
  <2>4. link[1] = k /\ link[2] = Router
    BY <2>3
  <2> QED
    BY <2>1, <2>2, <2>4
<1>3. /\ c \in DOMAIN conns /\ IsConn(conns[c]) /\ Held(c) /\ Coherent(c)
      /\ conns[c].open["init"] /\ conns[c].who["init"] = k
      /\ conns[c].who["resp"] = Router
  BY <1>2 DEF InitEnd, SysInv, ConnInv
<1>4. InitPhase(c) = cpc[k]
  BY <1>1, <1>3 DEF InitPhase, InitPc
<1> QED
  BY <1>1, <1>3, <1>4

\* The router at the connection to server s.
LEMMA RouterToServer ==
    ASSUME SysInv, NEW s \in Servers, server_sockets[s] # NoConn
    PROVE  LET c == server_sockets[s] IN
           /\ c \in DOMAIN conns /\ IsConn(conns[c]) /\ Held(c) /\ Coherent(c)
           /\ conns[c].open["init"] /\ conns[c].who["init"] = Router
           /\ conns[c].who["resp"] = s
           /\ s # Router /\ s \in Procs
           /\ InitPhase(c) = InitPc(Router, s)
<1> DEFINE c == server_sockets[s]
<1>1. s # Router /\ s \in Procs /\ <<Router, s>> \in Links
  BY NetAssumption DEF Servers, Procs, Links
<1>2. InitEnd(c, Router, s)
  <2>1. InitSock(Router, s) = c
    BY <1>1 DEF InitSock
  <2>2. \A link \in Links :
           InitSock(link[1], link[2]) # NoConn =>
               InitEnd(InitSock(link[1], link[2]), link[1], link[2])
    BY DEF SysInv, SockInv
  <2>3. PICK link \in Links : link = <<Router, s>>
    BY <1>1
  <2>4. link[1] = Router /\ link[2] = s
    BY <2>3
  <2> QED
    BY <2>1, <2>2, <2>4
<1>3. /\ c \in DOMAIN conns /\ IsConn(conns[c]) /\ Held(c) /\ Coherent(c)
      /\ conns[c].open["init"] /\ conns[c].who["init"] = Router
      /\ conns[c].who["resp"] = s
  BY <1>2 DEF InitEnd, SysInv, ConnInv
<1>4. InitPhase(c) = InitPc(Router, s)
  BY <1>1, <1>3 DEF InitPhase
<1> QED
  BY <1>1, <1>3, <1>4

\* The router at the connection of a client.
LEMMA RouterToClient ==
    ASSUME SysInv, client_sock # NoConn
    PROVE  LET c == client_sock IN
           /\ c \in DOMAIN conns /\ IsConn(conns[c]) /\ Held(c) /\ Coherent(c)
           /\ conns[c].open["resp"] /\ conns[c].who["resp"] = Router
           /\ conns[c].who["init"] \in Clients /\ conns[c].who["init"] # Router
           /\ RespPhase(c) = RespPc(Router)
<1> DEFINE c == client_sock
<1>1. RespEnd(c, Router)
  <2>1. Router \in Servers \cup {Router} /\ RespSock(Router) = c
    BY DEF RespSock
  <2> QED
    BY <2>1 DEF SysInv, SockInv
<1>2. /\ c \in DOMAIN conns /\ IsConn(conns[c]) /\ Held(c) /\ Coherent(c)
      /\ conns[c].open["resp"] /\ conns[c].who["resp"] = Router
  BY <1>1 DEF RespEnd, SysInv, ConnInv
<1>3. <<conns[c].who["init"], Router>> \in Links
  BY <1>2 DEF IsConn
<1>4. conns[c].who["init"] \in Clients /\ conns[c].who["init"] # Router
  BY <1>3, LinkEnds
<1>5. RespPhase(c) = RespPc(Router)
  BY <1>2 DEF RespPhase, RespSock
<1> QED
  BY <1>2, <1>4, <1>5

-----------------------------------------------------------------------------
(***************************************************************************)
(* Accepting connections.                                                  *)
(***************************************************************************)
Responders == Servers \cup {Router}

\* The first connection in the queue of p.
LEMMA FirstInQueue ==
    ASSUME SysInv, NEW p \in Responders, backlog[p] # << >>
    PROVE  LET c == Head(backlog[p]) IN
           /\ c \in DOMAIN conns /\ c \in 1 .. MaxConns /\ c \in Queue(p)
           /\ IsConn(conns[c]) /\ Held(c) /\ Coherent(c)
           /\ conns[c].open["resp"] /\ conns[c].who["resp"] = p
           /\ c # RespSock(p) /\ RespPhase(c) = "queued"
<1> DEFINE c == Head(backlog[p])
<1>1. p \in Procs
  BY DEF Responders, Procs
<1>2. backlog[p] \in Seq(1 .. MaxConns) /\ Distinct(backlog[p])
  BY <1>1 DEF SysInv, QueueInv
<1>3. c \in 1 .. MaxConns /\ c \in Queue(p)
  BY <1>2, LeaveQueue DEF Queue
<1>4. RespEnd(c, p) /\ c # RespSock(p)
  BY <1>1, <1>3 DEF SysInv, QueueInv
<1>5. /\ c \in DOMAIN conns /\ IsConn(conns[c]) /\ Held(c) /\ Coherent(c)
      /\ conns[c].open["resp"] /\ conns[c].who["resp"] = p
  BY <1>4 DEF RespEnd, SysInv, ConnInv
<1>6. RespPhase(c) = "queued"
  BY <1>4, <1>5 DEF RespPhase
<1> QED
  BY <1>3, <1>4, <1>5, <1>6

\* accept moves the first connection of the queue to the socket of p.
LEMMA AcceptKeeps ==
    ASSUME SysInv, NEW p \in Responders, Accept(p),
           RespSock(p)' = Head(backlog[p]), RespSock(p) = NoConn,
           \A r \in Responders \ {p} : RespSock(r)' = RespSock(r),
           UNCHANGED <<sockfd, server_sockets>>,
           \A d \in DOMAIN conns : Coherent(d)'
    PROVE  NetInv' /\ ConnInv' /\ SockInv' /\ QueueInv'
<1>1. PICK c : c = Head(backlog[p])
  OBVIOUS
<1>2. /\ backlog[p] # << >> /\ backlog' = [backlog EXCEPT ![p] = Tail(@)]
      /\ conns' = conns /\ life' = life /\ failed' = failed
  BY DEF Accept
<1>3. /\ p \in Procs /\ backlog \in [Procs -> Seq(1 .. MaxConns)]
      /\ Distinct(backlog[p])
  BY DEF SysInv, QueueInv, Responders, Procs
<1>4. /\ c \in DOMAIN conns /\ c \in 1 .. MaxConns /\ c \in Queue(p)
      /\ conns[c].open["resp"] /\ conns[c].who["resp"] = p
  BY <1>1, <1>2, FirstInQueue
<1>5. /\ backlog'[p] \in Seq(1 .. MaxConns) /\ Distinct(backlog'[p])
      /\ Queue(p)' = Queue(p) \ {c}
  BY <1>1, <1>2, <1>3, LeaveQueue DEF Queue
<1>6. \A r \in Procs \ {p} : backlog'[r] = backlog[r] /\ Queue(r)' = Queue(r)
  BY <1>2, <1>3 DEF Queue
<1>7. backlog' \in [Procs -> Seq(1 .. MaxConns)]
  BY <1>2, <1>3, <1>5, <1>6
<1>8. \A i, r : InitSock(i, r)' = InitSock(i, r)
  BY DEF InitSock
<1>9. \A r \in Responders : RespSock(r)' = IF r = p THEN c ELSE RespSock(r)
  BY <1>1
<1>10. NetInv'
  BY <1>2 DEF SysInv, NetInv
<1>11. ConnInv'
  <2> SUFFICES ASSUME NEW d \in DOMAIN conns PROVE Held(d)'
    BY <1>2 DEF SysInv, ConnInv
  <2>1. Held(d) /\ IsConn(conns[d])
    BY DEF SysInv, ConnInv
  <2>2. PICK r \in Responders : r = conns[d].who["resp"] /\ r \in Procs
    <3>1. <<conns[d].who["init"], conns[d].who["resp"]>> \in Links
      BY <2>1 DEF IsConn
    <3> QED
      BY <3>1, LinkEnds DEF Responders
  <2>3. d # NoConn
    <3>1. DOMAIN conns \subseteq 1 .. MaxConns
      BY DEF SysInv, NetInv
    <3> QED
      BY <3>1, NetAssumption DEF NoConn
  <2>4. conns[d].open["resp"] => RespSock(r)' = d \/ d \in Queue(r)'
    BY <1>5, <1>6, <1>9, <2>1, <2>2, <2>3 DEF Held
  <2> QED
    BY <1>2, <1>8, <2>1, <2>2, <2>4 DEF Held
<1>12. SockInv'
  <2>1. \A d, i, r : InitEnd(d, i, r)' <=> InitEnd(d, i, r)
    BY <1>2 DEF InitEnd
  <2>2. \A d, r : RespEnd(d, r)' <=> RespEnd(d, r)
    BY <1>2 DEF RespEnd
  <2>3. RespEnd(c, p)
    BY <1>4 DEF RespEnd
  <2> QED
    BY <1>8, <1>9, <2>1, <2>2, <2>3 DEF SysInv, SockInv, Responders
<1>13. QueueInv'
  <2>1. \A d, r : RespEnd(d, r)' <=> RespEnd(d, r)
    BY <1>2 DEF RespEnd
  <2> SUFFICES ASSUME NEW r \in Procs
               PROVE  /\ Distinct(backlog'[r])
                      /\ life'[r] # "up" \/ r \in Clients => backlog'[r] = << >>
                      /\ \A d \in Queue(r)' : RespEnd(d, r)' /\ d # RespSock(r)'
    BY <1>7 DEF QueueInv
  <2>2. /\ Distinct(backlog[r])
        /\ life[r] # "up" \/ r \in Clients => backlog[r] = << >>
        /\ \A d \in Queue(r) : RespEnd(d, r) /\ d # RespSock(r)
    BY DEF SysInv, QueueInv
  <2>3. CASE r = p
    BY <1>2, <1>5, <1>9, <2>1, <2>2, <2>3
  <2>4. CASE r # p
    <3>1. \A d \in Queue(r) : r \in Responders
      <4> TAKE d \in Queue(r)
      <4>1. RespEnd(d, r)
        BY <2>2
      <4>2. IsConn(conns[d]) /\ conns[d].who["resp"] = r
        BY <4>1 DEF RespEnd, SysInv, ConnInv
      <4>3. <<conns[d].who["init"], r>> \in Links
        BY <4>2 DEF IsConn
      <4> QED
        BY <4>3, LinkEnds DEF Responders
    <3> QED
      BY <1>2, <1>6, <1>9, <2>1, <2>2, <2>4, <3>1
  <2> QED
    BY <2>3, <2>4
<1> QED
  BY <1>10, <1>11, <1>12, <1>13

-----------------------------------------------------------------------------
\* What the programs that do not take part in a step know stays as it was.
LEMMA OthersKept ==
    ASSUME SysInv, failed \subseteq failed'
    PROVE  /\ UNCHANGED <<spc, ssock>> /\ (\A s \in Servers : life'[s] = life[s])
              => ServerInv'
           /\ UNCHANGED <<chain, allocFails>> => ShardInv'
           /\ UNCHANGED routervars /\ life'[Router] = life[Router] => RouterInv'
           /\ UNCHANGED <<cpc, sockfd, cmd>> /\ (\A c \in Clients : life'[c] = life[c])
              => ClientInv'
<1>1. ASSUME UNCHANGED <<spc, ssock>>, \A s \in Servers : life'[s] = life[s]
      PROVE  ServerInv'
  BY <1>1 DEF SysInv, ServerInv
<1>2. ASSUME UNCHANGED <<chain, allocFails>> PROVE ShardInv'
  BY <1>2 DEF SysInv, ShardInv
<1>3. ASSUME UNCHANGED routervars, life'[Router] = life[Router] PROVE RouterInv'
  <2>1. failed \cap Servers # {} => failed' \cap Servers # {}
    OBVIOUS
  <2>2. failed \cap Clients # {} => failed' \cap Clients # {}
    OBVIOUS
  <2> QED
    BY <1>3, <2>1, <2>2 DEF SysInv, RouterInv, routervars
<1>4. ASSUME UNCHANGED <<cpc, sockfd, cmd>>, \A c \in Clients : life'[c] = life[c]
      PROVE  ClientInv'
  BY <1>4 DEF SysInv, ClientInv
<1> QED
  BY <1>1, <1>2, <1>3, <1>4

(***************************************************************************)
(* The steps of a server.                                                  *)
(***************************************************************************)
\* accept.
LEMMA ServerAcceptStep ==
    ASSUME SysInv, NEW s \in Servers, ServerAccept(s),
           UNCHANGED <<routervars, clientvars>>
    PROVE  SysInv'
<1>1. /\ life[s] = "up" /\ spc[s] = "accept" /\ Accept(s)
      /\ ssock' = [ssock EXCEPT ![s] = Head(backlog[s])]
      /\ spc' = [spc EXCEPT ![s] = "client_hello"]
      /\ UNCHANGED <<chain, allocFails>>
  BY DEF ServerAccept
<1>2. /\ backlog[s] # << >> /\ conns' = conns /\ life' = life /\ failed' = failed
  BY <1>1 DEF Accept
<1>3. s \in Responders /\ s # Router
  BY NetAssumption DEF Responders, Servers
<1>4. PICK c : c = Head(backlog[s])
  OBVIOUS
<1>5. /\ c \in DOMAIN conns /\ c \in 1 .. MaxConns /\ IsConn(conns[c]) /\ Coherent(c)
      /\ conns[c].open["resp"] /\ conns[c].who["resp"] = s
      /\ RespPhase(c) = "queued"
  BY <1>2, <1>3, <1>4, FirstInQueue
<1>6. /\ spc \in [Servers -> {"accept", "client_hello", "serve"}]
      /\ ssock \in [Servers -> 0 .. MaxConns]
      /\ ssock[s] = NoConn
  BY <1>1 DEF SysInv, ServerInv
<1>7. /\ ssock'[s] = c /\ spc'[s] = "client_hello"
      /\ \A t \in Servers \ {s} : spc'[t] = spc[t] /\ ssock'[t] = ssock[t]
  BY <1>1, <1>4, <1>6
<1>8. ASSUME NEW d \in DOMAIN conns PROVE Coherent(d)'
  <2>1. IsConn(conns[d]) /\ Coherent(d) /\ d \in 1 .. MaxConns
    BY DEF SysInv, ConnInv, NetInv
  <2>2. CASE d # c
    <3>1. d # NoConn
      BY <2>1, NetAssumption DEF NoConn
    <3> QED
      BY <1>2, <1>6, <1>7, <2>1, <2>2, <3>1, ServerFrame
  <2>3. CASE d = c
    <3>1. /\ InitPhase(c)' = InitPhase(c) /\ Wanted(conns[c].who["init"])' = Wanted(conns[c].who["init"])
          /\ request' = request
      BY <1>2 DEF InitPhase, InitPc, Wanted, routervars, clientvars
    <3>2. RespPhase(c)' = "client_hello"
      BY <1>2, <1>3, <1>5, <1>7 DEF RespPhase, RespSock, RespPc
    <3>3. Exchange(InitPhase(c), "queued", conns[c], Wanted(conns[c].who["init"]),
                   request, failed)
      BY <1>5 DEF Coherent
    <3>4. Exchange(InitPhase(c), "client_hello", conns[c],
                   Wanted(conns[c].who["init"]), request, failed)
      BY <3>3, ExchangeAccept
    <3> QED
      BY <1>2, <2>3, <3>1, <3>2, <3>4 DEF Coherent
  <2> QED
    BY <2>2, <2>3
<1>9. NetInv' /\ ConnInv' /\ SockInv' /\ QueueInv'
  <2>1. RespSock(s)' = Head(backlog[s]) /\ RespSock(s) = NoConn
    BY <1>3, <1>4, <1>6, <1>7 DEF RespSock
  <2>2. \A r \in Responders \ {s} : RespSock(r)' = RespSock(r)
    BY <1>7 DEF RespSock, Responders, routervars
  <2>3. UNCHANGED <<sockfd, server_sockets>>
    BY DEF routervars, clientvars
  <2> QED
    BY <1>1, <1>3, <1>8, <2>1, <2>2, <2>3, AcceptKeeps
<1>10. ServerInv'
  <2>1. /\ spc' \in [Servers -> {"accept", "client_hello", "serve"}]
        /\ ssock' \in [Servers -> 0 .. MaxConns]
    BY <1>1, <1>4, <1>5, <1>6, NetAssumption
  <2>2. c # NoConn
    BY <1>5, NetAssumption DEF NoConn
  <2> QED
    BY <1>1, <1>2, <1>7, <2>1, <2>2 DEF SysInv, ServerInv
<1>11. ShardInv' /\ RouterInv' /\ ClientInv'
  BY <1>1, <1>2, OthersKept DEF clientvars
<1> QED
  BY <1>9, <1>10, <1>11 DEF SysInv

\* A packet that a responder receives after the key exchange is a request:
\* the one its initiator waits for the answer to, if that has not gone.
LEMMA ExchangeReceives ==
    ASSUME NEW i, NEW k, NEW w, NEW b, NEW f, Exchange(i, "serve", k, w, b, f),
           k.inbox["resp"] # << >>
    PROVE  /\ OneData(k.inbox["resp"]) /\ k.key["resp"] = "shared"
           /\ Head(k.inbox["resp"]).len <= Least(SEGMENT_MAX, RECV_MAX)
           /\ i # "gone" => i = "await" /\ Head(k.inbox["resp"]).body = w
           /\ i = "gone" => Head(k.inbox["resp"]).body \in RequestsOf(k.who["init"])
  BY DEF Exchange, Talking, Left, OneRequest

\* Server s sends and receives on its connection.
LEMMA ServerTalks ==
    ASSUME SysInv, NEW s \in Servers, NEW pc \in {"client_hello", "serve"},
           ssock[s] # NoConn, life[s] = "up",
           OnlyAt(conns, conns', ssock[s]),
           UNCHANGED <<backlog, life, failed>>,
           UNCHANGED <<routervars, clientvars, ssock>>,
           spc' = [spc EXCEPT ![s] = pc],
           Exchange(InitPhase(ssock[s]), pc, conns'[ssock[s]], Wanted(Router),
                    request, failed),
           ShardInv'
    PROVE  SysInv'
<1>0. PICK c : c = ssock[s]
  OBVIOUS
<1>1. /\ c \in DOMAIN conns /\ IsConn(conns[c]) /\ Coherent(c)
      /\ conns[c].open["resp"] /\ conns[c].who["resp"] = s
      /\ conns[c].who["init"] = Router /\ s # Router
  BY <1>0, AtServer
<1>2. SameEnds(conns, conns')
  <2>1. \A d \in DOMAIN conns : IsConn(conns[d])
    BY DEF SysInv, ConnInv
  <2> QED
    BY <1>0, <1>1, <2>1, SameEndsStep
<1>3. spc \in [Servers -> {"accept", "client_hello", "serve"}]
  BY DEF SysInv, ServerInv
<1>4. spc'[s] = pc /\ \A t \in Servers \ {s} : spc'[t] = spc[t]
  BY <1>3
<1>5. ASSUME NEW d \in DOMAIN conns PROVE Coherent(d)'
  <2>1. IsConn(conns[d]) /\ Coherent(d)
    BY DEF SysInv, ConnInv
  <2>2. CASE d # c
    <3>1. conns'[d] = conns[d]
      BY <1>0, <2>2 DEF OnlyAt
    <3>2. \A t \in Servers \ {s} : spc'[t] = spc[t] /\ ssock'[t] = ssock[t]
      BY <1>4
    <3> QED
      BY <1>0, <2>1, <2>2, <3>1, <3>2, ServerFrame
  <2>3. CASE d = c
    <3>1. conns'[c].who = conns[c].who /\ conns'[c].open = conns[c].open
      BY <1>0 DEF OnlyAt
    <3>2. InitPhase(c)' = InitPhase(c)
      BY <3>1 DEF InitPhase, InitPc, routervars, clientvars
    <3>3. RespPhase(c)' = pc
      BY <1>0, <1>1, <1>4, <3>1 DEF RespPhase, RespSock, RespPc
    <3>4. Wanted(conns[c].who["init"])' = Wanted(Router) /\ request' = request
      BY <1>1, <3>1 DEF Wanted, routervars
    <3> QED
      BY <1>0, <2>3, <3>2, <3>3, <3>4 DEF Coherent
  <2> QED
    BY <2>2, <2>3
<1>6. NetInv' /\ ConnInv' /\ SockInv' /\ QueueInv'
  BY <1>2, <1>5, TalkKeeps DEF routervars, clientvars
<1>7. ServerInv'
  <2>1. spc' \in [Servers -> {"accept", "client_hello", "serve"}]
    BY <1>3
  <2> QED
    BY <1>4, <2>1 DEF SysInv, ServerInv
<1>8. RouterInv' /\ ClientInv'
  BY OthersKept DEF clientvars
<1> QED
  BY <1>6, <1>7, <1>8 DEF SysInv

\* Answering a hello, or the garbage left when there is none.
LEMMA AnsweredEffect ==
    ASSUME NEW c \in DOMAIN conns, \A d \in DOMAIN conns : IsConn(conns[d]),
           NEW key \in ResponderKeys(c), CanRecv(c, "resp"),
           NEW i, NEW w, NEW b, NEW f,
           Exchange(i, "client_hello", conns[c], w, b, f),
           i = "gone" <=> ~conns[c].open["init"]
    PROVE  /\ OnlyAt(conns, Answered(c, key), c)
           /\ Exchange(i, "serve", Answered(c, key)[c], w, b, f)
           /\ Answered(c, key)[c].inbox["resp"] = << >>
<1> DEFINE cs1 == Taken(c, "resp")
           cs2 == WithKey(cs1, c, "resp", key)
           cs3 == Sent(cs2, c, "resp", ServerHello(key))
<1>1. "resp" \in Ends /\ key \in {"shared", "garbage"} /\ key \in Keys
  BY DEF Ends, ResponderKeys, HelloKeys, Keys
<1>2. OnlyAt(conns, cs1, c) /\ TakenAt(conns[c], cs1[c], "resp")
  BY <1>1, TakenEffect
<1> HIDE DEF cs1
<1>3. c \in DOMAIN cs1 /\ IsConn(cs1[c])
  BY <1>2 DEF OnlyAt
<1>4. OnlyAt(cs1, cs2, c) /\ KeyedAt(cs1[c], cs2[c], "resp", key)
  BY <1>1, <1>3, WithKeyEffect
<1> HIDE DEF cs2
<1>5. c \in DOMAIN cs2 /\ IsConn(cs2[c])
  BY <1>3, <1>4 DEF OnlyAt
<1>6. OnlyAt(cs2, cs3, c) /\ SentAt(cs2[c], cs3[c], "resp", ServerHello(key))
  BY <1>1, <1>5, SentEffect
<1>7. Answered(c, key) = cs3
  BY DEF Answered, cs1, cs2
<1> HIDE DEF cs3
<1>8. OnlyAt(conns, cs3, c) /\ cs2[c].open = conns[c].open
  BY <1>2, <1>4, <1>6 DEF OnlyAt
<1>9. conns[c].inbox["resp"] # << >> \/ ~conns[c].open["init"]
  BY EndsOf DEF CanRecv
<1>10. Exchange(i, "serve", cs3[c], w, b, f)
  BY <1>1, <1>2, <1>4, <1>6, <1>8, <1>9, ExchangeAnswerHello
<1>11. cs3[c].inbox["resp"] = << >>
  <2>1. conns[c].inbox["resp"] \in {<< >>, <<ClientHello>>}
    BY DEF Exchange, Talking, Left
  <2> QED
    BY <1>2, <1>4, <1>6, <2>1, EndsOf DEF TakenAt, KeyedAt, SentAt
<1> QED
  BY <1>7, <1>8, <1>10, <1>11

\* server_get_session_key.
LEMMA ServerHandshakeStep ==
    ASSUME SysInv, NEW s \in Servers, life[s] = "up", spc[s] = "client_hello",
           CanRecv(ssock[s], "resp"),
           NEW key \in ResponderKeys(ssock[s]), Communicate(Answered(ssock[s], key)),
           spc' = [spc EXCEPT ![s] = "serve"],
           UNCHANGED <<ssock, chain, allocFails>>,
           UNCHANGED <<routervars, clientvars>>
    PROVE  SysInv'
<1>1. ssock[s] # NoConn
  BY DEF SysInv, ServerInv
<1>2. PICK c : c = ssock[s]
  OBVIOUS
<1>3. /\ c \in DOMAIN conns /\ IsConn(conns[c]) /\ Coherent(c)
      /\ conns[c].who["init"] = Router /\ RespPhase(c) = "client_hello"
  BY <1>1, <1>2, AtServer
<1>4. \A d \in DOMAIN conns : IsConn(conns[d])
  BY DEF SysInv, ConnInv
<1>5. InitPhase(c) = "gone" <=> ~conns[c].open["init"]
  BY <1>3, PhaseGone DEF SysInv
<1>6. Exchange(InitPhase(c), "client_hello", conns[c], Wanted(Router), request, failed)
  BY <1>3 DEF Coherent
<1>7. /\ OnlyAt(conns, Answered(c, key), c)
      /\ Exchange(InitPhase(c), "serve", Answered(c, key)[c], Wanted(Router),
                  request, failed)
  BY <1>2, <1>3, <1>4, <1>5, <1>6, AnsweredEffect
<1>8. conns' = Answered(c, key) /\ UNCHANGED <<backlog, life, failed>>
  BY <1>2 DEF Communicate
<1>9. ShardInv'
  BY <1>8, OthersKept
<1> QED
  BY <1>1, <1>2, <1>7, <1>8, <1>9, ServerTalks

\* Products of numbers, for the lengths of lists.
LEMMA Products ==
    ASSUME NEW m \in Nat, NEW n \in Nat, NEW x \in Nat
    PROVE  m * x \in Nat /\ (m <= n => m * x <= n * x) /\ (m + 1) * x = m * x + x
<1>1. m * x \in Nat /\ (m + 1) * x = m * x + x
  OBVIOUS
<1>2. ASSUME m <= n PROVE m * x <= n * x
  <2>1. PICK j \in Nat : n = m + j
    <3>1. n - m \in Nat /\ n = m + (n - m)
      BY <1>2
    <3> QED
      BY <3>1
  <2>2. n * x = m * x + j * x /\ j * x \in Nat
    BY <2>1
  <2> QED
    BY <1>1, <2>2
<1> QED
  BY <1>1, <1>2

\* The lengths of answers.
LEMMA Lengths ==
    /\ BlocksLen(2) \in Nat /\ 256 <= BlocksLen(2)
    /\ ListMax \in Nat /\ 11 + BlocksLen(2) <= ListMax
    /\ \A reply : reply.kind = "DATA_STORED" => ReplyLen(reply) = 11
    /\ \A reply : reply.kind = "NO_RESPONSE" => ReplyLen(reply) = 38
<1>1. BlocksLen(2) \in Nat /\ 256 <= BlocksLen(2)
  BY DataAssumption DEF BlocksLen, Least, HASH_LEN, RESPONSE_MAX
<1>2. PICK x \in Nat : x = 11 + BlocksLen(2)
  BY <1>1
<1>3. NUM_SERVERS \in Nat /\ 1 <= NUM_SERVERS /\ 1 \in Nat
  BY NetAssumption
<1>4. NUM_SERVERS * x \in Nat /\ 1 * x <= NUM_SERVERS * x
  BY ONLY <1>3, Products
<1>5. ListMax \in Nat /\ 11 + BlocksLen(2) <= ListMax
  BY <1>2, <1>4 DEF ListMax
<1>6. \A reply : reply.kind = "DATA_STORED" => ReplyLen(reply) = 11
  BY DEF ReplyLen
<1>7. \A reply : reply.kind = "NO_RESPONSE" => ReplyLen(reply) = 38
  BY DEF ReplyLen
<1> QED
  BY <1>1, <1>5, <1>6, <1>7

\* A server answers.
LEMMA RespondedEffect ==
    ASSUME NEW s, NEW c \in DOMAIN conns, c = ssock[s], IsConn(conns[c]),
           NEW reply, ReplyLen(reply) \in Nat, ReplyLen(reply) <= ListMax,
           NEW i, NEW w, NEW b, NEW f,
           Exchange(i, "serve", conns[c], w, b, f),
           i = "gone" <=> ~conns[c].open["init"],
           conns[c].inbox["resp"] # << >>,
           i = "await" => IsAnswer(conns[c].who["init"], w, reply)
    PROVE  /\ OnlyAt(conns, Responded(s, reply), c)
           /\ Exchange(i, "serve", Responded(s, reply)[c], w, b, f)
           /\ Responded(s, reply)[c].inbox["resp"] = << >>
<1> DEFINE cs == Taken(c, "resp")
           p == DataPacket(cs, c, "resp", reply, ReplyLen(reply))
           r == Sent(cs, c, "resp", p)
<1>1. "resp" \in Ends
  BY DEF Ends
<1>2. OnlyAt(conns, cs, c) /\ TakenAt(conns[c], cs[c], "resp")
  BY <1>1, TakenEffect
<1>3. Responded(s, reply) = r
  BY DEF Responded
<1> HIDE DEF cs
<1>4. c \in DOMAIN cs /\ IsConn(cs[c]) /\ cs[c].key = conns[c].key
      /\ cs[c].open = conns[c].open
  BY <1>2 DEF OnlyAt, TakenAt
<1>5. /\ p.type = "Data" /\ p.key = cs[c].key["resp"] /\ p.body = reply
      /\ p.len \in Nat /\ p.len <= OVERHEAD + ListMax
  BY Lengths DEF DataPacket, OVERHEAD
<1> HIDE DEF p
<1>6. OnlyAt(cs, r, c) /\ SentAt(cs[c], r[c], "resp", p)
  BY <1>1, <1>4, SentEffect
<1> HIDE DEF r
<1>7. OnlyAt(conns, r, c)
  BY <1>2, <1>6 DEF OnlyAt
<1>8. IsData(p, conns[c], "resp")
  BY <1>4, <1>5 DEF IsData
<1>9. Exchange(i, "serve", r[c], w, b, f)
  BY <1>2, <1>4, <1>5, <1>6, <1>8, ExchangeRespond
<1>10. r[c].inbox["resp"] = << >>
  <2>1. OneData(conns[c].inbox["resp"])
    BY ExchangeReceives
  <2> QED
    BY <1>2, <1>6, <2>1, EndsOf DEF OneData, TakenAt, SentAt
<1> QED
  BY <1>3, <1>7, <1>9, <1>10

\* The request a server received, and the state in which it answers.
LEMMA ServerRequest ==
    ASSUME SysInv, NEW s \in Servers, spc[s] = "serve", Readable(ssock[s], "resp")
    PROVE  LET c == ssock[s]
               r == Received(c, "resp").body
           IN
           /\ c # NoConn /\ c \in DOMAIN conns /\ IsConn(conns[c])
           /\ conns[c].who["init"] = Router
           /\ InitPhase(c) = "gone" <=> ~conns[c].open["init"]
           /\ conns[c].inbox["resp"] # << >>
           /\ Exchange(InitPhase(c), "serve", conns[c], Wanted(Router), request, failed)
           /\ r \in Requests
           /\ InitPhase(c) = "await" => r = Wanted(Router)
<1>1. ssock[s] # NoConn
  BY DEF SysInv, ServerInv
<1>2. PICK c : c = ssock[s]
  OBVIOUS
<1>3. /\ c \in DOMAIN conns /\ IsConn(conns[c]) /\ Coherent(c)
      /\ conns[c].who["init"] = Router /\ RespPhase(c) = "serve"
  BY <1>1, <1>2, AtServer
<1>4. InitPhase(c) = "gone" <=> ~conns[c].open["init"]
  BY <1>3, PhaseGone DEF SysInv
<1>5. Exchange(InitPhase(c), "serve", conns[c], Wanted(Router), request, failed)
  BY <1>3 DEF Coherent
<1>6. conns[c].inbox["resp"] # << >>
  BY <1>2 DEF Readable, AtEnd
<1>7. PICK r : r = Head(conns[c].inbox["resp"]).body
  OBVIOUS
<1>8. /\ InitPhase(c) # "gone" => InitPhase(c) = "await" /\ r = Wanted(Router)
      /\ InitPhase(c) = "gone" => r \in RequestsOf(Router)
  BY <1>3, <1>5, <1>6, <1>7, ExchangeReceives
<1>9. r \in Requests
  <2>1. CASE InitPhase(c) = "gone"
    BY <1>8, <2>1 DEF RequestsOf
  <2>2. CASE InitPhase(c) # "gone"
    <3>1. InitPhase(c) = "await" /\ r = request
      BY <1>8, <2>2 DEF Wanted
    <3>2. rpc = "await"
      BY <1>3, <3>1 DEF InitPhase, InitPc
    <3> QED
      BY <3>1, <3>2 DEF SysInv, RouterInv
  <2> QED
    BY <2>1, <2>2
<1> QED
  BY <1>1, <1>2, <1>3, <1>4, <1>5, <1>6, <1>7, <1>8, <1>9 DEF Received

\* What a server answers to a RETRIEVE.
LEMMA RetrieveAnswers ==
    ASSUME SysInv, NEW s \in Servers, NEW r, r.kind = "RETRIEVE"
    PROVE  LET reply == RetrieveReply(chain[s]) IN
           /\ ReplyLen(reply) \in Nat /\ ReplyLen(reply) <= ListMax
           /\ IsAnswer(Router, r, reply)
<1>1. PICK reply : reply = RetrieveReply(chain[s])
  OBVIOUS
<1>2. /\ reply = Reply(reply.kind, reply.blocks)
      /\ reply.kind \in ReplyKinds /\ reply.blocks \in Seq(Block)
      /\ ReplyLen(reply) \in Nat /\ ReplyLen(reply) <= BlocksLen(2)
  <2>1. /\ chain[s] \in Seq(Block) /\ Hashed(chain[s], Payloads(chain[s]))
        /\ Payloads(chain[s]) \in Seq(Data)
    BY PayloadsType DEF SysInv, ShardInv, Chained
  <2> QED
    BY <1>1, <2>1, RetrieveReplies DEF ReplyKinds
<1>3. reply \in Replies
  <2>1. reply = [kind |-> reply.kind, blocks |-> reply.blocks]
    BY <1>2 DEF Reply
  <2>2. reply \in [kind : ReplyKinds \cup {"NO_RESPONSE"}, blocks : Seq(Block)]
    BY <1>2, <2>1
  <2>3. ReplyLen(reply) \in 0 .. BlocksLen(2)
    BY <1>2, Lengths
  <2> QED
    BY <2>2, <2>3 DEF Replies
<1>4. IsAnswer(Router, r, reply)
  BY <1>2, <1>3 DEF IsAnswer
<1>5. ReplyLen(reply) <= ListMax
  BY <1>2, Lengths
<1> QED
  BY <1>1, <1>2, <1>4, <1>5

\* retrieve_data.
LEMMA ServerRetrieveStep ==
    ASSUME SysInv, NEW s \in Servers, life[s] = "up", spc[s] = "serve",
           Readable(ssock[s], "resp"),
           Received(ssock[s], "resp").body.kind = "RETRIEVE",
           ServerRetrieve(s), UNCHANGED <<spc, ssock>>,
           UNCHANGED <<routervars, clientvars>>
    PROVE  SysInv'
<1>1. PICK c : c = ssock[s]
  OBVIOUS
<1>2. PICK r : r = Received(c, "resp").body
  OBVIOUS
<1>3. /\ c # NoConn /\ c \in DOMAIN conns /\ IsConn(conns[c])
      /\ conns[c].who["init"] = Router
      /\ InitPhase(c) = "gone" <=> ~conns[c].open["init"]
      /\ conns[c].inbox["resp"] # << >>
      /\ Exchange(InitPhase(c), "serve", conns[c], Wanted(Router), request, failed)
      /\ r.kind = "RETRIEVE"
      /\ InitPhase(c) = "await" => r = Wanted(Router)
  BY <1>1, <1>2, ServerRequest
<1>4. PICK reply : reply = RetrieveReply(chain[s])
  OBVIOUS
<1>5. /\ ReplyLen(reply) \in Nat /\ ReplyLen(reply) <= ListMax
      /\ IsAnswer(Router, r, reply)
  BY <1>3, <1>4, RetrieveAnswers
<1>7. InitPhase(c) = "await" => IsAnswer(Router, Wanted(Router), reply)
  BY <1>3, <1>5
<1>9. /\ OnlyAt(conns, Responded(s, reply), c)
      /\ Exchange(InitPhase(c), "serve", Responded(s, reply)[c], Wanted(Router),
                  request, failed)
  BY <1>1, <1>3, <1>5, <1>7, RespondedEffect
<1>10. /\ conns' = Responded(s, reply) /\ UNCHANGED <<backlog, life, failed>>
       /\ chain' = [chain EXCEPT ![s] = Validated(@)] /\ UNCHANGED allocFails
  BY <1>4 DEF ServerRetrieve, Communicate
<1>11. ShardInv'
  <2>1. \A t \in Servers : chain'[t] = IF t = s THEN Validated(chain[s]) ELSE chain[t]
    BY <1>10 DEF SysInv, ShardInv
  <2> QED
    BY <1>10, <2>1, ChainedKept DEF SysInv, ShardInv
<1>12. spc' = [spc EXCEPT ![s] = "serve"]
  BY DEF SysInv, ServerInv
<1> QED
  BY <1>1, <1>3, <1>9, <1>10, <1>11, <1>12, ServerTalks

\* store_data, also if malloc fails in it.
LEMMA ServerStoreStep ==
    ASSUME SysInv, NEW s \in Servers, life[s] = "up", spc[s] = "serve",
           Readable(ssock[s], "resp"),
           Received(ssock[s], "resp").body.kind = "STORE",
           ServerStore(s, Received(ssock[s], "resp").body.data),
           UNCHANGED <<spc, ssock>>,
           UNCHANGED <<routervars, clientvars>>
    PROVE  SysInv'
<1>1. PICK c : c = ssock[s]
  OBVIOUS
<1>2. PICK r : r = Received(c, "resp").body
  OBVIOUS
<1>3. /\ c # NoConn /\ c \in DOMAIN conns /\ IsConn(conns[c])
      /\ conns[c].who["init"] = Router
      /\ InitPhase(c) = "gone" <=> ~conns[c].open["init"]
      /\ conns[c].inbox["resp"] # << >>
      /\ Exchange(InitPhase(c), "serve", conns[c], Wanted(Router), request, failed)
      /\ r.kind = "STORE" /\ r \in Requests
      /\ InitPhase(c) = "await" => r = Wanted(Router)
  BY <1>1, <1>2, ServerRequest
<1>4. PICK reply : reply = Reply("DATA_STORED", << >>)
  OBVIOUS
<1>5. reply.kind = "DATA_STORED"
  BY <1>4 DEF Reply
<1>6. ReplyLen(reply) \in Nat /\ ReplyLen(reply) <= ListMax
  BY <1>5, Lengths
<1>7. InitPhase(c) = "await" => IsAnswer(Router, Wanted(Router), reply)
  BY <1>3, <1>5 DEF IsAnswer
<1>8. /\ OnlyAt(conns, Responded(s, reply), c)
      /\ Exchange(InitPhase(c), "serve", Responded(s, reply)[c], Wanted(Router),
                  request, failed)
  BY <1>1, <1>3, <1>6, <1>7, RespondedEffect
<1>9. /\ conns' = Responded(s, reply) /\ UNCHANGED <<backlog, life, failed>>
      /\ \/ /\ chain' = [chain EXCEPT ![s] = StoreData(@, r.data)]
            /\ UNCHANGED allocFails
         \/ /\ allocFails < MaxAllocFails /\ allocFails' = allocFails + 1
            /\ UNCHANGED chain
  BY <1>1, <1>2, <1>4 DEF ServerStore, Communicate
<1>10. ShardInv'
  <2>1. CASE chain' = [chain EXCEPT ![s] = StoreData(@, r.data)]
             /\ UNCHANGED allocFails
    <3>1. \A t \in Servers :
              chain'[t] = IF t = s THEN StoreData(chain[s], r.data) ELSE chain[t]
      BY <2>1 DEF SysInv, ShardInv
    <3>2. r.data \in Data
      BY <1>3 DEF Requests
    <3> QED
      BY <2>1, <3>1, <3>2, ChainedKept DEF SysInv, ShardInv
  <2>2. CASE /\ allocFails < MaxAllocFails /\ allocFails' = allocFails + 1
             /\ UNCHANGED chain
    BY <2>2, ServerAssumption DEF SysInv, ShardInv
  <2> QED
    BY <1>9, <2>1, <2>2
<1>11. spc' = [spc EXCEPT ![s] = "serve"]
  BY DEF SysInv, ServerInv
<1> QED
  BY <1>1, <1>3, <1>8, <1>9, <1>10, <1>11, ServerTalks

-----------------------------------------------------------------------------
(***************************************************************************)
(* Closing ends.                                                           *)
(***************************************************************************)
\* The ends that the process at end e of link has on it stay, or go.
InitStays(i, r) ==
    /\ InitSock(i, r)' = InitSock(i, r)
    /\ \A d \in DOMAIN conns :
           /\ conns[d].who["init"] = i /\ conns[d].who["resp"] = r
           /\ conns[d].open["init"]
           => d \in DOMAIN conns' /\ conns'[d].open["init"]

InitGoes(i, r) ==
    /\ InitSock(i, r)' = NoConn
    /\ \A d \in DOMAIN conns' :
           conns[d].who["init"] = i /\ conns[d].who["resp"] = r =>
               ~conns'[d].open["init"]

RespStays(r) ==
    /\ RespSock(r)' = RespSock(r)
    /\ backlog'[r] = backlog[r]
    /\ \A d \in DOMAIN conns :
           conns[d].who["resp"] = r /\ conns[d].open["resp"] =>
               d \in DOMAIN conns' /\ conns'[d].open["resp"]

RespGoes(r) ==
    /\ RespSock(r)' = NoConn
    /\ backlog'[r] = << >>
    /\ \A d \in DOMAIN conns' :
           conns[d].who["resp"] = r => ~conns'[d].open["resp"]

RespHangsUp(r) ==
    /\ RespSock(r)' = NoConn
    /\ backlog'[r] = backlog[r]
    /\ RespSock(r) \notin DOMAIN conns'
    /\ \A d \in DOMAIN conns :
           /\ conns[d].who["resp"] = r /\ conns[d].open["resp"] /\ d # RespSock(r)
           => d \in DOMAIN conns' /\ conns'[d].open["resp"]

\* Closing ends keeps the rest of the connections in order.
LEMMA ClosingKeeps ==
    ASSUME SysInv, DOMAIN conns' \subseteq DOMAIN conns,
           \A d \in DOMAIN conns' :
               /\ IsConn(conns'[d]) /\ conns'[d].who = conns[d].who
               /\ \A e \in Ends : conns'[d].open[e] => conns[d].open[e],
           \A link \in Links :
               InitStays(link[1], link[2]) \/ InitGoes(link[1], link[2]),
           \A r \in Responders : RespStays(r) \/ RespGoes(r) \/ RespHangsUp(r),
           backlog' = [r \in Procs |-> backlog'[r]],
           \A k \in Clients : backlog'[k] = << >>,
           \A r \in Responders : life'[r] # "up" => backlog'[r] = << >>,
           life' \in [Procs -> Lives], failed' \subseteq Procs,
           \A d \in DOMAIN conns' : Coherent(d)'
    PROVE  NetInv' /\ ConnInv' /\ SockInv' /\ QueueInv'
<1>1. NetInv'
  BY DEF SysInv, NetInv
<1>2. "init" \in Ends /\ "resp" \in Ends
  BY DEF Ends
<1>3. ASSUME NEW d \in DOMAIN conns'
      PROVE  /\ d \in DOMAIN conns /\ IsConn(conns[d]) /\ Held(d) /\ d # NoConn
             /\ <<conns[d].who["init"], conns[d].who["resp"]>> \in Links
             /\ conns[d].who["resp"] \in Responders
  <2>1. d \in DOMAIN conns /\ IsConn(conns[d]) /\ Held(d) /\ d \in 1 .. MaxConns
    BY DEF SysInv, ConnInv, NetInv
  <2>2. <<conns[d].who["init"], conns[d].who["resp"]>> \in Links
    BY <2>1 DEF IsConn
  <2>3. conns[d].who["resp"] \in Responders
    BY <2>2, LinkEnds DEF Responders
  <2>4. d # NoConn
    BY <2>1, NetAssumption DEF NoConn
  <2> QED
    BY <2>1, <2>2, <2>3, <2>4
<1>4. \A i, r : <<i, r>> \in Links => InitStays(i, r) \/ InitGoes(i, r)
  <2> SUFFICES ASSUME NEW i, NEW r, <<i, r>> \in Links
               PROVE  InitStays(i, r) \/ InitGoes(i, r)
    OBVIOUS
  <2>1. PICK link \in Links : link = <<i, r>>
    OBVIOUS
  <2>2. link[1] = i /\ link[2] = r
    BY <2>1
  <2> QED
    BY <2>2
<1>5. ConnInv'
  <2> SUFFICES ASSUME NEW d \in DOMAIN conns' PROVE Held(d)'
    BY DEF ConnInv
  <2>1. /\ d \in DOMAIN conns /\ Held(d) /\ conns'[d].who = conns[d].who
        /\ <<conns[d].who["init"], conns[d].who["resp"]>> \in Links
        /\ conns[d].who["resp"] \in Responders
    BY <1>3
  <2>2. PICK i, r : i = conns[d].who["init"] /\ r = conns[d].who["resp"]
    OBVIOUS
  <2>3. conns'[d].open["init"] => InitSock(i, r)' = d
    <3> SUFFICES ASSUME conns'[d].open["init"] PROVE InitSock(i, r)' = d
      OBVIOUS
    <3>1. conns[d].open["init"] /\ InitSock(i, r) = d
      BY <1>2, <2>1, <2>2 DEF Held
    <3>2. InitStays(i, r)
      BY <1>4, <2>1, <2>2 DEF InitGoes
    <3> QED
      BY <3>1, <3>2 DEF InitStays
  <2>4. conns'[d].open["resp"] => RespSock(r)' = d \/ d \in Queue(r)'
    <3> SUFFICES ASSUME conns'[d].open["resp"]
                 PROVE  RespSock(r)' = d \/ d \in Queue(r)'
      OBVIOUS
    <3>1. conns[d].open["resp"] /\ (RespSock(r) = d \/ d \in Queue(r))
      BY <1>2, <2>1, <2>2 DEF Held
    <3>2. RespStays(r) \/ RespHangsUp(r)
      BY <2>1, <2>2 DEF RespGoes
    <3>3. backlog'[r] = backlog[r] /\ Queue(r)' = Queue(r)
      BY <3>2 DEF RespStays, RespHangsUp, Queue
    <3> QED
      BY <3>1, <3>2, <3>3 DEF RespStays, RespHangsUp
  <2> QED
    BY <2>1, <2>2, <2>3, <2>4 DEF Held
<1>6. ASSUME NEW i, NEW r, <<i, r>> \in Links, InitSock(i, r)' # NoConn
      PROVE  InitEnd(InitSock(i, r), i, r)' /\ InitSock(i, r)' = InitSock(i, r)
  <2>1. InitStays(i, r)
    BY <1>4, <1>6 DEF InitGoes
  <2>2. PICK c : c = InitSock(i, r) /\ c = InitSock(i, r)'
    BY <2>1 DEF InitStays
  <2>3. InitEnd(c, i, r)
    <3>1. PICK link \in Links : link = <<i, r>>
      BY <1>6
    <3>2. link[1] = i /\ link[2] = r
      BY <3>1
    <3> QED
      BY <1>6, <2>2, <3>2 DEF SysInv, SockInv
  <2>4. /\ c \in DOMAIN conns' /\ conns'[c].open["init"]
        /\ conns'[c].who = conns[c].who
        /\ conns[c].who["init"] = i /\ conns[c].who["resp"] = r
    BY <2>1, <2>3 DEF InitEnd, InitStays
  <2>5. InitEnd(c, i, r)'
    BY <2>4 DEF InitEnd
  <2> QED
    BY <2>2, <2>5
<1>7. ASSUME NEW r \in Responders, RespSock(r)' # NoConn
      PROVE  RespEnd(RespSock(r), r)' /\ RespSock(r)' = RespSock(r)
  <2>1. RespStays(r)
    BY <1>7 DEF RespGoes, RespHangsUp
  <2>2. PICK c : c = RespSock(r) /\ c = RespSock(r)'
    BY <2>1 DEF RespStays
  <2>3. RespEnd(c, r)
    BY <1>7, <2>2 DEF SysInv, SockInv, Responders
  <2>4. /\ c \in DOMAIN conns' /\ conns'[c].open["resp"]
        /\ conns'[c].who = conns[c].who /\ conns[c].who["resp"] = r
    BY <2>1, <2>3 DEF RespEnd, RespStays
  <2>5. RespEnd(c, r)'
    BY <2>4 DEF RespEnd
  <2> QED
    BY <2>2, <2>5
<1>8. SockInv'
  <2>1. \A link \in Links : link = <<link[1], link[2]>>
    BY DEF Links
  <2>2. ASSUME NEW link \in Links, InitSock(link[1], link[2])' # NoConn
        PROVE  InitEnd(InitSock(link[1], link[2]), link[1], link[2])'
    <3>1. PICK i, r : i = link[1] /\ r = link[2]
      OBVIOUS
    <3>2. <<i, r>> \in Links /\ InitSock(i, r)' # NoConn
      BY <2>1, <2>2, <3>1
    <3> QED
      BY <1>6, <3>1, <3>2
  <2> QED
    BY <1>7, <2>2 DEF SockInv, Responders
<1>9. QueueInv'
  <2>1. ASSUME NEW r \in Procs
        PROVE  /\ backlog'[r] \in Seq(1 .. MaxConns) /\ Distinct(backlog'[r])
               /\ life'[r] # "up" \/ r \in Clients => backlog'[r] = << >>
               /\ \A c \in Queue(r)' : RespEnd(c, r)' /\ c # RespSock(r)'
    <3>1. backlog'[r] = << >> \/ RespStays(r) \/ RespHangsUp(r)
      BY DEF Procs, Responders, RespGoes
    <3>2. CASE backlog'[r] = << >>
      <4>1. Distinct(<< >>) /\ Queue(r)' = {}
        BY <3>2 DEF Distinct, Queue, Members
      <4> QED
        BY <3>2, <4>1
    <3>3. CASE backlog'[r] # << >> /\ (RespStays(r) \/ RespHangsUp(r))
      <4>1. backlog'[r] = backlog[r] /\ Queue(r)' = Queue(r)
        BY <3>3 DEF RespStays, RespHangsUp, Queue
      <4>2. /\ backlog[r] \in Seq(1 .. MaxConns) /\ Distinct(backlog[r])
            /\ \A c \in Queue(r) : RespEnd(c, r) /\ c # RespSock(r)
        BY DEF SysInv, QueueInv
      <4>3. ASSUME NEW c \in Queue(r)
            PROVE  RespEnd(c, r)' /\ c # RespSock(r)'
        <5>1. /\ c \in DOMAIN conns /\ conns[c].who["resp"] = r /\ conns[c].open["resp"]
              /\ c # RespSock(r)
          BY <4>2 DEF RespEnd
        <5>2. c \in DOMAIN conns' /\ conns'[c].open["resp"]
          BY <3>3, <5>1 DEF RespStays, RespHangsUp
        <5>3. conns'[c].who = conns[c].who /\ c # NoConn
          BY <1>3, <5>2
        <5>4. c # RespSock(r)'
          BY <3>3, <5>1, <5>3 DEF RespStays, RespHangsUp
        <5> QED
          BY <5>1, <5>2, <5>3, <5>4 DEF RespEnd
      <4> QED
        BY <3>3, <4>1, <4>2, <4>3 DEF Procs, Responders
    <3> QED
      BY <3>1, <3>2, <3>3
  <2>2. ASSUME NEW r \in Procs PROVE backlog'[r] \in Seq(1 .. MaxConns)
    BY <2>1
  <2>3. backlog' = [r \in Procs |-> backlog'[r]]
    OBVIOUS
  <2>4. backlog' \in [Procs -> Seq(1 .. MaxConns)]
    BY <2>2, <2>3
  <2> QED
    BY <2>1, <2>4 DEF QueueInv
<1> QED
  BY <1>1, <1>5, <1>8, <1>9

\* A responder that reads no request after the key exchange is at the end of
\* its connection, and its initiator has gone.
LEMMA ExchangeOver ==
    ASSUME NEW i, NEW k, NEW w, NEW b, NEW f, Exchange(i, "serve", k, w, b, f),
           k.inbox["resp"] # << >>
    PROVE  Decrypts(Head(k.inbox["resp"]), k.key["resp"])
<1>1. /\ OneData(k.inbox["resp"]) /\ k.key["resp"] = "shared"
      /\ Head(k.inbox["resp"]).len <= Least(SEGMENT_MAX, RECV_MAX)
  BY ExchangeReceives
<1>2. Least(SEGMENT_MAX, RECV_MAX) = 1448 /\ RECV_MAX = 2080
  BY DEF Least, SEGMENT_MAX, RECV_MAX
<1>3. Head(k.inbox["resp"]).len <= RECV_MAX
  BY <1>1, <1>2 DEF OneData
<1> QED
  BY <1>1, <1>3 DEF Decrypts, OneData

\* handle_client of a server ends.
LEMMA ServerCloseStep ==
    ASSUME SysInv, NEW s \in Servers, life[s] = "up", spc[s] = "serve",
           CanRecv(ssock[s], "resp"), ~Readable(ssock[s], "resp"),
           Communicate(Closed(Taken(ssock[s], "resp"), ssock[s], "resp")),
           spc' = [spc EXCEPT ![s] = "accept"],
           ssock' = [ssock EXCEPT ![s] = NoConn],
           UNCHANGED <<chain, allocFails>>,
           UNCHANGED <<routervars, clientvars>>
    PROVE  SysInv'
<1>1. ssock[s] # NoConn
  BY DEF SysInv, ServerInv
<1>2. PICK c : c = ssock[s]
  OBVIOUS
<1>3. /\ c \in DOMAIN conns /\ IsConn(conns[c]) /\ Coherent(c)
      /\ conns[c].who["init"] = Router /\ conns[c].who["resp"] = s
      /\ s # Router /\ s \in Procs /\ RespPhase(c) = "serve"
  BY <1>1, <1>2, AtServer
<1>4. conns[c].inbox["resp"] = << >>
  <2>1. Exchange(InitPhase(c), "serve", conns[c], Wanted(Router), request, failed)
    BY <1>3 DEF Coherent
  <2> QED
    BY <1>2, <2>1, ExchangeOver DEF Readable, AtEnd, Received
<1>5. Taken(c, "resp") = conns /\ ~conns[c].open["init"]
  BY <1>2, <1>4, EndsOf DEF Taken, AtEnd, CanRecv
<1>6. conns' = [d \in DOMAIN conns \ {c} |-> conns[d]]
      /\ UNCHANGED <<backlog, life, failed>>
  BY <1>2, <1>5, EndsOf DEF Communicate, Closed
<1>7. /\ DOMAIN conns' = DOMAIN conns \ {c}
      /\ \A d \in DOMAIN conns \ {c} : conns'[d] = conns[d]
  BY <1>6
<1>8. /\ spc \in [Servers -> {"accept", "client_hello", "serve"}]
      /\ ssock \in [Servers -> 0 .. MaxConns]
  BY DEF SysInv, ServerInv
<1>9. /\ ssock'[s] = NoConn /\ spc'[s] = "accept"
      /\ \A t \in Servers \ {s} : spc'[t] = spc[t] /\ ssock'[t] = ssock[t]
  BY <1>8
<1>10. ASSUME NEW d \in DOMAIN conns' PROVE Coherent(d)'
  <2>1. /\ d \in DOMAIN conns /\ IsConn(conns[d]) /\ Coherent(d) /\ d # c
        /\ conns'[d] = conns[d] /\ d \in 1 .. MaxConns
    BY <1>7 DEF SysInv, ConnInv, NetInv
  <2>2. d # NoConn
    BY <2>1, NetAssumption DEF NoConn
  <2> QED
    BY <1>2, <1>6, <1>9, <2>1, <2>2, ServerFrame
<1>11. ASSUME NEW link \in Links PROVE InitStays(link[1], link[2])
  <2>1. PICK i, r : i = link[1] /\ r = link[2]
    OBVIOUS
  <2>2. InitSock(i, r)' = InitSock(i, r)
    BY DEF InitSock, routervars, clientvars
  <2>3. InitStays(i, r)
    BY <1>5, <1>7, <2>2 DEF InitStays
  <2> QED
    BY <2>1, <2>3
<1>12. ASSUME NEW r \in Responders PROVE RespStays(r) \/ RespHangsUp(r)
  <2>1. CASE r = s
    <3>1. RespSock(s)' = NoConn /\ RespSock(s) = c
      BY <1>2, <1>3, <1>9 DEF RespSock
    <3>2. RespHangsUp(s)
      BY <1>6, <1>7, <3>1 DEF RespHangsUp
    <3> QED
      BY <2>1, <3>2
  <2>2. CASE r # s
    <3>1. RespSock(r)' = RespSock(r)
      BY <1>9, <2>2 DEF RespSock, Responders, routervars
    <3>2. RespStays(r)
      BY <1>3, <1>6, <1>7, <2>2, <3>1 DEF RespStays
    <3> QED
      BY <3>2
  <2> QED
    BY <2>1, <2>2
<1>13. NetInv' /\ ConnInv' /\ SockInv' /\ QueueInv'
  <2>1. DOMAIN conns' \subseteq DOMAIN conns
    BY <1>7
  <2>2. \A d \in DOMAIN conns' :
            /\ IsConn(conns'[d]) /\ conns'[d].who = conns[d].who
            /\ \A e \in Ends : conns'[d].open[e] => conns[d].open[e]
    BY <1>7 DEF SysInv, ConnInv
  <2>3. /\ backlog' = [r \in Procs |-> backlog'[r]]
        /\ \A k \in Clients : backlog'[k] = << >>
        /\ \A r \in Responders : life'[r] # "up" => backlog'[r] = << >>
    <3>1. Clients \subseteq Procs /\ Responders \subseteq Procs
      BY DEF Procs, Responders
    <3> QED
      BY <1>6, <3>1 DEF SysInv, QueueInv
  <2>4. life' \in [Procs -> Lives] /\ failed' \subseteq Procs
    BY <1>6 DEF SysInv, NetInv
  <2> QED
    BY <1>10, <1>11, <1>12, <2>1, <2>2, <2>3, <2>4, ClosingKeeps
<1>14. ServerInv'
  <2>1. /\ spc' \in [Servers -> {"accept", "client_hello", "serve"}]
        /\ ssock' \in [Servers -> 0 .. MaxConns]
    BY <1>8, NetAssumption DEF NoConn
  <2> QED
    BY <1>6, <1>9, <2>1 DEF SysInv, ServerInv
<1>15. ShardInv' /\ RouterInv' /\ ClientInv'
  BY <1>6, OthersKept DEF clientvars
<1> QED
  BY <1>13, <1>14, <1>15 DEF SysInv

-----------------------------------------------------------------------------
(***************************************************************************)
(* The end of a process.                                                   *)
(***************************************************************************)
\* Process p forgets its connections, and the others are where they were.
Forgets(p) ==
    /\ \A i, r : <<i, r>> \in Links =>
           IF i = p THEN InitSock(i, r)' = NoConn
           ELSE /\ InitPc(i, r)' = InitPc(i, r)
                /\ InitSock(i, r)' = InitSock(i, r)
                /\ Wanted(i)' = Wanted(i)
    /\ \A r \in Responders :
           IF r = p THEN RespSock(r)' = NoConn
           ELSE RespPc(r)' = RespPc(r) /\ RespSock(r)' = RespSock(r)
    /\ p # Router => request' = request

\* A responder that ends leaves its initiators a connection in order.
LEMMA DeathOfResponder ==
    ASSUME SysInv, NEW p \in Responders, NEW d \in DOMAIN conns,
           Has(p, conns[d], "resp"), conns[d].open["init"],
           NEW k, k.who = conns[d].who, k.key["init"] = conns[d].key["init"],
           k.inbox["init"] = conns[d].inbox["init"],
           NEW k2, NEW pending, ShutAt(k, k2, "resp", pending),
           NEW b2, NEW f2, p \in Servers => p \in f2
    PROVE  Exchange(InitPhase(d), "gone", k2, Wanted(conns[d].who["init"]), b2, f2)
<1>1. IsConn(conns[d]) /\ Coherent(d)
  BY DEF SysInv, ConnInv
<1>2. /\ InitPhase(d) # "gone" /\ RespPhase(d) # "gone"
  BY <1>1, PhaseGone DEF SysInv, Has
<1>3. k.who["init"] = Router => k.who["resp"] \in f2
  <2>1. <<k.who["init"], k.who["resp"]>> \in Links
    BY <1>1 DEF IsConn
  <2> QED
    BY <2>1, LinkEnds DEF Has
<1>4. Exchange(InitPhase(d), RespPhase(d), conns[d], Wanted(conns[d].who["init"]),
               request, failed)
  BY <1>1 DEF Coherent
<1> QED
  BY <1>2, <1>3, <1>4, ExchangeRespCloses

\* Process p ends, with its connections as they are in cs.
LEMMA DeathKeeps ==
    ASSUME SysInv, NEW p \in Procs, NEW how \in Lives \ {"up"},
           NEW cs, SameEnds(conns, cs), End(p, how, cs), Forgets(p),
           p \in Servers => p \in failed',
           \A d \in DOMAIN conns :
               \/ cs[d] = conns[d]
               \/ Has(p, conns[d], "init")
               \/ /\ Has(p, conns[d], "resp")
                  /\ cs[d].key["init"] = conns[d].key["init"]
                  /\ cs[d].inbox["init"] = conns[d].inbox["init"],
           \A d \in DOMAIN conns : \A k2, w2 :
               /\ Has(p, conns[d], "init") /\ conns[d].open["resp"]
               /\ ShutAt(cs[d], k2, "init", FALSE)
               => Exchange("gone", RespPhase(d), k2, w2, request', failed')
    PROVE  NetInv' /\ ConnInv' /\ SockInv' /\ QueueInv'
<1>1. /\ conns' = Orphaned(cs, p)
      /\ backlog' = [backlog EXCEPT ![p] = << >>]
      /\ life' = [life EXCEPT ![p] = how]
      /\ failed' = IF how \in {"exit", "refused"} THEN failed ELSE failed \cup {p}
  BY DEF End
<1>2. failed \subseteq failed' /\ failed' \subseteq Procs
  BY <1>1 DEF SysInv, NetInv
<1>3. \A d \in DOMAIN conns : IsConn(conns[d]) /\ Held(d) /\ Coherent(d)
  BY DEF SysInv, ConnInv
<1>4. /\ DOMAIN cs = DOMAIN conns
      /\ \A d \in DOMAIN conns : /\ IsConn(cs[d]) /\ cs[d].who = conns[d].who
                                 /\ cs[d].open = conns[d].open
  BY DEF SameEnds
<1>5. /\ DOMAIN conns' \subseteq DOMAIN conns
      /\ \A d \in DOMAIN conns, e \in Ends :
             conns[d].open[e] /\ conns[d].who[e] # p => d \in DOMAIN conns'
      /\ \A d \in DOMAIN conns' :
             \/ conns'[d] = cs[d] /\ \A e \in Ends : ~Has(p, cs[d], e)
             \/ \E e \in Ends :
                   /\ Has(p, cs[d], e) /\ cs[d].open[Other(e)]
                   /\ ShutAt(cs[d], conns'[d], e, d \in Queue(p))
  <2>1. \A d \in DOMAIN cs : IsConn(cs[d])
    BY <1>4
  <2>2. /\ DOMAIN conns' \subseteq DOMAIN cs
        /\ \A d \in DOMAIN cs, e \in Ends :
               cs[d].open[e] /\ cs[d].who[e] # p => d \in DOMAIN conns'
        /\ \A d \in DOMAIN conns' :
               \/ conns'[d] = cs[d] /\ \A e \in Ends : ~Has(p, cs[d], e)
               \/ \E e \in Ends :
                     /\ Has(p, cs[d], e) /\ cs[d].open[Other(e)]
                     /\ ShutAt(cs[d], conns'[d], e, d \in Queue(p))
    BY <1>1, <2>1, OrphanedEffect
  <2> QED
    BY <1>4, <2>2
<1>6. \A d \in DOMAIN conns, e \in Ends : Has(p, cs[d], e) <=> Has(p, conns[d], e)
  BY <1>4 DEF Has
<1>7. "init" \in Ends /\ "resp" \in Ends
  BY DEF Ends
<1> DEFINE Outcome(d) ==
               \/ /\ conns'[d] = conns[d]
                  /\ ~Has(p, conns[d], "init") /\ ~Has(p, conns[d], "resp")
               \/ /\ Has(p, conns[d], "init") /\ conns[d].open["resp"]
                  /\ ShutAt(cs[d], conns'[d], "init", FALSE)
               \/ /\ Has(p, conns[d], "resp") /\ conns[d].open["init"]
                  /\ ShutAt(cs[d], conns'[d], "resp", d \in Queue(p))
<1>8. ASSUME NEW d \in DOMAIN conns' PROVE Outcome(d)
  <2>1. d \in DOMAIN conns
    BY <1>5
  <2>2. CASE conns'[d] = cs[d] /\ \A e \in Ends : ~Has(p, cs[d], e)
    <3>1. ~Has(p, conns[d], "init") /\ ~Has(p, conns[d], "resp")
      BY <1>6, <1>7, <2>1, <2>2
    <3>2. cs[d] = conns[d]
      BY <2>1, <3>1
    <3> QED
      BY <2>2, <3>1, <3>2
  <2>3. ASSUME NEW e \in Ends, Has(p, cs[d], e), cs[d].open[Other(e)],
               ShutAt(cs[d], conns'[d], e, d \in Queue(p))
        PROVE  Outcome(d)
    <3>1. CASE e = "init"
      <4>1. Has(p, conns[d], "init") /\ conns[d].open["resp"]
        BY <1>4, <1>6, <2>1, <2>3, <3>1, EndsOf
      <4>2. d \notin Queue(p)
        <5> SUFFICES ASSUME d \in Queue(p) PROVE FALSE
          OBVIOUS
        <5>1. conns[d].who["resp"] = p
          BY DEF SysInv, QueueInv, RespEnd
        <5>2. <<p, p>> \in Links
          BY <1>3, <2>1, <4>1, <5>1 DEF IsConn, Has
        <5> QED
          BY <5>2, LinkEnds
      <4>3. ShutAt(cs[d], conns'[d], "init", FALSE)
        BY <2>3, <3>1, <4>2 DEF ShutAt
      <4> QED
        BY <4>1, <4>3
    <3>2. CASE e = "resp"
      BY <1>4, <1>6, <2>1, <2>3, <3>2, EndsOf
    <3> QED
      BY <3>1, <3>2, EndsOf
  <2> QED
    BY <1>5, <2>2, <2>3
<1>9. ASSUME NEW d \in DOMAIN conns'
      PROVE  /\ d \in DOMAIN conns /\ IsConn(conns'[d])
             /\ conns'[d].who = conns[d].who
             /\ conns'[d].open["init"] <=>
                    conns[d].open["init"] /\ conns[d].who["init"] # p
             /\ conns'[d].open["resp"] <=>
                    conns[d].open["resp"] /\ conns[d].who["resp"] # p
  <2>1. d \in DOMAIN conns /\ IsConn(conns[d]) /\ IsConn(cs[d])
    BY <1>3, <1>4, <1>5
  <2>2. conns[d].who["init"] # conns[d].who["resp"]
    BY <2>1, LinkEnds DEF IsConn
  <2>3. cs[d].who = conns[d].who /\ cs[d].open = conns[d].open
    BY <1>4, <2>1
  <2> QED
    BY <1>8, <2>1, <2>2, <2>3, EndsOf DEF ShutAt, Has
<1>10. ASSUME NEW d \in DOMAIN conns' PROVE Coherent(d)'
  <2>1. /\ d \in DOMAIN conns /\ IsConn(conns[d]) /\ Coherent(d)
        /\ conns'[d].who = conns[d].who
        /\ IsConn(cs[d]) /\ cs[d].who = conns[d].who /\ cs[d].open = conns[d].open
    BY <1>3, <1>4, <1>9
  <2>2. PICK i, r : i = conns[d].who["init"] /\ r = conns[d].who["resp"]
    OBVIOUS
  <2>3. <<i, r>> \in Links /\ r \in Responders /\ i # r
    BY <2>1, <2>2, LinkEnds DEF IsConn, Responders
  <2>4. Coherent(d)' <=>
            Exchange(InitPhase(d)', RespPhase(d)', conns'[d], Wanted(i)', request', failed')
    BY <2>1, <2>2 DEF Coherent
  <2>5. i # p => InitPhase(d)' = InitPhase(d) /\ Wanted(i)' = Wanted(i)
    BY <1>9, <2>1, <2>2, <2>3 DEF InitPhase, Forgets
  <2>6. r # p => RespPhase(d)' = RespPhase(d)
    BY <1>9, <2>1, <2>2, <2>3 DEF RespPhase, Forgets
  <2>7. r # p /\ RespPhase(d) = "busy" => request' = request
    <3> SUFFICES ASSUME r # p, RespPhase(d) = "busy", p = Router PROVE FALSE
      BY DEF Forgets
    <3>1. r \in Servers
      BY <2>3 DEF Responders
    <3>2. spc[r] # "busy" /\ r # Router
      BY <3>1 DEF SysInv, ServerInv
    <3> QED
      BY <2>2, <3>2 DEF RespPhase, RespPc
  <2>8. CASE /\ conns'[d] = conns[d]
             /\ ~Has(p, conns[d], "init") /\ ~Has(p, conns[d], "resp")
    <3>1. InitPhase(d)' = InitPhase(d) /\ (InitPhase(d) = "await" => i # p)
      BY <2>2, <2>5, <2>8 DEF InitPhase, Has
    <3>2. RespPhase(d)' = RespPhase(d) /\ (RespPhase(d) = "busy" => r # p)
      BY <2>2, <2>6, <2>8 DEF RespPhase, Has
    <3>3. InitPhase(d) = "await" =>
              Wanted(conns[d].who["init"])' = Wanted(conns[d].who["init"])
      BY <2>2, <2>5, <2>8, <3>1
    <3> QED
      BY <1>2, <2>1, <2>7, <2>8, <3>1, <3>2, <3>3, Undisturbed
  <2>9. CASE /\ Has(p, conns[d], "init") /\ conns[d].open["resp"]
             /\ ShutAt(cs[d], conns'[d], "init", FALSE)
    <3>1. InitPhase(d)' = "gone"
      BY <1>9, <2>9 DEF InitPhase, Has
    <3>2. RespPhase(d)' = RespPhase(d)
      BY <2>2, <2>3, <2>6, <2>9 DEF Has
    <3>3. \A w2 : Exchange("gone", RespPhase(d), conns'[d], w2, request', failed')
      BY <2>1, <2>9
    <3> QED
      BY <2>4, <3>1, <3>2, <3>3
  <2>10. CASE /\ Has(p, conns[d], "resp") /\ conns[d].open["init"]
              /\ ShutAt(cs[d], conns'[d], "resp", d \in Queue(p))
    <3>1. RespPhase(d)' = "gone"
      BY <1>9, <2>10 DEF RespPhase, Has
    <3>2. InitPhase(d)' = InitPhase(d) /\ Wanted(i)' = Wanted(i) /\ i # p /\ r = p
      BY <2>2, <2>3, <2>5, <2>10 DEF Has
    <3>3. /\ cs[d].key["init"] = conns[d].key["init"]
          /\ cs[d].inbox["init"] = conns[d].inbox["init"]
      BY <2>1, <2>2, <3>2 DEF Has
    <3>4. Exchange(InitPhase(d), "gone", conns'[d], Wanted(i), request', failed')
      <4>1. PICK pending : pending = (d \in Queue(p))
        OBVIOUS
      <4>2. ShutAt(cs[d], conns'[d], "resp", pending)
        BY <2>10, <4>1
      <4>3. p \in Responders
        BY <2>3, <3>2
      <4> QED
        BY <2>1, <2>2, <2>10, <3>3, <4>2, <4>3, DeathOfResponder
    <3> QED
      BY <2>4, <3>1, <3>2, <3>4
  <2> QED
    BY <1>8, <2>8, <2>9, <2>10
<1>11. \A link \in Links : InitStays(link[1], link[2]) \/ InitGoes(link[1], link[2])
  <2> TAKE link \in Links
  <2>1. PICK i, r : i = link[1] /\ r = link[2]
    OBVIOUS
  <2>2. <<i, r>> \in Links
    BY <2>1 DEF Links
  <2>3. CASE i = p
    <3>1. InitGoes(i, r)
      BY <1>9, <2>2, <2>3 DEF InitGoes, Forgets
    <3> QED
      BY <2>1, <3>1
  <2>4. CASE i # p
    <3>1. \A d \in DOMAIN conns :
              conns[d].who["init"] = i /\ conns[d].open["init"] =>
                  d \in DOMAIN conns' /\ conns'[d].open["init"]
      BY <1>5, <1>7, <1>9, <2>4
    <3>2. InitStays(i, r)
      BY <2>2, <2>4, <3>1 DEF InitStays, Forgets
    <3> QED
      BY <2>1, <3>2
  <2> QED
    BY <2>3, <2>4
<1>12. \A r \in Responders : RespStays(r) \/ RespGoes(r)
  <2> TAKE r \in Responders
  <2>1. backlog \in [Procs -> Seq(1 .. MaxConns)] /\ r \in Procs
    BY DEF SysInv, QueueInv, Responders, Procs
  <2>2. CASE r = p
    BY <1>1, <1>9, <2>1, <2>2 DEF RespGoes, Forgets
  <2>3. CASE r # p
    <3>1. \A d \in DOMAIN conns :
              conns[d].who["resp"] = r /\ conns[d].open["resp"] =>
                  d \in DOMAIN conns' /\ conns'[d].open["resp"]
      BY <1>5, <1>7, <1>9, <2>3
    <3> QED
      BY <1>1, <2>1, <2>3, <3>1 DEF RespStays, Forgets
  <2> QED
    BY <2>2, <2>3
<1>13. /\ backlog' = [r \in Procs |-> backlog'[r]]
       /\ \A k \in Clients : backlog'[k] = << >>
       /\ \A r \in Responders : life'[r] # "up" => backlog'[r] = << >>
       /\ life' \in [Procs -> Lives]
  <2>1. Clients \subseteq Procs /\ Responders \subseteq Procs
    BY DEF Procs, Responders
  <2>2. /\ backlog \in [Procs -> Seq(1 .. MaxConns)] /\ life \in [Procs -> Lives]
        /\ \A r \in Procs : life[r] # "up" \/ r \in Clients => backlog[r] = << >>
    BY DEF SysInv, QueueInv, NetInv
  <2> QED
    BY <1>1, <2>1, <2>2
<1>14. \A d \in DOMAIN conns' :
           /\ IsConn(conns'[d]) /\ conns'[d].who = conns[d].who
           /\ \A e \in Ends : conns'[d].open[e] => conns[d].open[e]
  BY <1>9, EndsOf
<1> QED
  BY <1>2, <1>5, <1>10, <1>11, <1>12, <1>13, <1>14, ClosingKeeps

\* The death of a server, of the router or of a client.
LEMMA ServerForgets ==
    ASSUME NEW s \in Servers, ServerInv,
           ServerGone(s), UNCHANGED <<routervars, clientvars>>
    PROVE  Forgets(s)
<1>1. s # Router
  BY NetAssumption DEF Servers
<1>2. /\ ssock'[s] = NoConn
      /\ \A t \in Servers \ {s} : spc'[t] = spc[t] /\ ssock'[t] = ssock[t]
  BY DEF ServerGone, ServerInv
<1>3. \A i, r : InitPc(i, r)' = InitPc(i, r) /\ InitSock(i, r)' = InitSock(i, r)
                /\ Wanted(i)' = Wanted(i)
  BY DEF InitPc, InitSock, Wanted, routervars, clientvars
<1>4. \A i, r : <<i, r>> \in Links => i # s
  BY NetAssumption DEF Links, Servers
<1>5. \A r \in Responders :
           IF r = s THEN RespSock(r)' = NoConn
           ELSE RespPc(r)' = RespPc(r) /\ RespSock(r)' = RespSock(r)
  BY <1>1, <1>2 DEF RespPc, RespSock, Responders, routervars
<1> QED
  BY <1>3, <1>4, <1>5 DEF Forgets, routervars

\* The same for the router.
LEMMA RouterForgets ==
    ASSUME RouterGone, UNCHANGED <<servervars, clientvars>>
    PROVE  Forgets(Router)
<1>1. /\ server_sockets' = [s \in Servers |-> NoConn] /\ client_sock' = NoConn
  BY DEF RouterGone
<1>2. \A i, r : <<i, r>> \in Links =>
          IF i = Router THEN InitSock(i, r)' = NoConn
          ELSE /\ InitPc(i, r)' = InitPc(i, r)
               /\ InitSock(i, r)' = InitSock(i, r)
               /\ Wanted(i)' = Wanted(i)
  <2> SUFFICES ASSUME NEW i, NEW r, <<i, r>> \in Links
               PROVE  IF i = Router THEN InitSock(i, r)' = NoConn
                      ELSE /\ InitPc(i, r)' = InitPc(i, r)
                           /\ InitSock(i, r)' = InitSock(i, r)
                           /\ Wanted(i)' = Wanted(i)
    OBVIOUS
  <2>1. CASE i = Router
    <3>1. r \in Servers
      BY <2>1, LinkEnds
    <3> QED
      BY <1>1, <2>1, <3>1 DEF InitSock
  <2>2. CASE i # Router
    BY <2>2 DEF InitPc, InitSock, Wanted, clientvars
  <2> QED
    BY <2>1, <2>2
<1>3. \A r \in Responders :
          IF r = Router THEN RespSock(r)' = NoConn
          ELSE RespPc(r)' = RespPc(r) /\ RespSock(r)' = RespSock(r)
  BY <1>1 DEF RespPc, RespSock, servervars
<1> QED
  BY <1>2, <1>3 DEF Forgets

\* The same for a client.
LEMMA ClientForgets ==
    ASSUME ClientInv, NEW k \in Clients,
           ClientGone(k), UNCHANGED <<servervars, routervars>>
    PROVE  Forgets(k)
<1>1. k # Router /\ k \notin Responders
  BY NetAssumption DEF Responders, Servers
<1>2. /\ sockfd'[k] = NoConn
      /\ \A j \in Clients \ {k} :
             cpc'[j] = cpc[j] /\ sockfd'[j] = sockfd[j] /\ cmd'[j] = cmd[j]
  BY DEF ClientGone, ClientInv
<1>3. \A i, r : <<i, r>> \in Links =>
          IF i = k THEN InitSock(i, r)' = NoConn
          ELSE /\ InitPc(i, r)' = InitPc(i, r)
               /\ InitSock(i, r)' = InitSock(i, r)
               /\ Wanted(i)' = Wanted(i)
  <2> SUFFICES ASSUME NEW i, NEW r, <<i, r>> \in Links
               PROVE  IF i = k THEN InitSock(i, r)' = NoConn
                      ELSE /\ InitPc(i, r)' = InitPc(i, r)
                           /\ InitSock(i, r)' = InitSock(i, r)
                           /\ Wanted(i)' = Wanted(i)
    OBVIOUS
  <2>1. CASE i = k
    BY <1>1, <1>2, <2>1 DEF InitSock
  <2>2. CASE i = Router
    BY <1>1, <2>2 DEF InitPc, InitSock, Wanted, routervars
  <2>3. CASE i # Router /\ i # k
    <3>1. i \in Clients \ {k}
      BY <2>3, LinkEnds
    <3> QED
      BY <1>2, <2>3, <3>1 DEF InitPc, InitSock, Wanted
  <2> QED
    BY <2>1, <2>2, <2>3
<1>4. \A r \in Responders : RespPc(r)' = RespPc(r) /\ RespSock(r)' = RespSock(r)
  BY DEF RespPc, RespSock, servervars, routervars
<1> QED
  BY <1>1, <1>3, <1>4 DEF Forgets, routervars

\* Connections that nothing was done to have the ends they had.
LEMMA SameEndsSelf == SysInv => SameEnds(conns, conns)
  BY DEF SysInv, ConnInv, SameEnds

\* A server is killed, or dies of a connection that ended too early.
LEMMA ServerDeathStep ==
    ASSUME SysInv, NEW s \in Servers, NEW how \in {"killed", "ub"},
           how = "ub" => Router \in failed,
           End(s, how, conns), ServerGone(s),
           UNCHANGED <<routervars, clientvars>>
    PROVE  SysInv'
<1>1. /\ life' = [life EXCEPT ![s] = how] /\ failed' = failed \cup {s}
  BY DEF End
<1>2. /\ spc' = [spc EXCEPT ![s] = "accept"] /\ ssock' = [ssock EXCEPT ![s] = NoConn]
      /\ chain' = [chain EXCEPT ![s] = << >>] /\ allocFails' = allocFails
  BY DEF ServerGone
<1>3. /\ s \in Procs /\ s # Router /\ s \notin Clients /\ how \in Lives \ {"up"}
      /\ Clients \subseteq Procs /\ Router \in Procs /\ Servers \subseteq Procs
  BY NetAssumption DEF Procs, Servers, Lives
<1>4. /\ spc \in [Servers -> {"accept", "client_hello", "serve"}]
      /\ ssock \in [Servers -> 0 .. MaxConns] /\ life \in [Procs -> Lives]
  BY DEF SysInv, ServerInv, NetInv
<1>5. Forgets(s)
  BY ServerForgets DEF SysInv
<1>6. \A d \in DOMAIN conns : ~Has(s, conns[d], "init")
  <2> TAKE d \in DOMAIN conns
  <2>1. <<conns[d].who["init"], conns[d].who["resp"]>> \in Links
    BY DEF SysInv, ConnInv, IsConn
  <2> QED
    BY <1>3, <2>1, LinkEnds DEF Has
<1>7. NetInv' /\ ConnInv' /\ SockInv' /\ QueueInv'
  BY <1>1, <1>3, <1>5, <1>6, SameEndsSelf, DeathKeeps
<1>8. ServerInv'
  <2>1. /\ spc' \in [Servers -> {"accept", "client_hello", "serve"}]
        /\ ssock' \in [Servers -> 0 .. MaxConns]
    BY <1>2, <1>4, NetAssumption DEF NoConn
  <2>2. \A t \in Servers \ {s} :
            spc'[t] = spc[t] /\ ssock'[t] = ssock[t] /\ life'[t] = life[t]
    BY <1>1, <1>2, <1>3, <1>4
  <2>3. spc'[s] = "accept" /\ ssock'[s] = NoConn /\ life'[s] = how
    BY <1>1, <1>2, <1>3, <1>4
  <2> QED
    BY <1>1, <2>1, <2>2, <2>3 DEF SysInv, ServerInv
<1>9. ShardInv'
  <2>1. \A t \in Servers : chain'[t] = IF t = s THEN << >> ELSE chain[t]
    BY <1>2 DEF SysInv, ShardInv
  <2> QED
    BY <1>2, <2>1, ChainedEmpty DEF SysInv, ShardInv
<1>10. RouterInv' /\ ClientInv'
  <2>1. life'[Router] = life[Router] /\ \A k \in Clients : life'[k] = life[k]
    BY <1>1, <1>3, <1>4
  <2> QED
    BY <1>1, <2>1, OthersKept DEF clientvars
<1> QED
  BY <1>7, <1>8, <1>9, <1>10 DEF SysInv

\* cs are the connections, or the connections after a recv of p.
AfterRecv(p, cs) ==
    \/ cs = conns
    \/ \E c \in DOMAIN conns, e \in Ends : Has(p, conns[c], e) /\ cs = Taken(c, e)

\* What such a recv changes.
LEMMA AfterRecvEffect ==
    ASSUME SysInv, NEW p, NEW cs, AfterRecv(p, cs)
    PROVE  /\ SameEnds(conns, cs)
           /\ \A d \in DOMAIN conns :
                  \/ cs[d] = conns[d]
                  \/ \E e \in Ends : Has(p, conns[d], e) /\ TakenAt(conns[d], cs[d], e)
<1>1. CASE cs = conns
  BY <1>1, SameEndsSelf
<1>2. ASSUME NEW c \in DOMAIN conns, NEW e \in Ends, Has(p, conns[c], e), cs = Taken(c, e)
      PROVE  /\ SameEnds(conns, cs)
             /\ \A d \in DOMAIN conns :
                    \/ cs[d] = conns[d]
                    \/ Has(p, conns[d], e) /\ TakenAt(conns[d], cs[d], e)
  <2>1. \A d \in DOMAIN conns : IsConn(conns[d])
    BY DEF SysInv, ConnInv
  <2>2. OnlyAt(conns, cs, c) /\ TakenAt(conns[c], cs[c], e)
    BY <1>2, <2>1, TakenEffect
  <2>3. SameEnds(conns, cs)
    BY <2>1, <2>2, SameEndsStep
  <2> QED
    BY <1>2, <2>2, <2>3 DEF OnlyAt
<1> QED
  BY <1>1, <1>2 DEF AfterRecv

\* An initiator that ends leaves its responders a connection in order.
LEMMA DeathOfInitiator ==
    ASSUME SysInv, NEW d \in DOMAIN conns, NEW p, Has(p, conns[d], "init"),
           conns[d].open["resp"],
           NEW k, k = conns[d] \/ \E e \in Ends : /\ Has(p, conns[d], e)
                                                  /\ TakenAt(conns[d], k, e),
           NEW k2, ShutAt(k, k2, "init", FALSE),
           NEW w2, NEW b2, NEW f2,
           InitPhase(d) = "connected" => p \in f2,
           InitPhase(d) = "await" => Wanted(p) \in RequestsOf(p)
    PROVE  Exchange("gone", RespPhase(d), k2, w2, b2, f2)
<1>1. IsConn(conns[d]) /\ Coherent(d)
  BY DEF SysInv, ConnInv
<1>2. InitPhase(d) # "gone" /\ RespPhase(d) # "gone"
  BY <1>1, PhaseGone DEF SysInv, Has
<1>3. conns[d].who["init"] = p /\ conns[d].who["resp"] # p
  <2>1. <<conns[d].who["init"], conns[d].who["resp"]>> \in Links
    BY <1>1 DEF IsConn
  <2> QED
    BY <2>1, LinkEnds DEF Has
<1>4. k = conns[d] \/ TakenAt(conns[d], k, "init")
  BY <1>3, EndsOf DEF Has
<1>5. /\ k.who = conns[d].who /\ k.reset = conns[d].reset
      /\ k.key["resp"] = conns[d].key["resp"]
      /\ k.inbox["resp"] = conns[d].inbox["resp"]
      /\ conns[d].inbox["init"] = << >> => k.inbox["init"] = << >>
  BY <1>4, EndsOf DEF TakenAt
<1>6. Exchange(InitPhase(d), RespPhase(d), conns[d], Wanted(p), request, failed)
  BY <1>1, <1>3 DEF Coherent
<1>7. /\ InitPhase(d) = "connected" => k.who["init"] \in f2
      /\ InitPhase(d) = "await" => Wanted(p) \in RequestsOf(k.who["init"])
  BY <1>3, <1>5
<1> QED
  BY <1>2, <1>5, <1>6, <1>7, ExchangeInitCloses

\* The router ends.
LEMMA RouterDeathStep ==
    ASSUME SysInv, NEW how \in {"refused", "sigpipe", "ub", "segv", "killed"},
           how = "refused" => rpc = "connect",
           how = "sigpipe" => failed \cap Servers # {},
           how = "ub" => failed \cap Clients # {},
           NEW cs, AfterRecv(Router, cs), RouterDies(how, cs),
           UNCHANGED <<servervars, clientvars>>
    PROVE  SysInv'
<1>1. /\ End(Router, how, cs) /\ RouterGone
      /\ life' = [life EXCEPT ![Router] = how]
      /\ failed' = IF how \in {"exit", "refused"} THEN failed ELSE failed \cup {Router}
  BY DEF RouterDies, End
<1>2. /\ rpc' = "connect" /\ ri' = 0 /\ current_server' = 0
      /\ server_sockets' = [s \in Servers |-> NoConn]
      /\ client_sock' = NoConn /\ request' = NoRequest /\ replies' = << >>
  BY <1>1 DEF RouterGone
<1>3. /\ how \in Lives \ {"up"} /\ Router \in Procs /\ Router \notin Servers
      /\ Router \notin Clients
      /\ Clients \subseteq Procs /\ Servers \subseteq Procs
  BY NetAssumption DEF Procs, Servers, Lives
<1>4. failed \subseteq failed' /\ (how # "refused" => Router \in failed')
  BY <1>1
<1>5. /\ SameEnds(conns, cs)
      /\ \A d \in DOMAIN conns :
             \/ cs[d] = conns[d]
             \/ \E e \in Ends : Has(Router, conns[d], e) /\ TakenAt(conns[d], cs[d], e)
  BY AfterRecvEffect
<1>6. \A d \in DOMAIN conns :
          \/ cs[d] = conns[d]
          \/ Has(Router, conns[d], "init")
          \/ /\ Has(Router, conns[d], "resp")
             /\ cs[d].key["init"] = conns[d].key["init"]
             /\ cs[d].inbox["init"] = conns[d].inbox["init"]
  BY <1>5, EndsOf DEF TakenAt
<1>7. ASSUME NEW d \in DOMAIN conns, NEW k2, NEW w2,
             Has(Router, conns[d], "init"), conns[d].open["resp"],
             ShutAt(cs[d], k2, "init", FALSE)
      PROVE  Exchange("gone", RespPhase(d), k2, w2, request', failed')
  <2>1. InitPhase(d) = InitPc(Router, conns[d].who["resp"])
    BY <1>7 DEF InitPhase, Has
  <2>2. InitPhase(d) = "connected" => Router \in failed'
    BY <1>4, <2>1 DEF InitPc
  <2>3. InitPhase(d) = "await" => Wanted(Router) \in RequestsOf(Router)
    BY <2>1 DEF InitPc, Wanted, RequestsOf, SysInv, RouterInv
  <2> QED
    BY <1>5, <1>7, <2>2, <2>3, DeathOfInitiator
<1>8. Forgets(Router)
  BY <1>1, RouterForgets
<1>9. NetInv' /\ ConnInv' /\ SockInv' /\ QueueInv'
  BY <1>1, <1>3, <1>5, <1>6, <1>7, <1>8, DeathKeeps
<1>10. /\ life'[Router] = how
       /\ \A s \in Servers : life'[s] = life[s]
       /\ \A k \in Clients : life'[k] = life[k]
  BY <1>1, <1>3 DEF SysInv, NetInv
<1>11. RouterInv'
  <2>1. 0 \in Servers /\ \A s \in Servers : s >= 0
    BY NetAssumption DEF Servers
  <2>2. /\ server_sockets' \in [Servers -> 0 .. MaxConns]
        /\ \A s \in Servers : server_sockets'[s] = NoConn
        /\ client_sock' \in 0 .. MaxConns
    BY <1>2, NetAssumption DEF NoConn
  <2>3. /\ life'[Router] = "sigpipe" => failed' \cap Servers # {}
        /\ life'[Router] = "ub" => failed' \cap Clients # {}
    BY <1>4, <1>10
  <2> QED
    BY <1>2, <1>10, <2>1, <2>2, <2>3 DEF RouterInv
<1>12. ServerInv' /\ ShardInv' /\ ClientInv'
  BY <1>4, <1>10, OthersKept DEF servervars, clientvars
<1> QED
  BY <1>9, <1>11, <1>12 DEF SysInv

\* Client k ends, with its connections as they are in cs.
LEMMA ClientDeathKeeps ==
    ASSUME SysInv, NEW k \in Clients,
           NEW how \in {"exit", "refused", "sigpipe", "segv", "killed"},
           NEW cs, SameEnds(conns, cs), ClientDies(k, how, cs),
           UNCHANGED <<servervars, routervars>>,
           \A d \in DOMAIN conns : cs[d] = conns[d] \/ Has(k, conns[d], "init"),
           \A d \in DOMAIN conns : \A k2, w2 :
               /\ Has(k, conns[d], "init") /\ conns[d].open["resp"]
               /\ ShutAt(cs[d], k2, "init", FALSE)
               => Exchange("gone", RespPhase(d), k2, w2, request, failed')
    PROVE  SysInv'
<1>1. /\ End(k, how, cs) /\ ClientGone(k)
      /\ life' = [life EXCEPT ![k] = how]
      /\ failed' = IF how \in {"exit", "refused"} THEN failed ELSE failed \cup {k}
  BY DEF ClientDies, End
<1>2. /\ cpc' = [cpc EXCEPT ![k] = "off"] /\ sockfd' = [sockfd EXCEPT ![k] = NoConn]
      /\ cmd' = [cmd EXCEPT ![k] = NoCommand]
  BY <1>1 DEF ClientGone
<1>3. /\ how \in Lives \ {"up"} /\ k \in Procs /\ k \notin Servers /\ k # Router
      /\ Clients \subseteq Procs /\ Servers \subseteq Procs /\ Router \in Procs
  BY NetAssumption DEF Procs, Servers, Lives
<1>4. failed \subseteq failed' /\ request' = request
  BY <1>1 DEF routervars
<1>5. Forgets(k)
  BY <1>1, ClientForgets DEF SysInv
<1>6. NetInv' /\ ConnInv' /\ SockInv' /\ QueueInv'
  BY <1>1, <1>3, <1>4, <1>5, DeathKeeps
<1>7. /\ life'[k] = how /\ life'[Router] = life[Router]
      /\ \A s \in Servers : life'[s] = life[s]
      /\ \A j \in Clients \ {k} : life'[j] = life[j]
  BY <1>1, <1>3 DEF SysInv, NetInv
<1>8. ClientInv'
  <2>1. /\ cpc \in [Clients -> {"off", "connected", "server_hello", "idle", "await"}]
        /\ sockfd \in [Clients -> 0 .. MaxConns] /\ DOMAIN cmd = Clients
    BY DEF SysInv, ClientInv
  <2>2. /\ cpc' \in [Clients -> {"off", "connected", "server_hello", "idle", "await"}]
        /\ sockfd' \in [Clients -> 0 .. MaxConns] /\ DOMAIN cmd' = Clients
    BY <1>2, <2>1, NetAssumption DEF NoConn
  <2>3. \A j \in Clients \ {k} :
            cpc'[j] = cpc[j] /\ sockfd'[j] = sockfd[j] /\ cmd'[j] = cmd[j]
    BY <1>2, <2>1
  <2>4. cpc'[k] = "off" /\ sockfd'[k] = NoConn /\ cmd'[k] = NoCommand
    BY <1>2, <2>1
  <2> QED
    BY <1>7, <2>2, <2>3, <2>4 DEF SysInv, ClientInv
<1>9. ServerInv' /\ ShardInv' /\ RouterInv'
  BY <1>4, <1>7, OthersKept DEF servervars
<1> QED
  BY <1>6, <1>8, <1>9 DEF SysInv

\* What a client wants is a request.
LEMMA ClientWants ==
    ASSUME SysInv, NEW k \in Clients, NEW d \in DOMAIN conns, Has(k, conns[d], "init")
    PROVE  /\ d = sockfd[k] /\ d # NoConn /\ InitPhase(d) = cpc[k] /\ k # Router
           /\ InitPhase(d) = "await" => Wanted(k) \in Requests
           /\ Requests \subseteq RequestsOf(k) /\ [kind |-> "EXIT"] \in RequestsOf(k)
<1>1. k # Router
  BY NetAssumption
<1>2. Held(d) /\ d \in 1 .. MaxConns
  BY DEF SysInv, ConnInv, NetInv
<1>3. InitSock(k, conns[d].who["resp"]) = d
  BY <1>2 DEF Held, Has
<1>4. d = sockfd[k] /\ InitPhase(d) = cpc[k]
  BY <1>1, <1>3 DEF InitSock, InitPhase, InitPc, Has
<1>5. InitPhase(d) = "await" => Wanted(k) \in Requests
  BY <1>1, <1>4 DEF Wanted, SysInv, ClientInv
<1>6. d # NoConn
  BY <1>2, NetAssumption DEF NoConn
<1> QED
  BY <1>1, <1>4, <1>5, <1>6 DEF RequestsOf

\* A client ends, without a word to the router.
LEMMA ClientDeathStep ==
    ASSUME SysInv, NEW k \in Clients,
           NEW how \in {"exit", "refused", "sigpipe", "segv", "killed"},
           how \in {"exit", "refused"} => cpc[k] # "connected",
           NEW cs, AfterRecv(k, cs), ClientDies(k, how, cs),
           UNCHANGED <<servervars, routervars>>
    PROVE  SysInv'
<1>1. /\ SameEnds(conns, cs)
      /\ \A d \in DOMAIN conns :
             \/ cs[d] = conns[d]
             \/ \E e \in Ends : Has(k, conns[d], e) /\ TakenAt(conns[d], cs[d], e)
  BY AfterRecvEffect
<1>2. \A d \in DOMAIN conns : ~Has(k, conns[d], "resp")
  <2> TAKE d \in DOMAIN conns
  <2>1. <<conns[d].who["init"], conns[d].who["resp"]>> \in Links
    BY DEF SysInv, ConnInv, IsConn
  <2>2. k # Router /\ k \notin Servers
    BY NetAssumption DEF Servers
  <2> QED
    BY <2>1, <2>2, LinkEnds DEF Has
<1>3. \A d \in DOMAIN conns : cs[d] = conns[d] \/ Has(k, conns[d], "init")
  BY <1>1, <1>2, EndsOf
<1>4. failed' = IF how \in {"exit", "refused"} THEN failed ELSE failed \cup {k}
  BY DEF ClientDies, End
<1>5. ASSUME NEW d \in DOMAIN conns, NEW k2, NEW w2,
             Has(k, conns[d], "init"), conns[d].open["resp"],
             ShutAt(cs[d], k2, "init", FALSE)
      PROVE  Exchange("gone", RespPhase(d), k2, w2, request, failed')
  <2>1. /\ InitPhase(d) = cpc[k]
        /\ InitPhase(d) = "await" => Wanted(k) \in RequestsOf(k)
    BY <1>5, ClientWants
  <2>2. InitPhase(d) = "connected" => k \in failed'
    BY <1>4, <2>1
  <2> QED
    BY <1>1, <1>5, <2>1, <2>2, DeathOfInitiator
<1> QED
  BY <1>1, <1>3, <1>5, ClientDeathKeeps

\* Receiving the server hello, or the end of the connection.
LEMMA HelloReceivedEffect ==
    ASSUME NEW c \in DOMAIN conns, IsConn(conns[c]),
           HelloUsable(c), CanRecv(c, "init"),
           NEW r, NEW w, NEW b, NEW f,
           Exchange("server_hello", r, conns[c], w, b, f),
           r = "gone" <=> ~conns[c].open["resp"]
    PROVE  /\ OnlyAt(conns, HelloReceived(c), c)
           /\ Exchange("idle", r, HelloReceived(c)[c], w, b, f)
<1> DEFINE cs1 == Taken(c, "init")
           cs2 == WithKey(cs1, c, "init", "shared")
<1>1. "init" \in Ends /\ "shared" \in Keys
  BY DEF Ends, Keys
<1>2. OnlyAt(conns, cs1, c) /\ TakenAt(conns[c], cs1[c], "init")
  BY <1>1, TakenEffect
<1>3. conns[c].inbox["init"] # << >> \/ ~conns[c].open["resp"]
  BY EndsOf DEF CanRecv
<1>4. CASE conns[c].inbox["init"] = << >>
  <2>1. HelloReceived(c) = conns
    BY <1>4 DEF HelloReceived, AtEnd
  <2>2. OnlyAt(conns, conns, c)
    BY DEF OnlyAt
  <2>3. Exchange("idle", r, conns[c], w, b, f)
    BY <1>2, <1>3, <1>4, ExchangeHelloReceived
  <2> QED
    BY <2>1, <2>2, <2>3
<1>5. CASE conns[c].inbox["init"] # << >>
  <2>1. HelloReceived(c) = cs2 /\ Head(conns[c].inbox["init"]).key = "shared"
    BY <1>5 DEF HelloReceived, HelloUsable, AtEnd, Received
  <2> HIDE DEF cs1
  <2>2. c \in DOMAIN cs1 /\ IsConn(cs1[c])
    BY <1>2 DEF OnlyAt
  <2>3. OnlyAt(cs1, cs2, c) /\ KeyedAt(cs1[c], cs2[c], "init", "shared")
    BY <1>1, <2>2, WithKeyEffect
  <2> HIDE DEF cs2
  <2>4. OnlyAt(conns, cs2, c)
    BY <1>2, <2>3 DEF OnlyAt
  <2>5. Exchange("idle", r, cs2[c], w, b, f)
    BY <1>2, <1>3, <1>5, <2>1, <2>3, ExchangeHelloReceived
  <2> QED
    BY <2>1, <2>4, <2>5
<1> QED
  BY <1>4, <1>5

-----------------------------------------------------------------------------
(***************************************************************************)
(* The steps of a client.                                                  *)
(***************************************************************************)
\* Client k sends and receives on its connection.
LEMMA ClientTalks ==
    ASSUME SysInv, NEW k \in Clients,
           NEW pc \in {"connected", "server_hello", "idle", "await"},
           NEW w, IF pc = "await" THEN w \in Requests ELSE w = NoCommand,
           sockfd[k] # NoConn, life[k] = "up",
           OnlyAt(conns, conns', sockfd[k]),
           UNCHANGED <<backlog, life, failed>>,
           UNCHANGED <<servervars, routervars, sockfd>>,
           cpc' = [cpc EXCEPT ![k] = pc],
           cmd'[k] = w, DOMAIN cmd' = Clients,
           \A j \in Clients \ {k} : cmd'[j] = cmd[j],
           Exchange(pc, RespPhase(sockfd[k]), conns'[sockfd[k]], w, request, failed)
    PROVE  SysInv'
<1>1. PICK c : c = sockfd[k]
  OBVIOUS
<1>2. /\ c \in DOMAIN conns /\ IsConn(conns[c]) /\ Coherent(c)
      /\ conns[c].open["init"] /\ conns[c].who["init"] = k /\ k # Router
  BY <1>1, AtClient
<1>3. SameEnds(conns, conns')
  <2>1. \A d \in DOMAIN conns : IsConn(conns[d])
    BY DEF SysInv, ConnInv
  <2> QED
    BY <1>1, <1>2, <2>1, SameEndsStep
<1>4. /\ cpc \in [Clients -> {"off", "connected", "server_hello", "idle", "await"}]
      /\ DOMAIN cmd = Clients
  BY DEF SysInv, ClientInv
<1>5. /\ cpc'[k] = pc /\ cmd'[k] = w
      /\ \A j \in Clients \ {k} : cpc'[j] = cpc[j] /\ cmd'[j] = cmd[j]
  BY <1>4
<1>6. ASSUME NEW d \in DOMAIN conns PROVE Coherent(d)'
  <2>1. IsConn(conns[d]) /\ Held(d) /\ Coherent(d)
    BY DEF SysInv, ConnInv
  <2>2. CASE d # c
    <3>1. conns'[d] = conns[d]
      BY <1>1, <2>2 DEF OnlyAt
    <3> QED
      BY <1>1, <1>5, <2>1, <2>2, <3>1, ClientFrame
  <2>3. CASE d = c
    <3>1. conns'[c].who = conns[c].who /\ conns'[c].open = conns[c].open
      BY <1>1 DEF OnlyAt
    <3>2. InitPhase(c)' = pc
      BY <1>2, <1>5, <3>1 DEF InitPhase, InitPc
    <3>3. RespPhase(c)' = RespPhase(c)
      BY <3>1 DEF RespPhase, RespSock, RespPc, servervars, routervars
    <3>4. Wanted(conns[c].who["init"])' = w /\ request' = request
      BY <1>2, <1>5, <3>1 DEF Wanted, routervars
    <3> QED
      BY <1>1, <2>3, <3>2, <3>3, <3>4 DEF Coherent
  <2> QED
    BY <2>2, <2>3
<1>7. NetInv' /\ ConnInv' /\ SockInv' /\ QueueInv'
  BY <1>3, <1>6, TalkKeeps DEF servervars, routervars
<1>8. ClientInv'
  <2>1. /\ cpc' \in [Clients -> {"off", "connected", "server_hello", "idle", "await"}]
        /\ DOMAIN cmd' = Clients
    BY <1>4
  <2> QED
    BY <1>5, <2>1 DEF SysInv, ClientInv
<1>9. ServerInv' /\ ShardInv' /\ RouterInv'
  BY OthersKept DEF servervars
<1> QED
  BY <1>7, <1>8, <1>9 DEF SysInv

\* What is known of the connection of a client that is at pc.
LEMMA ClientConn ==
    ASSUME SysInv, NEW k \in Clients, sockfd[k] # NoConn
    PROVE  LET c == sockfd[k] IN
           /\ c \in DOMAIN conns /\ IsConn(conns[c])
           /\ conns[c].open["init"] /\ conns[c].who["init"] = k /\ k # Router
           /\ RespPhase(c) = "gone" <=> ~conns[c].open["resp"]
           /\ Exchange(cpc[k], RespPhase(c), conns[c], cmd[k], request, failed)
           /\ Has(k, conns[c], "init")
<1>1. PICK c : c = sockfd[k]
  OBVIOUS
<1>2. /\ c \in DOMAIN conns /\ IsConn(conns[c]) /\ Coherent(c)
      /\ conns[c].open["init"] /\ conns[c].who["init"] = k /\ k # Router
      /\ InitPhase(c) = cpc[k]
  BY <1>1, AtClient
<1>3. RespPhase(c) = "gone" <=> ~conns[c].open["resp"]
  BY <1>2, PhaseGone DEF SysInv
<1>4. Exchange(cpc[k], RespPhase(c), conns[c], cmd[k], request, failed)
  BY <1>2 DEF Coherent, Wanted
<1> QED
  BY <1>1, <1>2, <1>3, <1>4 DEF Has

\* The client hello.
LEMMA ClientSendHelloStep ==
    ASSUME SysInv, NEW k \in Clients, ClientSendHello(k),
           UNCHANGED <<servervars, routervars>>
    PROVE  SysInv'
<1>1. life[k] = "up" /\ cpc[k] = "connected"
  BY DEF ClientSendHello, ClientAt
<1>2. CASE /\ Communicate(Sent(conns, sockfd[k], "init", ClientHello))
           /\ cpc' = [cpc EXCEPT ![k] = "server_hello"]
           /\ UNCHANGED <<sockfd, cmd, sent, acked, known>>
  <2>1. sockfd[k] # NoConn /\ cmd[k] = NoCommand /\ DOMAIN cmd = Clients
    BY <1>1 DEF SysInv, ClientInv
  <2>2. PICK c : c = sockfd[k]
    OBVIOUS
  <2>3. /\ c \in DOMAIN conns /\ IsConn(conns[c])
        /\ RespPhase(c) = "gone" <=> ~conns[c].open["resp"]
        /\ Exchange("connected", RespPhase(c), conns[c], cmd[k], request, failed)
    BY <1>1, <2>1, <2>2, ClientConn
  <2>4. conns' = Sent(conns, c, "init", ClientHello) /\ UNCHANGED <<backlog, life, failed>>
    BY <1>2, <2>2 DEF Communicate
  <2>5. OnlyAt(conns, conns', c) /\ SentAt(conns[c], conns'[c], "init", ClientHello)
    BY <2>3, <2>4, SentEffect DEF Ends
  <2>6. Exchange("server_hello", RespPhase(c), conns'[c], cmd[k], request, failed)
    BY <2>3, <2>5, ExchangeHello
  <2>7. cmd' = cmd
    BY <1>2
  <2> QED
    BY <1>1, <1>2, <2>1, <2>2, <2>4, <2>5, <2>6, <2>7, ClientTalks
<1>3. CASE Broken(conns, sockfd[k], "init") /\ ClientDies(k, "sigpipe", conns)
  <2>1. AfterRecv(k, conns)
    BY DEF AfterRecv
  <2> QED
    BY <1>3, <2>1, ClientDeathStep
<1> QED
  BY <1>2, <1>3 DEF ClientSendHello

\* The server hello that a client waits for, or the end of the connection.
LEMMA ClientRecvHelloStep ==
    ASSUME SysInv, NEW k \in Clients, ClientRecvHello(k),
           UNCHANGED <<servervars, routervars>>
    PROVE  SysInv'
<1>1. life[k] = "up" /\ cpc[k] = "server_hello" /\ CanRecv(sockfd[k], "init")
  BY DEF ClientRecvHello, ClientAt
<1>2. sockfd[k] # NoConn /\ cmd[k] = NoCommand /\ DOMAIN cmd = Clients
  BY <1>1 DEF SysInv, ClientInv
<1>3. PICK c : c = sockfd[k]
  OBVIOUS
<1>4. /\ c \in DOMAIN conns /\ IsConn(conns[c]) /\ Has(k, conns[c], "init")
      /\ RespPhase(c) = "gone" <=> ~conns[c].open["resp"]
      /\ Exchange("server_hello", RespPhase(c), conns[c], cmd[k], request, failed)
  BY <1>1, <1>2, <1>3, ClientConn
<1>5. CASE /\ HelloUsable(c) /\ Communicate(HelloReceived(c))
           /\ cpc' = [cpc EXCEPT ![k] = "idle"]
           /\ UNCHANGED <<sockfd, cmd, sent, acked, known>>
  <2>1. conns' = HelloReceived(c) /\ UNCHANGED <<backlog, life, failed>>
    BY <1>5 DEF Communicate
  <2>2. /\ OnlyAt(conns, conns', c)
        /\ Exchange("idle", RespPhase(c), conns'[c], NoCommand, request, failed)
    BY <1>1, <1>2, <1>3, <1>4, <1>5, <2>1, HelloReceivedEffect
  <2>3. cmd' = cmd
    BY <1>5
  <2> QED
    BY <1>1, <1>2, <1>3, <1>5, <2>1, <2>2, <2>3, ClientTalks
<1>6. CASE ~HelloUsable(c) /\ ClientDies(k, "segv", Taken(c, "init"))
  <2>1. AfterRecv(k, Taken(c, "init"))
    BY <1>4 DEF AfterRecv, Ends
  <2> QED
    BY <1>6, <2>1, ClientDeathStep
<1> QED
  BY <1>3, <1>5, <1>6 DEF ClientRecvHello

\* An initiator that is idle, or has just sent its last packet, closes.
LEMMA ExchangeInitShuts ==
    ASSUME NEW i \in {"idle", "await"}, NEW r, NEW k, NEW w, NEW b, NEW f,
           Exchange(i, r, k, w, b, f), r # "gone",
           NEW k2, ShutAt(k, k2, "init", FALSE), NEW w2, NEW f2,
           i = "await" => w \in RequestsOf(k.who["init"])
    PROVE  Exchange("gone", r, k2, w2, b, f2)
<1>1. PICK k0 : k0 = k
  OBVIOUS
<1>2. /\ Exchange(i, r, k0, w, b, f) /\ i # "gone" /\ i # "connected"
      /\ k.who = k0.who /\ k.reset = k0.reset
      /\ k.key["resp"] = k0.key["resp"] /\ k.inbox["resp"] = k0.inbox["resp"]
      /\ k0.inbox["init"] = << >> => k.inbox["init"] = << >>
  BY <1>1
<1> QED
  BY <1>2, ExchangeInitCloses

\* A request of the user.
LEMMA ClientSendStep ==
    ASSUME SysInv, NEW k \in Clients, NEW r \in Requests, NEW sentNow,
           ClientSend(k, r, sentNow), UNCHANGED <<servervars, routervars>>
    PROVE  SysInv'
<1>1. life[k] = "up" /\ cpc[k] = "idle" /\ sockfd[k] # NoConn
  BY DEF ClientSend, ClientAt
<1>2. CASE /\ Communicate(Sent(conns, sockfd[k], "init", RequestPacket(k, r)))
           /\ cpc' = [cpc EXCEPT ![k] = "await"]
           /\ cmd' = [cmd EXCEPT ![k] = r]
           /\ UNCHANGED <<sockfd, acked>>
  <2>1. DOMAIN cmd = Clients
    BY DEF SysInv, ClientInv
  <2>2. PICK c : c = sockfd[k]
    OBVIOUS
  <2>3. /\ c \in DOMAIN conns /\ IsConn(conns[c])
        /\ RespPhase(c) = "gone" <=> ~conns[c].open["resp"]
        /\ Exchange("idle", RespPhase(c), conns[c], cmd[k], request, failed)
    BY <1>1, <2>2, ClientConn
  <2>4. PICK p : p = RequestPacket(k, r)
    OBVIOUS
  <2>5. conns' = Sent(conns, c, "init", p) /\ UNCHANGED <<backlog, life, failed>>
    BY <1>2, <2>2, <2>4 DEF Communicate
  <2>6. OnlyAt(conns, conns', c) /\ SentAt(conns[c], conns'[c], "init", p)
    BY <2>3, <2>5, SentEffect DEF Ends
  <2>7. IsData(p, conns[c], "init") /\ p.len <= Least(SEGMENT_MAX, RECV_MAX) /\ p.body = r
    BY <2>2, <2>4, DataAssumption
       DEF RequestPacket, DataPacket, IsData, OVERHEAD, Least, SEGMENT_MAX, RECV_MAX
  <2>8. Exchange("await", RespPhase(c), conns'[c], r, request, failed)
    BY <2>3, <2>6, <2>7, ExchangeRequest
  <2>9. /\ cmd'[k] = r /\ DOMAIN cmd' = Clients
        /\ \A j \in Clients \ {k} : cmd'[j] = cmd[j]
    BY <1>2, <2>1
  <2> QED
    BY <1>1, <1>2, <2>2, <2>5, <2>6, <2>8, <2>9, ClientTalks
<1>3. CASE Broken(conns, sockfd[k], "init") /\ ClientDies(k, "sigpipe", conns)
  <2>1. AfterRecv(k, conns)
    BY DEF AfterRecv
  <2> QED
    BY <1>3, <2>1, ClientDeathStep
<1> QED
  BY <1>2, <1>3 DEF ClientSend

\* The user leaves: with an EXIT packet, without one, or by SIGPIPE.
LEMMA ClientExitStep ==
    ASSUME SysInv, NEW k \in Clients, ClientExit(k),
           UNCHANGED <<servervars, routervars>>
    PROVE  SysInv'
<1>1. life[k] = "up" /\ cpc[k] = "idle"
  BY DEF ClientExit, ClientAt
<1>2. AfterRecv(k, conns)
  BY DEF AfterRecv
<1>3. CASE ClientDies(k, "exit", conns) \/ ClientDies(k, "sigpipe", conns)
  BY <1>1, <1>2, <1>3, ClientDeathStep
<1>4. ASSUME NEW p, sockfd[k] # NoConn,
             p = DataPacket(conns, sockfd[k], "init", [kind |-> "EXIT"], 4),
             ClientDies(k, "exit", Sent(conns, sockfd[k], "init", p))
      PROVE  SysInv'
  <2>1. PICK c : c = sockfd[k]
    OBVIOUS
  <2>2. /\ c \in DOMAIN conns /\ IsConn(conns[c])
        /\ RespPhase(c) = "gone" <=> ~conns[c].open["resp"]
        /\ Exchange("idle", RespPhase(c), conns[c], cmd[k], request, failed)
        /\ conns[c].who["init"] = k /\ Has(k, conns[c], "init")
    BY <1>1, <1>4, <2>1, ClientConn
  <2>3. PICK cs : cs = Sent(conns, c, "init", p)
    OBVIOUS
  <2>4. OnlyAt(conns, cs, c) /\ SentAt(conns[c], cs[c], "init", p)
    BY <2>2, <2>3, SentEffect DEF Ends
  <2>5. /\ IsData(p, conns[c], "init") /\ p.len <= Least(SEGMENT_MAX, RECV_MAX)
        /\ p.body = [kind |-> "EXIT"]
    BY <1>4, <2>1
       DEF DataPacket, IsData, OVERHEAD, Least, SEGMENT_MAX, RECV_MAX
  <2>6. Exchange("await", RespPhase(c), cs[c], [kind |-> "EXIT"], request, failed)
    BY <2>2, <2>4, <2>5, ExchangeRequest
  <2>7. SameEnds(conns, cs)
    <3>1. \A d \in DOMAIN conns : IsConn(conns[d])
      BY DEF SysInv, ConnInv
    <3> QED
      BY <2>2, <2>4, <3>1, SameEndsStep
  <2>8. \A d \in DOMAIN conns : cs[d] = conns[d] \/ Has(k, conns[d], "init")
    BY <2>2, <2>4 DEF OnlyAt
  <2>9. ASSUME NEW d \in DOMAIN conns, NEW k2, NEW w2,
               Has(k, conns[d], "init"), conns[d].open["resp"],
               ShutAt(cs[d], k2, "init", FALSE)
        PROVE  Exchange("gone", RespPhase(d), k2, w2, request, failed')
    <3>1. d = c /\ [kind |-> "EXIT"] \in RequestsOf(k)
      BY <2>1, <2>9, ClientWants
    <3>2. RespPhase(c) # "gone" /\ cs[c].who["init"] = k
      BY <2>2, <2>4, <2>9, <3>1 DEF OnlyAt
    <3>3. PICK rp, x, w : rp = RespPhase(c) /\ x = cs[c] /\ w = [kind |-> "EXIT"]
      OBVIOUS
    <3>4. /\ Exchange("await", rp, x, w, request, failed) /\ rp # "gone"
          /\ ShutAt(x, k2, "init", FALSE) /\ w \in RequestsOf(x.who["init"])
      BY <2>6, <2>9, <3>1, <3>2, <3>3
    <3>5. Exchange("gone", rp, k2, w2, request, failed')
      BY ONLY <3>4, ExchangeInitShuts
    <3> QED
      BY <3>1, <3>3, <3>5
  <2> QED
    BY <1>4, <2>1, <2>3, <2>7, <2>8, <2>9, ClientDeathKeeps
<1> QED
  BY <1>3, <1>4 DEF ClientExit

\* What an answer at hand looks like.
LEMMA ExchangeReads ==
    ASSUME NEW r, NEW k, NEW w, NEW b, NEW f, Exchange("await", r, k, w, b, f),
           k.inbox["init"] # << >>
    PROVE  OneAnswer(k.inbox["init"], k.who["init"], w) /\ k.key["init"] = "shared"
<1>1. CASE r # "gone"
  BY <1>1 DEF Exchange, Talking
<1>2. CASE r = "gone"
  BY <1>2 DEF Exchange, Deserted
<1> QED
  BY <1>1, <1>2

\* The answer to a command, or the end of the connection, which the client
\* closes.
LEMMA ClientReceiveStep ==
    ASSUME SysInv, NEW k \in Clients, ClientReceive(k),
           UNCHANGED <<servervars, routervars>>
    PROVE  SysInv'
<1>1. /\ life[k] = "up" /\ cpc[k] = "await" /\ CanRecv(sockfd[k], "init")
      /\ cpc' = [cpc EXCEPT ![k] = "idle"] /\ cmd' = [cmd EXCEPT ![k] = NoCommand]
  BY DEF ClientReceive, ClientAt
<1>2. /\ sockfd[k] # NoConn /\ DOMAIN cmd = Clients /\ cmd[k] \in Requests
      /\ cpc \in [Clients -> {"off", "connected", "server_hello", "idle", "await"}]
      /\ sockfd \in [Clients -> 0 .. MaxConns]
  BY <1>1 DEF SysInv, ClientInv
<1>3. PICK c : c = sockfd[k]
  OBVIOUS
<1>4. /\ c \in DOMAIN conns /\ IsConn(conns[c]) /\ Has(k, conns[c], "init")
      /\ conns[c].who["init"] = k /\ k # Router
      /\ RespPhase(c) = "gone" <=> ~conns[c].open["resp"]
      /\ Exchange("await", RespPhase(c), conns[c], cmd[k], request, failed)
  BY <1>1, <1>2, <1>3, ClientConn
<1>5. PICK cs : cs = Taken(c, "init")
  OBVIOUS
<1>6. OnlyAt(conns, cs, c) /\ TakenAt(conns[c], cs[c], "init")
  BY <1>4, <1>5, TakenEffect DEF Ends
<1>7. Exchange("idle", RespPhase(c), cs[c], NoCommand, request, failed)
  <2>1. conns[c].inbox["init"] # << >> \/ ~conns[c].open["resp"]
    BY <1>1, <1>3, EndsOf DEF CanRecv
  <2> QED
    BY <1>4, <1>6, <2>1, ExchangeAnswered
<1>8. /\ cmd'[k] = NoCommand /\ DOMAIN cmd' = Clients /\ cpc'[k] = "idle"
      /\ cpc' \in [Clients -> {"off", "connected", "server_hello", "idle", "await"}]
      /\ \A j \in Clients \ {k} : cmd'[j] = cmd[j] /\ cpc'[j] = cpc[j]
  BY <1>1, <1>2
<1>9. CASE Communicate(cs) /\ UNCHANGED sockfd
  <2>1. conns' = cs /\ UNCHANGED <<backlog, life, failed>>
    BY <1>9 DEF Communicate
  <2> QED
    BY <1>1, <1>2, <1>3, <1>6, <1>7, <1>8, <1>9, <2>1, ClientTalks
<1>10. CASE /\ Communicate(Closed(cs, c, "init"))
            /\ sockfd' = [sockfd EXCEPT ![k] = NoConn]
  <2>1. conns' = Closed(cs, c, "init") /\ UNCHANGED <<backlog, life, failed>>
    BY <1>10 DEF Communicate
  <2>2. /\ \A d \in DOMAIN cs \ {c} : d \in DOMAIN conns' /\ conns'[d] = cs[d]
        /\ DOMAIN conns' \subseteq DOMAIN cs
        /\ c \in DOMAIN conns' <=> cs[c].open["resp"]
        /\ c \in DOMAIN conns' => ShutAt(cs[c], conns'[c], "init", FALSE)
    <3>1. /\ c \in DOMAIN cs /\ IsConn(cs[c])
          /\ "init" \in Ends /\ Other("init") = "resp"
      BY <1>4, <1>6, EndsOf DEF OnlyAt
    <3>2. PICK r : r = Closed(cs, c, "init")
      OBVIOUS
    <3>3. /\ \A d \in DOMAIN cs \ {c} : d \in DOMAIN r /\ r[d] = cs[d]
          /\ DOMAIN r \subseteq DOMAIN cs
          /\ c \in DOMAIN r <=> cs[c].open[Other("init")]
          /\ c \in DOMAIN r => ShutAt(cs[c], r[c], "init", FALSE)
      BY ONLY <3>1, <3>2, ClosedEffect
    <3> QED
      BY <2>1, <3>1, <3>2, <3>3
  <2>3. /\ DOMAIN conns' \subseteq DOMAIN conns
        /\ \A d \in DOMAIN conns \ {c} : d \in DOMAIN conns' /\ conns'[d] = conns[d]
        /\ c \in DOMAIN conns' => /\ IsConn(conns'[c]) /\ conns'[c].who = conns[c].who
                                  /\ ~conns'[c].open["init"] /\ conns[c].open["resp"]
                                  /\ conns'[c].open["resp"]
    BY <1>6, <2>2, EndsOf DEF OnlyAt, ShutAt
  <2>4. /\ sockfd'[k] = NoConn /\ sockfd' \in [Clients -> 0 .. MaxConns]
        /\ \A j \in Clients \ {k} : sockfd'[j] = sockfd[j]
    BY <1>2, <1>10, NetAssumption DEF NoConn
  <2>5. ASSUME NEW d \in DOMAIN conns'
        PROVE  /\ IsConn(conns'[d]) /\ conns'[d].who = conns[d].who
               /\ \A e \in Ends : conns'[d].open[e] => conns[d].open[e]
               /\ Coherent(d)'
    <3>1. IsConn(conns[d]) /\ Held(d) /\ Coherent(d)
      BY <2>3 DEF SysInv, ConnInv
    <3>2. CASE d # c
      <4>1. conns'[d] = conns[d]
        BY <2>3, <3>2
      <4>2. Coherent(d)'
        BY <1>3, <1>8, <2>1, <3>1, <3>2, <4>1, ClientFrame
      <4> QED
        BY <3>1, <4>1, <4>2
    <3>3. CASE d = c
      <4>1. Exchange("gone", RespPhase(c), conns'[c], NoCommand, request, failed)
        <5>1. RespPhase(c) # "gone"
          BY <1>4, <2>3, <3>3
        <5>2. ShutAt(cs[c], conns'[c], "init", FALSE)
          BY <2>2, <3>3
        <5>3. PICK rp, x : rp = RespPhase(c) /\ x = cs[c]
          OBVIOUS
        <5>4. /\ Exchange("idle", rp, x, NoCommand, request, failed) /\ rp # "gone"
              /\ ShutAt(x, conns'[c], "init", FALSE)
          BY <1>7, <5>1, <5>2, <5>3
        <5>5. Exchange("gone", rp, conns'[c], NoCommand, request, failed)
          BY ONLY <5>4, ExchangeInitShuts
        <5> QED
          BY <5>3, <5>5
      <4>2. InitPhase(c)' = "gone"
        BY <2>3, <3>3 DEF InitPhase
      <4>3. RespPhase(c)' = RespPhase(c)
        BY <2>3, <3>3 DEF RespPhase, RespSock, RespPc, servervars, routervars
      <4>4. Wanted(conns[c].who["init"])' = NoCommand /\ request' = request
        BY <1>4, <1>8, <2>3, <3>3 DEF Wanted, routervars
      <4>5. Coherent(c)'
        BY <2>1, <4>1, <4>2, <4>3, <4>4 DEF Coherent
      <4> QED
        BY <2>3, <3>3, <4>5, EndsOf
    <3> QED
      BY <3>2, <3>3
  <2>6. ASSUME NEW link \in Links
        PROVE  InitStays(link[1], link[2]) \/ InitGoes(link[1], link[2])
    <3>1. PICK i, r : i = link[1] /\ r = link[2] /\ <<i, r>> \in Links
      BY DEF Links
    <3>2. i # Router => i \in Clients
      BY <3>1, LinkEnds
    <3>3. CASE i = k
      <4>1. InitSock(k, r)' = NoConn
        BY <1>4, <2>4 DEF InitSock
      <4>2. ASSUME NEW d \in DOMAIN conns', conns[d].who["init"] = k
            PROVE  ~conns'[d].open["init"]
        <5>1. CASE d = c
          BY <2>3, <5>1
        <5>2. CASE d # c
          BY <1>3, <2>3, <4>2, <5>2, ClientWants DEF Has
        <5> QED
          BY <5>1, <5>2
      <4>3. InitGoes(k, r)
        BY <4>1, <4>2 DEF InitGoes
      <4> QED
        BY <3>1, <3>3, <4>3
    <3>4. CASE i # k
      <4>1. InitSock(i, r)' = InitSock(i, r)
        BY <2>4, <3>2, <3>4 DEF InitSock, routervars
      <4>2. InitStays(i, r)
        BY <1>4, <2>3, <3>4, <4>1 DEF InitStays
      <4> QED
        BY <3>1, <4>2
    <3> QED
      BY <3>3, <3>4
  <2>7. ASSUME NEW r \in Responders PROVE RespStays(r)
    <3>1. RespSock(r)' = RespSock(r)
      BY DEF RespSock, servervars, routervars
    <3>2. conns[c].open["resp"] => c \in DOMAIN conns' /\ conns'[c].open["resp"]
      BY <1>6, <2>2, <2>3 DEF OnlyAt
    <3> QED
      BY <2>1, <2>3, <3>1, <3>2 DEF RespStays
  <2>8. NetInv' /\ ConnInv' /\ SockInv' /\ QueueInv'
    <3>1. /\ backlog' = [r \in Procs |-> backlog'[r]]
          /\ \A j \in Clients : backlog'[j] = << >>
          /\ \A r \in Responders : life'[r] # "up" => backlog'[r] = << >>
      <4>1. Clients \subseteq Procs /\ Responders \subseteq Procs
        BY DEF Procs, Responders
      <4> QED
        BY <2>1, <4>1 DEF SysInv, QueueInv
    <3>2. life' \in [Procs -> Lives] /\ failed' \subseteq Procs
      BY <2>1 DEF SysInv, NetInv
    <3> QED
      BY <2>3, <2>5, <2>6, <2>7, <3>1, <3>2, ClosingKeeps
  <2>9. ClientInv'
    <3>1. \A j \in Clients :
              /\ cpc'[j] = "off" <=> life[j] # "up"
              /\ cpc'[j] = "off" => sockfd'[j] = NoConn
              /\ cpc'[j] \in {"connected", "server_hello", "await"} =>
                     sockfd'[j] # NoConn
              /\ IF cpc'[j] = "await" THEN cmd'[j] \in Requests
                 ELSE cmd'[j] = NoCommand
      BY <1>1, <1>8, <2>4 DEF SysInv, ClientInv
    <3> QED
      BY <1>8, <2>1, <2>4, <3>1 DEF ClientInv
  <2>10. ServerInv' /\ ShardInv' /\ RouterInv'
    BY <2>1, OthersKept DEF servervars
  <2> QED
    BY <2>8, <2>9, <2>10 DEF SysInv
<1> QED
  BY <1>3, <1>5, <1>9, <1>10 DEF ClientReceive

-----------------------------------------------------------------------------
(***************************************************************************)
(* New connections.                                                        *)
(***************************************************************************)
\* c is a new connection from p to q.
Added(p, q, c) ==
    /\ c \in 1 .. MaxConns /\ c \notin DOMAIN conns /\ c # NoConn
    /\ DOMAIN conns' = DOMAIN conns \cup {c}
    /\ \A d \in DOMAIN conns : conns'[d] = conns[d]
    /\ IsConn(conns'[c])
    /\ conns'[c].who["init"] = p /\ conns'[c].who["resp"] = q
    /\ conns'[c].open["init"] /\ conns'[c].open["resp"]
    /\ conns'[c].inbox["init"] = << >> /\ conns'[c].inbox["resp"] = << >>
    /\ conns'[c].key["init"] = "unset" /\ conns'[c].key["resp"] = "unset"
    /\ ~conns'[c].reset

\* The connection that connect makes.
LEMMA NewConn ==
    ASSUME NEW p, NEW q, <<p, q>> \in Links, FreeConns # {}, NEW c, c = FreshConn,
           conns' = Connected(p, q)
    PROVE  Added(p, q, c)
<1>1. PICK r : r = Connected(p, q)
  OBVIOUS
<1>2. /\ c \in 1 .. MaxConns /\ c \notin DOMAIN conns
      /\ DOMAIN r = DOMAIN conns \cup {c}
      /\ \A d \in DOMAIN conns : r[d] = conns[d]
      /\ IsConn(r[c])
      /\ r[c].who["init"] = p /\ r[c].who["resp"] = q
      /\ r[c].open["init"] /\ r[c].open["resp"]
      /\ r[c].inbox["init"] = << >> /\ r[c].inbox["resp"] = << >>
      /\ r[c].key["init"] = "unset" /\ r[c].key["resp"] = "unset"
      /\ ~r[c].reset
  <2>1. <<p, q>> \in Links /\ FreeConns # {} /\ c = FreshConn
    OBVIOUS
  <2>2. LET r1 == Connected(p, q)
            c1 == FreshConn
        IN
        /\ c1 \in 1 .. MaxConns /\ c1 \notin DOMAIN conns
        /\ DOMAIN r1 = DOMAIN conns \cup {c1}
        /\ \A d \in DOMAIN conns : r1[d] = conns[d]
        /\ IsConn(r1[c1])
        /\ r1[c1].who["init"] = p /\ r1[c1].who["resp"] = q
        /\ r1[c1].open["init"] /\ r1[c1].open["resp"]
        /\ r1[c1].inbox["init"] = << >> /\ r1[c1].inbox["resp"] = << >>
        /\ r1[c1].key["init"] = "unset" /\ r1[c1].key["resp"] = "unset"
        /\ ~r1[c1].reset
    BY ONLY <2>1, ConnectedEffect, Zenon
  <2> QED
    BY ONLY <1>1, <2>1, <2>2, Zenon
<1>3. c # NoConn
  BY <1>2, NetAssumption DEF NoConn
<1> QED
  BY <1>1, <1>2, <1>3 DEF Added

\* connect adds a connection to the queue of the process it is made to.
LEMMA ConnectKeeps ==
    ASSUME SysInv, NEW p, NEW q, <<p, q>> \in Links, FreeConns # {},
           life[q] = "up", NEW c, c = FreshConn,
           conns' = Connected(p, q),
           backlog' = [backlog EXCEPT ![q] = Append(@, c)],
           failed' = failed, life' \in [Procs -> Lives],
           \A r \in Responders : life'[r] = life[r],
           InitSock(p, q) = NoConn, InitSock(p, q)' = c,
           InitPc(p, q)' = "connected",
           \A i, r : <<i, r>> \in Links /\ <<i, r>> # <<p, q>> =>
               InitSock(i, r)' = InitSock(i, r),
           \A r \in Responders : RespSock(r)' = RespSock(r),
           \A d \in DOMAIN conns : Coherent(d)'
    PROVE  NetInv' /\ ConnInv' /\ SockInv' /\ QueueInv'
<1>1. /\ c \in 1 .. MaxConns /\ c \notin DOMAIN conns /\ c # NoConn
      /\ DOMAIN conns' = DOMAIN conns \cup {c}
      /\ \A d \in DOMAIN conns : conns'[d] = conns[d]
      /\ IsConn(conns'[c])
      /\ conns'[c].who["init"] = p /\ conns'[c].who["resp"] = q
      /\ conns'[c].open["init"] /\ conns'[c].open["resp"]
      /\ conns'[c].inbox["init"] = << >> /\ conns'[c].inbox["resp"] = << >>
      /\ conns'[c].key["init"] = "unset" /\ conns'[c].key["resp"] = "unset"
      /\ ~conns'[c].reset
  BY NewConn DEF Added
<1>2. /\ p \in Procs /\ q \in Procs /\ q \in Responders /\ q \notin Clients
      /\ Clients \subseteq Procs /\ Responders \subseteq Procs
  BY LinkEnds, NetAssumption DEF Responders, Procs, Servers
<1>3. backlog \in [Procs -> Seq(1 .. MaxConns)] /\ Distinct(backlog[q])
  BY <1>2 DEF SysInv, QueueInv
<1>4. /\ \A d \in DOMAIN conns : IsConn(conns[d]) /\ Held(d) /\ d # NoConn
      /\ \A r \in Responders : RespSock(r) # c
      /\ \A r \in Procs : c \notin Queue(r)
  <2>1. \A d \in DOMAIN conns : IsConn(conns[d]) /\ Held(d) /\ d \in 1 .. MaxConns
    BY DEF SysInv, ConnInv, NetInv
  <2>2. \A r \in Responders : RespSock(r) # c
    BY <1>1 DEF SysInv, SockInv, RespEnd, Responders
  <2>3. \A r \in Procs : c \notin Queue(r)
    BY <1>1 DEF SysInv, QueueInv, RespEnd
  <2> QED
    BY <2>1, <2>2, <2>3, NetAssumption DEF NoConn
<1>5. /\ backlog'[q] \in Seq(1 .. MaxConns) /\ Distinct(backlog'[q])
      /\ Queue(q)' = Queue(q) \cup {c}
  <2>1. c \notin Members(backlog[q]) /\ backlog'[q] = Append(backlog[q], c)
    BY <1>2, <1>3, <1>4 DEF Queue
  <2>2. backlog[q] \in Seq(1 .. MaxConns) /\ c \in 1 .. MaxConns
    BY <1>1, <1>2, <1>3
  <2>3. PICK S, b : S = 1 .. MaxConns /\ b = backlog[q]
    OBVIOUS
  <2>4. b \in Seq(S) /\ Distinct(b) /\ c \in S /\ c \notin Members(b)
    BY <1>3, <2>1, <2>2, <2>3
  <2>5. /\ Append(b, c) \in Seq(S) /\ Distinct(Append(b, c))
        /\ Members(Append(b, c)) = Members(b) \cup {c}
    BY ONLY <2>4, JoinQueue
  <2> QED
    BY <2>1, <2>3, <2>5 DEF Queue
<1>6. \A r \in Procs \ {q} : backlog'[r] = backlog[r] /\ Queue(r)' = Queue(r)
  BY <1>3 DEF Queue
<1>7. backlog' \in [Procs -> Seq(1 .. MaxConns)]
  BY <1>2, <1>3, <1>5, <1>6
<1>8. Coherent(c)'
  <2>1. InitPhase(c)' = "connected"
    BY <1>1 DEF InitPhase
  <2>2. RespPhase(c)' = "queued"
    BY <1>1, <1>2, <1>4 DEF RespPhase
  <2>3. PICK k, w, b, f : k = conns'[c] /\ w = Wanted(conns[c].who["init"])'
                          /\ b = request' /\ f = failed'
    OBVIOUS
  <2>4. Exchange("connected", "queued", k, w, b, f)
    BY <1>1, <2>3 DEF Exchange, Talking
  <2> QED
    BY <2>1, <2>2, <2>3, <2>4 DEF Coherent
<1>9. NetInv'
  BY <1>1 DEF SysInv, NetInv
<1>10. ConnInv'
  <2>1. Held(c)'
    BY <1>1, <1>5 DEF Held
  <2>2. ASSUME NEW d \in DOMAIN conns PROVE Held(d)'
    <3>1. IsConn(conns[d]) /\ Held(d) /\ d # NoConn /\ conns'[d] = conns[d]
      BY <1>1, <1>4
    <3>2. PICK i, r : i = conns[d].who["init"] /\ r = conns[d].who["resp"]
      OBVIOUS
    <3>3. <<i, r>> \in Links /\ r \in Procs /\ r \in Responders
      BY <3>1, <3>2, LinkEnds DEF IsConn, Responders
    <3>4. conns[d].open["init"] => InitSock(i, r)' = d
      <4>1. conns[d].open["init"] => InitSock(i, r) = d
        BY <3>1, <3>2 DEF Held
      <4>2. InitSock(i, r) = d => <<i, r>> # <<p, q>>
        BY <3>1
      <4> QED
        BY <3>3, <4>1, <4>2
    <3>5. conns[d].open["resp"] => RespSock(r)' = d \/ d \in Queue(r)'
      BY <1>5, <1>6, <3>1, <3>2, <3>3 DEF Held
    <3> QED
      BY <3>1, <3>2, <3>4, <3>5 DEF Held
  <2> QED
    BY <1>1, <1>4, <1>8, <2>1, <2>2 DEF ConnInv
<1>11. SockInv'
  <2>1. \A d, i, r : InitEnd(d, i, r) => InitEnd(d, i, r)'
    BY <1>1 DEF InitEnd
  <2>2. \A d, r : RespEnd(d, r) => RespEnd(d, r)'
    BY <1>1 DEF RespEnd
  <2>3. InitEnd(c, p, q)'
    BY <1>1 DEF InitEnd
  <2>4. ASSUME NEW link \in Links, InitSock(link[1], link[2])' # NoConn
        PROVE  InitEnd(InitSock(link[1], link[2]), link[1], link[2])'
    <3>1. PICK i, r : i = link[1] /\ r = link[2] /\ <<i, r>> \in Links
      BY DEF Links
    <3>2. CASE <<i, r>> = <<p, q>>
      BY <2>3, <3>1, <3>2
    <3>3. CASE <<i, r>> # <<p, q>>
      <4>1. InitSock(i, r)' = InitSock(i, r)
        BY <3>1, <3>3
      <4>2. InitEnd(InitSock(i, r), i, r)
        BY <2>4, <3>1, <4>1 DEF SysInv, SockInv
      <4> QED
        BY <2>1, <3>1, <4>1, <4>2
    <3> QED
      BY <3>2, <3>3
  <2> QED
    BY <2>2, <2>4 DEF SysInv, SockInv, Responders
<1>12. QueueInv'
  <2>1. \A d, r : RespEnd(d, r) => RespEnd(d, r)'
    BY <1>1 DEF RespEnd
  <2> SUFFICES ASSUME NEW r \in Procs
               PROVE  /\ Distinct(backlog'[r])
                      /\ life'[r] # "up" \/ r \in Clients => backlog'[r] = << >>
                      /\ \A d \in Queue(r)' : RespEnd(d, r)' /\ d # RespSock(r)'
    BY <1>7 DEF QueueInv
  <2>2. /\ Distinct(backlog[r])
        /\ life[r] # "up" \/ r \in Clients => backlog[r] = << >>
        /\ \A d \in Queue(r) : RespEnd(d, r) /\ d # RespSock(r)
    BY DEF SysInv, QueueInv
  <2>3. CASE r = q
    <3>1. RespEnd(c, q)'
      BY <1>1 DEF RespEnd
    <3> QED
      BY <1>2, <1>4, <1>5, <2>1, <2>2, <2>3, <3>1
  <2>4. CASE r # q
    <3>1. r \in Responders \/ r \in Clients
      BY DEF Responders, Procs
    <3>2. r \in Clients => Queue(r)' = {}
      BY <1>6, <2>2, <2>4 DEF Queue, Members
    <3> QED
      BY <1>6, <2>1, <2>2, <2>4, <3>1, <3>2
  <2> QED
    BY <2>3, <2>4
<1> QED
  BY <1>9, <1>10, <1>11, <1>12

\* The user runs the client.
LEMMA ClientConnectStep ==
    ASSUME SysInv, NEW k \in Clients, ClientConnect(k),
           UNCHANGED <<servervars, routervars>>
    PROVE  SysInv'
<1>1. life[k] # "up" /\ cpc[k] = "off" /\ sockfd[k] = NoConn
  BY DEF ClientConnect, SysInv, ClientInv
<1>2. CASE ClientDies(k, "refused", conns)
  <2>1. AfterRecv(k, conns)
    BY DEF AfterRecv
  <2> QED
    BY <1>1, <1>2, <2>1, ClientDeathStep
<1>3. CASE /\ FreeConns # {} /\ Listening(Router)
           /\ conns' = Connected(k, Router)
           /\ backlog' = [backlog EXCEPT ![Router] = Append(@, FreshConn)]
           /\ life' = [life EXCEPT ![k] = "up"]
           /\ cpc' = [cpc EXCEPT ![k] = "connected"]
           /\ sockfd' = [sockfd EXCEPT ![k] = FreshConn]
           /\ UNCHANGED <<failed, cmd, sent, acked, known>>
  <2>1. /\ k \in Procs /\ k # Router /\ k \notin Servers /\ <<k, Router>> \in Links
        /\ Servers \subseteq Procs /\ Clients \subseteq Procs /\ Router \in Procs
    BY NetAssumption DEF Procs, Servers, Links
  <2>2. PICK c : c = FreshConn
    OBVIOUS
  <2>3. /\ c \in 1 .. MaxConns /\ c # NoConn
        /\ \A d \in DOMAIN conns : conns'[d] = conns[d]
    <3>1. c \in 1 .. MaxConns /\ \A d \in DOMAIN conns : Connected(k, Router)[d] = conns[d]
      BY <1>3, <2>1, <2>2, ConnectedEffect
    <3> QED
      BY <1>3, <3>1, NetAssumption DEF NoConn
  <2>4. /\ cpc \in [Clients -> {"off", "connected", "server_hello", "idle", "await"}]
        /\ sockfd \in [Clients -> 0 .. MaxConns]
        /\ life \in [Procs -> Lives]
    BY DEF SysInv, ClientInv, NetInv
  <2>5. /\ cpc'[k] = "connected" /\ sockfd'[k] = c /\ life'[k] = "up"
        /\ \A j \in Clients \ {k} :
               cpc'[j] = cpc[j] /\ sockfd'[j] = sockfd[j] /\ life'[j] = life[j]
        /\ life'[Router] = life[Router] /\ \A s \in Servers : life'[s] = life[s]
    BY <1>3, <2>1, <2>2, <2>4
  <2>6. /\ cpc' \in [Clients -> {"off", "connected", "server_hello", "idle", "await"}]
        /\ sockfd' \in [Clients -> 0 .. MaxConns]
        /\ life' \in [Procs -> Lives]
    BY <1>3, <2>1, <2>2, <2>3, <2>4, NetAssumption DEF Lives
  <2>7. ASSUME NEW d \in DOMAIN conns PROVE Coherent(d)'
    <3>1. IsConn(conns[d]) /\ Held(d) /\ Coherent(d) /\ d \in 1 .. MaxConns
      BY DEF SysInv, ConnInv, NetInv
    <3>2. d # sockfd[k] /\ conns'[d] = conns[d]
      BY <1>1, <2>3, <3>1, NetAssumption DEF NoConn
    <3> QED
      BY <1>3, <2>5, <3>1, <3>2, ClientFrame
  <2>8. NetInv' /\ ConnInv' /\ SockInv' /\ QueueInv'
    <3>1. InitSock(k, Router) = NoConn /\ InitSock(k, Router)' = c
      BY <1>1, <2>1, <2>5 DEF InitSock
    <3>2. InitPc(k, Router)' = "connected"
      BY <2>1, <2>5 DEF InitPc
    <3>3. ASSUME NEW i, NEW r, <<i, r>> \in Links, <<i, r>> # <<k, Router>>
          PROVE  InitSock(i, r)' = InitSock(i, r)
      <4>1. i # Router => i \in Clients /\ i # k
        BY <3>3, LinkEnds
      <4> QED
        BY <2>5, <4>1 DEF InitSock, routervars
    <3>4. \A r \in Responders : RespSock(r)' = RespSock(r) /\ life'[r] = life[r]
      BY <2>5 DEF RespSock, Responders, servervars, routervars
    <3>5. life[Router] = "up" /\ backlog' = [backlog EXCEPT ![Router] = Append(@, c)]
      BY <1>3, <2>2 DEF Listening
    <3>6. /\ SysInv /\ <<k, Router>> \in Links /\ FreeConns # {} /\ c = FreshConn
          /\ conns' = Connected(k, Router) /\ failed' = failed
          /\ life' \in [Procs -> Lives]
      BY <1>3, <2>1, <2>2, <2>6
    <3> QED
      BY ONLY <2>7, <3>1, <3>2, <3>3, <3>4, <3>5, <3>6, ConnectKeeps
  <2>9. ClientInv'
    <3>1. \A j \in Clients :
              /\ cpc'[j] = "off" <=> life'[j] # "up"
              /\ cpc'[j] = "off" => sockfd'[j] = NoConn
              /\ cpc'[j] \in {"connected", "server_hello", "await"} =>
                     sockfd'[j] # NoConn
              /\ IF cpc'[j] = "await" THEN cmd'[j] \in Requests
                 ELSE cmd'[j] = NoCommand
      BY <1>1, <1>3, <2>3, <2>5 DEF SysInv, ClientInv
    <3> QED
      BY <1>3, <2>6, <3>1 DEF SysInv, ClientInv
  <2>10. ServerInv' /\ ShardInv' /\ RouterInv'
    BY <1>3, <2>5, OthersKept DEF servervars
  <2> QED
    BY <2>8, <2>9, <2>10 DEF SysInv
<1> QED
  BY <1>2, <1>3 DEF ClientConnect

-----------------------------------------------------------------------------
(***************************************************************************)
(* The steps of the router.                                                *)
(***************************************************************************)
\* What is known of the connection of the router to server s.
LEMMA RouterConn ==
    ASSUME SysInv, NEW s \in Servers, server_sockets[s] # NoConn
    PROVE  LET c == server_sockets[s] IN
           /\ c \in DOMAIN conns /\ IsConn(conns[c])
           /\ conns[c].open["init"] /\ conns[c].who["init"] = Router
           /\ conns[c].who["resp"] = s /\ s # Router
           /\ Has(Router, conns[c], "init") /\ c # client_sock
           /\ InitPhase(c) = InitPc(Router, s)
           /\ RespPhase(c) = "gone" <=> ~conns[c].open["resp"]
           /\ RespPhase(c) # "busy"
           /\ Exchange(InitPc(Router, s), RespPhase(c), conns[c], request,
                       request, failed)
           /\ \A t \in Servers : server_sockets[t] = c => t = s
<1>1. PICK c : c = server_sockets[s]
  OBVIOUS
<1>2. /\ c \in DOMAIN conns /\ IsConn(conns[c]) /\ Coherent(c)
      /\ conns[c].open["init"] /\ conns[c].who["init"] = Router
      /\ conns[c].who["resp"] = s /\ s # Router
      /\ InitPhase(c) = InitPc(Router, s)
  BY <1>1, RouterToServer
<1>3. RespPhase(c) = "gone" <=> ~conns[c].open["resp"]
  BY <1>2, PhaseGone DEF SysInv
<1>4. Exchange(InitPc(Router, s), RespPhase(c), conns[c], request, request, failed)
  BY <1>2 DEF Coherent, Wanted
<1>5. c # client_sock
  <2>1. c # NoConn
    BY <1>1
  <2> QED
    BY <1>2, <2>1, RouterToClient
<1>6. RespPhase(c) # "busy"
  <2>1. spc[s] \in {"accept", "client_hello", "serve"}
    BY DEF SysInv, ServerInv
  <2> QED
    BY <1>2, <2>1 DEF RespPhase, RespPc
<1>7. ASSUME NEW t \in Servers, server_sockets[t] = c PROVE t = s
  <2>1. server_sockets[t] # NoConn
    BY <1>1, <1>7
  <2>2. conns[server_sockets[t]].who["resp"] = t
    BY <2>1, RouterToServer
  <2> QED
    BY <1>2, <1>7, <2>2
<1> QED
  BY <1>1, <1>2, <1>3, <1>4, <1>5, <1>6, <1>7 DEF Has

\* What is known of the connection the router serves.
LEMMA RouterServes ==
    ASSUME SysInv, client_sock # NoConn
    PROVE  LET c == client_sock
               k == conns[c].who["init"]
           IN
           /\ c \in DOMAIN conns /\ IsConn(conns[c])
           /\ conns[c].open["resp"] /\ conns[c].who["resp"] = Router
           /\ k \in Clients /\ k # Router
           /\ Has(Router, conns[c], "resp")
           /\ RespPhase(c) = RespPc(Router)
           /\ InitPhase(c) = "gone" <=> ~conns[c].open["init"]
           /\ Exchange(InitPhase(c), RespPc(Router), conns[c], cmd[k], request, failed)
<1>1. PICK c, k : c = client_sock /\ k = conns[c].who["init"]
  OBVIOUS
<1>2. /\ c \in DOMAIN conns /\ IsConn(conns[c]) /\ Coherent(c)
      /\ conns[c].open["resp"] /\ conns[c].who["resp"] = Router
      /\ k \in Clients /\ k # Router
      /\ RespPhase(c) = RespPc(Router)
  BY <1>1, RouterToClient
<1>3. InitPhase(c) = "gone" <=> ~conns[c].open["init"]
  BY <1>2, PhaseGone DEF SysInv
<1>4. Exchange(InitPhase(c), RespPc(Router), conns[c], cmd[k], request, failed)
  BY <1>1, <1>2 DEF Coherent, Wanted
<1> QED
  BY <1>1, <1>2, <1>3, <1>4 DEF Has

\* A connection on which a step of the router changes nothing.
LEMMA RouterElsewhere ==
    ASSUME SysInv, NEW d \in DOMAIN conns, conns'[d] = conns[d],
           \/ d # client_sock /\ d # client_sock'
           \/ /\ client_sock' = client_sock /\ RespPc(Router)' = RespPc(Router)
              /\ request' = request,
           \A s \in Servers : server_sockets[s] = d =>
               InitPc(Router, s) = "idle" /\ InitPc(Router, s)' = "idle",
           UNCHANGED <<servervars, clientvars, failed>>
    PROVE  Coherent(d)'
<1>1. ServerInv /\ IsConn(conns[d]) /\ Held(d) /\ Coherent(d)
  BY DEF SysInv, ConnInv
<1>2. PICK i, r : i = conns[d].who["init"] /\ r = conns[d].who["resp"]
  OBVIOUS
<1>3. <<i, r>> \in Links
  BY <1>1, <1>2 DEF IsConn
<1>4. ASSUME i = Router, conns[d].open["init"]
      PROVE  InitPc(Router, r)' = InitPc(Router, r) /\ InitPc(Router, r) # "await"
  <2>1. r \in Servers /\ server_sockets[r] = d
    BY <1>1, <1>2, <1>3, <1>4, LinkEnds DEF Held, InitSock
  <2> QED
    BY <2>1
<1> QED
  BY <1>1, <1>2, <1>4, RouterFrame

\* The router sends and receives, and its connections stay.
LEMMA RouterTalks ==
    ASSUME SysInv, SameEnds(conns, conns'), UNCHANGED <<backlog, life, failed>>,
           UNCHANGED <<server_sockets, client_sock>>,
           UNCHANGED <<servervars, clientvars>>, RouterInv',
           \A d \in DOMAIN conns : Coherent(d)'
    PROVE  SysInv'
<1>1. NetInv' /\ ConnInv' /\ SockInv' /\ QueueInv'
  BY TalkKeeps DEF servervars, clientvars
<1>2. ServerInv' /\ ShardInv' /\ ClientInv'
  BY OthersKept DEF servervars, clientvars
<1> QED
  BY <1>1, <1>2 DEF SysInv

\* On the connection to server s, the server does not move with the router.
LEMMA RouterOnly ==
    ASSUME SysInv, NEW s \in Servers, NEW c, c = server_sockets[s], c # NoConn,
           conns'[c].who = conns[c].who, conns'[c].open = conns[c].open,
           UNCHANGED servervars, failed' = failed,
           Exchange(InitPc(Router, s)', RespPhase(c), conns'[c], request', request',
                    failed)
    PROVE  Coherent(c)'
<1>1. /\ conns[c].open["init"] /\ conns[c].who["init"] = Router
      /\ conns[c].who["resp"] = s /\ s # Router
  BY RouterConn
<1>2. InitPhase(c)' = InitPc(Router, s)'
  BY <1>1 DEF InitPhase
<1>3. RespPhase(c)' = RespPhase(c)
  BY <1>1 DEF RespPhase, RespSock, RespPc, servervars
<1>4. Wanted(conns[c].who["init"])' = request'
  BY <1>1 DEF Wanted
<1> QED
  BY <1>2, <1>3, <1>4 DEF Coherent

\* A send to a server that has gone: the server failed.
LEMMA ServerHasFailed ==
    ASSUME SysInv, NEW s \in Servers, server_sockets[s] # NoConn,
           ~conns[server_sockets[s]].open["resp"]
    PROVE  failed \cap Servers # {}
<1>1. PICK c : c = server_sockets[s]
  OBVIOUS
<1>2. /\ conns[c].who["init"] = Router /\ conns[c].who["resp"] = s
      /\ RespPhase(c) = "gone"
      /\ Exchange(InitPc(Router, s), RespPhase(c), conns[c], request, request, failed)
  BY <1>1, RouterConn
<1>3. s \in failed
  BY <1>2 DEF Exchange, Deserted
<1> QED
  BY <1>3

\* The client hello to server ri.
LEMMA RouterSendHelloStep ==
    ASSUME SysInv, RouterSendHello, UNCHANGED <<servervars, clientvars>>
    PROVE  SysInv'
<1>1. PICK s, c : s = ri /\ c = server_sockets[s]
  OBVIOUS
<1>2. life[Router] = "up" /\ rpc = "connected"
  BY DEF RouterSendHello, RouterAt
<1>3. s \in Servers /\ c # NoConn /\ client_sock = NoConn
  BY <1>1, <1>2 DEF SysInv, RouterInv, Servers
<1>4. /\ c \in DOMAIN conns /\ IsConn(conns[c])
      /\ RespPhase(c) = "gone" <=> ~conns[c].open["resp"]
      /\ Exchange(InitPc(Router, s), RespPhase(c), conns[c], request, request, failed)
      /\ \A t \in Servers : server_sockets[t] = c => t = s
  BY <1>1, <1>3, RouterConn
<1>5. CASE /\ Communicate(Sent(conns, c, "init", ClientHello))
           /\ rpc' = "server_hello"
           /\ UNCHANGED <<ri, current_server, server_sockets, client_sock,
                          request, replies, routerStarts>>
  <2>1. conns' = Sent(conns, c, "init", ClientHello) /\ UNCHANGED <<backlog, life, failed>>
    BY <1>5 DEF Communicate
  <2>2. OnlyAt(conns, conns', c) /\ SentAt(conns[c], conns'[c], "init", ClientHello)
    BY <1>4, <2>1, SentEffect DEF Ends
  <2>3. InitPc(Router, s) = "connected" /\ InitPc(Router, s)' = "server_hello"
    BY <1>1, <1>2, <1>5 DEF InitPc
  <2>4. Exchange("server_hello", RespPhase(c), conns'[c], request, request, failed)
    BY <1>4, <2>2, <2>3, ExchangeHello
  <2>5. Coherent(c)'
    BY <1>1, <1>3, <1>5, <2>1, <2>2, <2>3, <2>4, RouterOnly DEF OnlyAt
  <2>6. ASSUME NEW d \in DOMAIN conns, d # c PROVE Coherent(d)'
    <3>1. d # client_sock /\ d # client_sock'
      BY <1>3, <1>5, NetAssumption DEF SysInv, NetInv, NoConn
    <3>2. \A t \in Servers : server_sockets[t] = d =>
              InitPc(Router, t) = "idle" /\ InitPc(Router, t)' = "idle"
      BY <1>1, <1>5, <2>6 DEF InitPc
    <3> QED
      BY <1>5, <2>1, <2>2, <2>6, <3>1, <3>2, RouterElsewhere DEF OnlyAt
  <2>7. SameEnds(conns, conns')
    BY <1>4, <2>2, SameEndsStep DEF SysInv, ConnInv
  <2>8. RouterInv'
    BY <1>2, <1>5, <2>1 DEF SysInv, RouterInv
  <2> QED
    BY <1>5, <2>1, <2>5, <2>6, <2>7, <2>8, RouterTalks
<1>6. CASE Broken(conns, c, "init") /\ RouterDies("sigpipe", conns)
  <2>1. AfterRecv(Router, conns)
    BY DEF AfterRecv
  <2>2. failed \cap Servers # {}
    BY <1>1, <1>3, <1>6, ServerHasFailed, EndsOf DEF Broken
  <2> QED
    BY <1>6, <2>1, <2>2, RouterDeathStep
<1> QED
  BY <1>1, <1>5, <1>6 DEF RouterSendHello

\* The server hello of server ri; the router goes on to the next server, or
\* to its clients.
LEMMA RouterRecvHelloStep ==
    ASSUME SysInv, RouterRecvHello, UNCHANGED <<servervars, clientvars>>
    PROVE  SysInv'
<1>1. PICK s, c : s = ri /\ c = server_sockets[s]
  OBVIOUS
<1>2. life[Router] = "up" /\ rpc = "server_hello" /\ CanRecv(c, "init")
  BY <1>1 DEF RouterRecvHello, RouterAt
<1>3. s \in Servers /\ c # NoConn /\ client_sock = NoConn
  BY <1>1, <1>2 DEF SysInv, RouterInv, Servers
<1>4. /\ c \in DOMAIN conns /\ IsConn(conns[c]) /\ Has(Router, conns[c], "init")
      /\ RespPhase(c) = "gone" <=> ~conns[c].open["resp"]
      /\ Exchange(InitPc(Router, s), RespPhase(c), conns[c], request, request, failed)
      /\ \A t \in Servers : server_sockets[t] = c => t = s
  BY <1>1, <1>3, RouterConn
<1>5. CASE /\ HelloUsable(c)
           /\ Communicate(HelloReceived(c))
           /\ IF ri + 1 < NUM_SERVERS
              THEN rpc' = "connect" /\ ri' = ri + 1
              ELSE rpc' = "accept" /\ ri' = 0
           /\ UNCHANGED <<current_server, server_sockets, client_sock,
                          request, replies, routerStarts>>
  <2>1. conns' = HelloReceived(c) /\ UNCHANGED <<backlog, life, failed>>
    BY <1>5 DEF Communicate
  <2>2. InitPc(Router, s) = "server_hello" /\ \A t : InitPc(Router, t)' = "idle"
    BY <1>1, <1>2, <1>5 DEF InitPc
  <2>3. /\ OnlyAt(conns, conns', c)
        /\ Exchange("idle", RespPhase(c), conns'[c], request, request, failed)
    BY <1>2, <1>4, <1>5, <2>1, <2>2, HelloReceivedEffect
  <2>4. Coherent(c)'
    BY <1>1, <1>3, <1>5, <2>1, <2>2, <2>3, RouterOnly DEF OnlyAt
  <2>5. ASSUME NEW d \in DOMAIN conns, d # c PROVE Coherent(d)'
    <3>1. d # client_sock /\ d # client_sock'
      BY <1>3, <1>5, NetAssumption DEF SysInv, NetInv, NoConn
    <3>2. \A t \in Servers : server_sockets[t] = d =>
              InitPc(Router, t) = "idle" /\ InitPc(Router, t)' = "idle"
      BY <1>1, <2>2, <2>5 DEF InitPc
    <3> QED
      BY <1>5, <2>1, <2>3, <2>5, <3>1, <3>2, RouterElsewhere DEF OnlyAt
  <2>6. SameEnds(conns, conns')
    BY <1>4, <2>3, SameEndsStep DEF SysInv, ConnInv
  <2>7. RouterInv'
    <3>1. /\ ri' \in Servers
          /\ \A t \in Servers : server_sockets'[t] = NoConn <=>
                 \/ rpc' = "connect" /\ t >= ri'
                 \/ rpc' \in {"connected", "server_hello"} /\ t > ri'
      BY <1>2, <1>5, NetAssumption DEF SysInv, RouterInv, Servers
    <3> QED
      BY <1>2, <1>5, <2>1, <3>1 DEF SysInv, RouterInv
  <2> QED
    BY <1>5, <2>1, <2>4, <2>5, <2>6, <2>7, RouterTalks
<1>6. CASE ~HelloUsable(c) /\ RouterDies("segv", Taken(c, "init"))
  <2>1. AfterRecv(Router, Taken(c, "init"))
    BY <1>4 DEF AfterRecv, Ends
  <2> QED
    BY <1>6, <2>1, RouterDeathStep
<1> QED
  BY <1>1, <1>5, <1>6 DEF RouterRecvHello

\* The router connects to server ri.
LEMMA RouterConnectStep ==
    ASSUME SysInv, RouterConnect, UNCHANGED <<servervars, clientvars>>
    PROVE  SysInv'
<1>1. PICK s : s = ri
  OBVIOUS
<1>2. life[Router] = "up" /\ rpc = "connect"
  BY DEF RouterConnect, RouterAt
<1>3. /\ s \in Servers /\ server_sockets[s] = NoConn /\ client_sock = NoConn
      /\ server_sockets \in [Servers -> 0 .. MaxConns]
  BY <1>1, <1>2 DEF SysInv, RouterInv, Servers
<1>4. CASE RouterDies("refused", conns)
  <2>1. AfterRecv(Router, conns)
    BY DEF AfterRecv
  <2> QED
    BY <1>2, <1>4, <2>1, RouterDeathStep
<1>5. CASE /\ Connect(Router, s)
           /\ server_sockets' = [server_sockets EXCEPT ![s] = FreshConn]
           /\ rpc' = "connected"
           /\ UNCHANGED <<ri, current_server, client_sock, request, replies,
                          routerStarts>>
  <2>1. <<Router, s>> \in Links /\ s # Router
    BY <1>3, NetAssumption DEF Servers, Links
  <2>2. PICK c : c = FreshConn
    OBVIOUS
  <2>3. /\ FreeConns # {} /\ life[s] = "up" /\ conns' = Connected(Router, s)
        /\ backlog' = [backlog EXCEPT ![s] = Append(@, c)]
        /\ life' = life /\ failed' = failed
    BY <1>5, <2>2 DEF Connect, Listening
  <2>4. /\ c \in 1 .. MaxConns /\ c # NoConn
        /\ \A d \in DOMAIN conns : conns'[d] = conns[d]
    <3>1. c \in 1 .. MaxConns /\ \A d \in DOMAIN conns : Connected(Router, s)[d] = conns[d]
      BY <2>1, <2>2, <2>3, ConnectedEffect
    <3> QED
      BY <2>3, <3>1, NetAssumption DEF NoConn
  <2>5. /\ server_sockets'[s] = c
        /\ server_sockets' \in [Servers -> 0 .. MaxConns]
        /\ \A t \in Servers \ {s} : server_sockets'[t] = server_sockets[t]
    BY <1>3, <1>5, <2>2, <2>4, NetAssumption
  <2>6. ASSUME NEW d \in DOMAIN conns PROVE Coherent(d)'
    <3>1. d # NoConn
      BY NetAssumption DEF SysInv, NetInv, NoConn
    <3>2. \A t \in Servers : server_sockets[t] = d =>
              InitPc(Router, t) = "idle" /\ InitPc(Router, t)' = "idle"
      BY <1>1, <1>3, <1>5, <3>1 DEF InitPc
    <3>3. conns'[d] = conns[d] /\ d # client_sock /\ d # client_sock'
      BY <1>3, <1>5, <2>4, <3>1
    <3> QED
      BY <2>3, <3>2, <3>3, RouterElsewhere
  <2>7. NetInv' /\ ConnInv' /\ SockInv' /\ QueueInv'
    <3>1. InitSock(Router, s) = NoConn /\ InitSock(Router, s)' = c
      BY <1>3, <2>5 DEF InitSock
    <3>2. InitPc(Router, s)' = "connected"
      BY <1>1, <1>5 DEF InitPc
    <3>3. ASSUME NEW i, NEW r, <<i, r>> \in Links, <<i, r>> # <<Router, s>>
          PROVE  InitSock(i, r)' = InitSock(i, r)
      <4>1. i = Router => r \in Servers /\ r # s
        BY <3>3, LinkEnds
      <4> QED
        BY <2>5, <4>1 DEF InitSock, clientvars
    <3>4. \A r \in Responders : RespSock(r)' = RespSock(r) /\ life'[r] = life[r]
      BY <1>5, <2>3 DEF RespSock, Responders, servervars
    <3>5. SysInv /\ c = FreshConn /\ life' \in [Procs -> Lives]
      BY <2>2, <2>3 DEF SysInv, NetInv
    <3> QED
      BY ONLY <2>1, <2>3, <2>6, <3>1, <3>2, <3>3, <3>4, <3>5, ConnectKeeps
  <2>8. RouterInv'
    <3>1. \A t \in Servers : server_sockets'[t] = NoConn <=> t > s
      BY <1>1, <1>2, <1>3, <2>4, <2>5 DEF SysInv, RouterInv, Servers
    <3> QED
      BY <1>1, <1>2, <1>5, <2>3, <2>5, <3>1 DEF SysInv, RouterInv
  <2>9. ServerInv' /\ ShardInv' /\ ClientInv'
    BY <2>3, OthersKept DEF servervars, clientvars
  <2> QED
    BY <2>7, <2>8, <2>9 DEF SysInv
<1> QED
  BY <1>1, <1>4, <1>5 DEF RouterConnect

\* The router accepts the first client in its queue.
LEMMA RouterAcceptStep ==
    ASSUME SysInv, RouterAccept, UNCHANGED <<servervars, clientvars>>
    PROVE  SysInv'
<1>1. /\ life[Router] = "up" /\ rpc = "accept" /\ Accept(Router)
      /\ client_sock' = Head(backlog[Router]) /\ rpc' = "client_hello"
      /\ UNCHANGED <<ri, current_server, server_sockets, request, replies, routerStarts>>
  BY DEF RouterAccept, RouterAt
<1>2. backlog[Router] # << >> /\ conns' = conns /\ life' = life /\ failed' = failed
  BY <1>1 DEF Accept
<1>3. PICK c : c = Head(backlog[Router])
  OBVIOUS
<1>4. Router \in Responders
  BY DEF Responders
<1>5. /\ c \in DOMAIN conns /\ c \in 1 .. MaxConns /\ IsConn(conns[c]) /\ Coherent(c)
      /\ conns[c].open["resp"] /\ conns[c].who["resp"] = Router
      /\ RespPhase(c) = "queued"
  BY <1>2, <1>3, <1>4, FirstInQueue
<1>6. client_sock = NoConn
  BY <1>1 DEF SysInv, RouterInv
<1>7. \A t : InitPc(Router, t) = "idle" /\ InitPc(Router, t)' = "idle"
  BY <1>1 DEF InitPc
<1>8. ASSUME NEW d \in DOMAIN conns PROVE Coherent(d)'
  <2>1. CASE d # c
    <3>1. d # client_sock
      BY <1>6, NetAssumption DEF SysInv, NetInv, NoConn
    <3> QED
      BY <1>1, <1>2, <1>3, <1>7, <2>1, <3>1, RouterElsewhere
  <2>2. CASE d = c
    <3>1. conns[c].who["init"] # Router
      <4>1. <<conns[c].who["init"], Router>> \in Links
        BY <1>5 DEF IsConn
      <4> QED
        BY <4>1, LinkEnds
    <3>2. /\ InitPhase(c)' = InitPhase(c)
          /\ Wanted(conns[c].who["init"])' = Wanted(conns[c].who["init"])
      BY <1>2, <3>1 DEF InitPhase, InitPc, Wanted, clientvars
    <3>3. RespPhase(c)' = "client_hello"
      BY <1>1, <1>2, <1>3, <1>5 DEF RespPhase, RespSock, RespPc
    <3>4. Exchange(InitPhase(c), "queued", conns[c], Wanted(conns[c].who["init"]),
                   request, failed)
      BY <1>5 DEF Coherent
    <3>5. Exchange(InitPhase(c), "client_hello", conns[c],
                   Wanted(conns[c].who["init"]), request, failed)
      BY <3>4, ExchangeAccept
    <3> QED
      BY <1>1, <1>2, <2>2, <3>2, <3>3, <3>5 DEF Coherent
  <2> QED
    BY <2>1, <2>2
<1>9. NetInv' /\ ConnInv' /\ SockInv' /\ QueueInv'
  <2>1. RespSock(Router)' = Head(backlog[Router]) /\ RespSock(Router) = NoConn
    BY <1>1, <1>6 DEF RespSock
  <2>2. \A r \in Responders \ {Router} : RespSock(r)' = RespSock(r)
    BY DEF RespSock, servervars
  <2>3. UNCHANGED <<sockfd, server_sockets>>
    BY <1>1 DEF clientvars
  <2> QED
    BY <1>1, <1>4, <1>8, <2>1, <2>2, <2>3, AcceptKeeps
<1>10. RouterInv'
  <2>1. client_sock' # NoConn /\ client_sock' \in 0 .. MaxConns
    BY <1>1, <1>3, <1>5, NetAssumption DEF NoConn
  <2> QED
    BY <1>1, <1>2, <2>1 DEF SysInv, RouterInv
<1>11. ServerInv' /\ ShardInv' /\ ClientInv'
  BY <1>2, OthersKept DEF servervars, clientvars
<1> QED
  BY <1>9, <1>10, <1>11 DEF SysInv

\* On the connection it serves, the client does not move with the router.
LEMMA RouterServesOnly ==
    ASSUME SysInv, NEW c, c = client_sock, c # NoConn, client_sock' = client_sock,
           conns'[c].who = conns[c].who, conns'[c].open = conns[c].open,
           UNCHANGED clientvars, failed' = failed,
           Exchange(InitPhase(c), RespPc(Router)', conns'[c],
                    cmd[conns[c].who["init"]], request', failed)
    PROVE  Coherent(c)'
<1>1. /\ conns[c].open["resp"] /\ conns[c].who["resp"] = Router
      /\ conns[c].who["init"] # Router
  BY RouterServes
<1>2. InitPhase(c)' = InitPhase(c)
  BY <1>1 DEF InitPhase, InitPc, clientvars
<1>3. RespPhase(c)' = RespPc(Router)'
  BY <1>1 DEF RespPhase, RespSock
<1>4. Wanted(conns[c].who["init"])' = cmd[conns[c].who["init"]]
  BY <1>1 DEF Wanted, clientvars
<1> QED
  BY <1>2, <1>3, <1>4 DEF Coherent

\* A client that ended before its client hello has failed.
LEMMA InitiatorHasFailed ==
    ASSUME NEW i, NEW k, NEW w, NEW b, NEW f,
           Exchange(i, "client_hello", k, w, b, f),
           k.inbox["resp"] = << >>, i = "gone"
    PROVE  k.who["init"] \in f
<1>1. Left("client_hello", k, f)
  BY DEF Exchange
<1>2. <<ClientHello>> # << >>
  OBVIOUS
<1> QED
  BY <1>1, <1>2 DEF Left

\* The router answers the client hello.
LEMMA RouterHandshakeStep ==
    ASSUME SysInv, RouterHandshake, UNCHANGED <<servervars, clientvars>>
    PROVE  SysInv'
<1>1. PICK c : c = client_sock
  OBVIOUS
<1>2. life[Router] = "up" /\ rpc = "client_hello" /\ CanRecv(c, "resp")
  BY <1>1 DEF RouterHandshake, RouterAt
<1>3. c # NoConn /\ RespPc(Router) = "client_hello"
  BY <1>1, <1>2 DEF SysInv, RouterInv, RespPc
<1>4. PICK i, k, w : /\ i = InitPhase(c) /\ k = conns[c].who["init"] /\ w = cmd[k]
  OBVIOUS
<1>5. /\ c \in DOMAIN conns /\ IsConn(conns[c]) /\ k \in Clients
      /\ i = "gone" <=> ~conns[c].open["init"]
      /\ Exchange(i, "client_hello", conns[c], w, request, failed)
  BY <1>1, <1>3, <1>4, RouterServes
<1>6. ASSUME NEW key \in ResponderKeys(c), Communicate(Answered(c, key)),
             rpc' = "serve",
             UNCHANGED <<ri, current_server, server_sockets, client_sock,
                         request, replies, routerStarts>>
      PROVE  SysInv'
  <2>1. conns' = Answered(c, key) /\ UNCHANGED <<backlog, life, failed>>
    BY <1>6 DEF Communicate
  <2>2. /\ OnlyAt(conns, conns', c)
        /\ Exchange(i, "serve", conns'[c], w, request, failed)
    <3>1. \A d \in DOMAIN conns : IsConn(conns[d])
      BY DEF SysInv, ConnInv
    <3> QED
      BY <1>2, <1>5, <2>1, <3>1, AnsweredEffect
  <2>3. RespPc(Router)' = "serve"
    BY <1>6 DEF RespPc
  <2>4. Coherent(c)'
    BY <1>1, <1>3, <1>4, <1>6, <2>1, <2>2, <2>3, RouterServesOnly DEF OnlyAt
  <2>5. ASSUME NEW d \in DOMAIN conns, d # c PROVE Coherent(d)'
    <3>1. \A t : InitPc(Router, t) = "idle" /\ InitPc(Router, t)' = "idle"
      BY <1>2, <1>6 DEF InitPc
    <3> QED
      BY <1>1, <1>6, <2>1, <2>2, <2>5, <3>1, RouterElsewhere DEF OnlyAt
  <2>6. SameEnds(conns, conns')
    BY <1>5, <2>2, SameEndsStep DEF SysInv, ConnInv
  <2>7. RouterInv'
    BY <1>2, <1>6, <2>1 DEF SysInv, RouterInv
  <2> QED
    BY <1>6, <2>1, <2>4, <2>5, <2>6, <2>7, RouterTalks
<1>7. CASE AtEnd(c, "resp") /\ RouterDies("ub", conns)
  <2>1. AfterRecv(Router, conns)
    BY DEF AfterRecv
  <2>2. conns[c].inbox["resp"] = << >> /\ i = "gone"
    BY <1>2, <1>5, <1>7, EndsOf DEF AtEnd, CanRecv
  <2>3. k \in failed
    BY <1>4, <1>5, <2>2, InitiatorHasFailed
  <2> QED
    BY <1>5, <1>7, <2>1, <2>3, RouterDeathStep
<1> QED
  BY <1>1, <1>6, <1>7 DEF RouterHandshake

\* A server whose router ended before the client hello may die of it.
LEMMA ServerHandshakeDeathStep ==
    ASSUME SysInv, NEW s \in Servers, life[s] = "up", spc[s] = "client_hello",
           CanRecv(ssock[s], "resp"), AtEnd(ssock[s], "resp"),
           End(s, "ub", conns), ServerGone(s), UNCHANGED <<routervars, clientvars>>
    PROVE  SysInv'
<1>1. PICK c : c = ssock[s]
  OBVIOUS
<1>2. c # NoConn
  BY <1>1 DEF SysInv, ServerInv
<1>3. /\ IsConn(conns[c]) /\ Coherent(c) /\ conns[c].who["init"] = Router
      /\ RespPhase(c) = "client_hello"
  BY <1>1, <1>2, AtServer
<1>4. InitPhase(c) = "gone" /\ conns[c].inbox["resp"] = << >>
  <2>1. ~conns[c].open["init"] /\ conns[c].inbox["resp"] = << >>
    BY <1>1, EndsOf DEF AtEnd, CanRecv
  <2> QED
    BY <1>3, <2>1, PhaseGone DEF SysInv
<1>5. Exchange("gone", "client_hello", conns[c], Wanted(Router), request, failed)
  BY <1>3, <1>4 DEF Coherent
<1>6. Router \in failed
  BY <1>3, <1>4, <1>5, InitiatorHasFailed
<1> QED
  BY <1>6, ServerDeathStep

\* The recursive function of FormattedLen.
TotalOf(f, answers) ==
    f = [n \in 0 .. Len(answers) |->
            IF n = 0 THEN 0
            ELSE f[n - 1] + Least(11 + ReplyLen(answers[n]), FORMATTED_MAX)]

\* A list of answers is no longer than as many answers of the longest kind.
LEMMA ListLengths ==
    ASSUME NEW answers \in Seq(Replies)
    PROVE  /\ FormattedLen(answers) \in Nat
           /\ FormattedLen(answers) <= Len(answers) * (11 + BlocksLen(2))
<1> DEFINE m == Len(answers)
           len == [n \in 1 .. m |-> Least(11 + ReplyLen(answers[n]), FORMATTED_MAX)]
           step == [p \in (1 .. m) \X Nat |-> p[2] + len[p[1]]]
           total[n \in 0 .. Len(answers)] ==
               IF n = 0 THEN 0
               ELSE total[n - 1] + Least(11 + ReplyLen(answers[n]), FORMATTED_MAX)
<1>1. PICK x \in Nat : x = 11 + BlocksLen(2)
  BY Lengths
<1>2. m \in Nat
  OBVIOUS
<1>3. \A n \in 1 .. m : len[n] \in 0 .. x
  <2> TAKE n \in 1 .. m
  <2>1. answers[n] \in Replies
    OBVIOUS
  <2>2. ReplyLen(answers[n]) \in 0 .. BlocksLen(2)
    BY <2>1 DEF Replies
  <2> QED
    BY <1>1, <2>2, Lengths DEF Least, FORMATTED_MAX
<1>4. step \in [(1 .. m) \X Nat -> Nat]
  <2> HIDE DEF len, m
  <2>1. \A n \in 1 .. m, v \in Nat : v + len[n] \in Nat
    BY <1>3
  <2> QED
    BY <2>1
<1>5. PICK f \in [0 .. m -> Nat] : Loop(f, m, 0, step)
  <2> HIDE DEF m, step
  <2> QED
    BY <1>2, <1>4, LoopExists
<1>6. TotalOf(f, answers)
  <2>1. \A n \in 0 .. m : n # 0 =>
            step[<<n, f[n - 1]>>] = f[n - 1] + Least(11 + ReplyLen(answers[n]), FORMATTED_MAX)
    <3> TAKE n \in 0 .. m
    <3> HAVE n # 0
    <3>1. n \in 1 .. m /\ f[n - 1] \in Nat
      BY <1>2
    <3>2. len[n] = Least(11 + ReplyLen(answers[n]), FORMATTED_MAX)
      BY <3>1
    <3> HIDE DEF m, len
    <3> QED
      BY <3>1, <3>2
  <2> HIDE DEF step
  <2>2. \A n \in 0 .. m :
            f[n] = IF n = 0 THEN 0
                   ELSE f[n - 1] + Least(11 + ReplyLen(answers[n]), FORMATTED_MAX)
    <3>1. f = [n \in 0 .. m |-> IF n = 0 THEN 0 ELSE step[<<n, f[n - 1]>>]]
      BY <1>5 DEF Loop
    <3>2. \A n \in 0 .. m : f[n] = IF n = 0 THEN 0 ELSE step[<<n, f[n - 1]>>]
      BY <3>1, Zenon
    <3> QED
      BY <2>1, <3>2, Zenon
  <2>3. f = [n \in 0 .. m |-> f[n]]
    OBVIOUS
  <2> QED
    BY <2>2, <2>3, Zenon DEF TotalOf
<1>7. TotalOf(total, answers)
  <2> HIDE DEF len, step, m
  <2> QED
    BY <1>6, Zenon DEF TotalOf
<1>8. FormattedLen(answers) = total[m]
  BY DEF FormattedLen
<1> HIDE DEF total
<1>9. /\ total[0] = 0
      /\ \A n \in 0 .. m - 1 : total[n + 1] = total[n] + len[n + 1]
  <2>1. total[0] = 0
    BY <1>2, <1>7 DEF TotalOf
  <2>2. ASSUME NEW n \in 0 .. m - 1 PROVE total[n + 1] = total[n] + len[n + 1]
    <3>1. /\ n + 1 \in 0 .. m /\ n + 1 \in 1 .. m /\ n + 1 # 0 /\ (n + 1) - 1 = n
      BY <1>2
    <3>2. len[n + 1] = Least(11 + ReplyLen(answers[n + 1]), FORMATTED_MAX)
      BY <3>1
    <3> HIDE DEF len
    <3> QED
      BY <1>7, <3>1, <3>2 DEF TotalOf
  <2> QED
    BY <2>1, <2>2
<1> DEFINE S == {n \in 0 .. m : total[n] \in Nat /\ total[n] <= n * x}
<1>10. 0 \in S
  BY <1>1, <1>2, <1>9
<1>11. ASSUME NEW n \in 0 .. m - 1, n \in S PROVE n + 1 \in S
  <2>1. len[n + 1] \in 0 .. x /\ n + 1 \in 0 .. m
    BY <1>2, <1>3
  <2>2. total[n] \in Nat /\ total[n] <= n * x /\ total[n + 1] = total[n] + len[n + 1]
    BY <1>9, <1>11
  <2>3. n \in Nat /\ n * x \in Nat /\ (n + 1) * x = n * x + x
    BY Products
  <2> HIDE DEF len, m
  <2>4. total[n + 1] \in Nat /\ total[n + 1] <= (n + 1) * x
    BY <2>1, <2>2, <2>3
  <2> QED
    BY <2>1, <2>4
<1>12. m \in S
  <2> HIDE DEF S, m
  <2>1. \A n \in 0 .. m : n \in S
    BY <1>2, <1>10, <1>11, UpToInduction
  <2> QED
    BY <1>2, <2>1
<1> QED
  BY <1>1, <1>8, <1>12

\* What the router takes for the answer of server ri.
LEMMA RouterGets ==
    ASSUME SysInv, rpc = "await"
    PROVE  LET reply == ServerReply(server_sockets[ri]) IN
           /\ request \in Requests
           /\ request.kind = "STORE" =>
                  /\ reply.kind \in {"DATA_STORED", "NO_RESPONSE"}
                  /\ ReplyLen(reply) \in Nat /\ ReplyLen(reply) <= ListMax
           /\ request.kind = "RETRIEVE" => reply \in Replies
<1>1. PICK s, c : s = ri /\ c = server_sockets[s]
  OBVIOUS
<1>2. s \in Servers /\ c # NoConn /\ request \in Requests
  BY <1>1 DEF SysInv, RouterInv
<1>3. /\ conns[c].who["init"] = Router
      /\ Exchange(InitPc(Router, s), RespPhase(c), conns[c], request, request, failed)
  BY <1>1, <1>2, RouterConn
<1>4. InitPc(Router, s) = "await"
  BY <1>1 DEF InitPc
<1>5. CASE Readable(c, "init")
  <2>1. ServerReply(c) = Head(conns[c].inbox["init"]).body /\ conns[c].inbox["init"] # << >>
    BY <1>5 DEF ServerReply, Readable, Received, AtEnd
  <2>2. OneAnswer(conns[c].inbox["init"], Router, request)
    BY <1>3, <1>4, <2>1, ExchangeReads
  <2>3. IsAnswer(Router, request, ServerReply(c))
    BY <2>1, <2>2 DEF OneAnswer
  <2>4. request.kind = "STORE" => ServerReply(c).kind = "DATA_STORED"
    BY <2>3 DEF IsAnswer
  <2>5. request.kind = "RETRIEVE" => ServerReply(c) \in Replies
    BY <2>3 DEF IsAnswer
  <2>6. request.kind = "STORE" =>
            ReplyLen(ServerReply(c)) \in Nat /\ ReplyLen(ServerReply(c)) <= ListMax
    BY <2>4, Lengths
  <2> QED
    BY <1>1, <1>2, <2>4, <2>5, <2>6
<1>6. CASE ~Readable(c, "init")
  <2>1. PICK reply : reply = ServerReply(c)
    OBVIOUS
  <2>2. reply = [kind |-> "NO_RESPONSE", blocks |-> << >>]
    BY <1>6, <2>1 DEF ServerReply, Reply
  <2>3. reply.kind = "NO_RESPONSE" /\ ReplyLen(reply) = 38
    BY <2>2, Lengths
  <2>4. reply \in [kind : ReplyKinds \cup {"NO_RESPONSE"}, blocks : Seq(Block)]
    BY <2>2
  <2>5. ReplyLen(reply) \in Nat /\ ReplyLen(reply) <= ListMax
    BY <2>3, Lengths
  <2>6. ReplyLen(reply) \in 0 .. BlocksLen(2)
    BY <2>3, Lengths
  <2>7. reply \in Replies
    BY <2>4, <2>6 DEF Replies
  <2> QED
    BY <1>1, <1>2, <2>1, <2>3, <2>5, <2>7
<1> QED
  BY <1>5, <1>6

\* The router sends a request on to server i.
LEMMA CommandStep ==
    ASSUME SysInv, rpc \in {"serve", "await"}, life[Router] = "up",
           NEW cs, AfterRecv(Router, cs), NEW i \in Servers, NEW r \in Requests,
           NEW next \in Servers, NEW answers \in Seq(Replies),
           Len(answers) = (IF r.kind = "RETRIEVE" THEN i ELSE 0),
           SendCommand(cs, i, r, next, answers),
           UNCHANGED <<servervars, clientvars>>,
           cs[server_sockets[i]] = conns[server_sockets[i]],
           InitPc(Router, i) = "idle",
           /\ rpc' = "await" /\ ri' = i /\ request' = r
           /\ UNCHANGED <<server_sockets, client_sock, failed>>
           => \A d \in DOMAIN conns \ {server_sockets[i]} :
                  conns'[d] = cs[d] => Coherent(d)'
    PROVE  SysInv'
<1>1. PICK c : c = server_sockets[i]
  OBVIOUS
<1>2. c # NoConn /\ client_sock # NoConn
  BY <1>1 DEF SysInv, RouterInv
<1>3. /\ c \in DOMAIN conns /\ IsConn(conns[c]) /\ RespPhase(c) # "busy"
      /\ RespPhase(c) = "gone" <=> ~conns[c].open["resp"]
      /\ Exchange("idle", RespPhase(c), conns[c], request, request, failed)
  BY <1>1, <1>2, RouterConn
<1>4. SameEnds(conns, cs) /\ cs[c] = conns[c]
  BY <1>1, AfterRecvEffect
<1>5. ASSUME NEW p, p = DataPacket(cs, c, "init", r, CommandLen(r)),
             Communicate(Sent(cs, c, "init", p)),
             rpc' = "await", ri' = i, request' = r,
             current_server' = next, replies' = answers,
             UNCHANGED <<server_sockets, client_sock, routerStarts>>
      PROVE  SysInv'
  <2>1. conns' = Sent(cs, c, "init", p) /\ UNCHANGED <<backlog, life, failed>>
    BY <1>5 DEF Communicate
  <2>2. c \in DOMAIN cs /\ IsConn(cs[c]) /\ \A d \in DOMAIN cs : IsConn(cs[d])
    BY <1>3, <1>4 DEF SameEnds
  <2>3. OnlyAt(cs, conns', c) /\ SentAt(conns[c], conns'[c], "init", p)
    BY <1>4, <2>1, <2>2, SentEffect DEF Ends
  <2>4. /\ IsData(p, conns[c], "init") /\ p.len <= Least(SEGMENT_MAX, RECV_MAX)
        /\ p.body = r
    BY <1>4, <1>5, DataAssumption
       DEF DataPacket, CommandLen, IsData, OVERHEAD, Least, SEGMENT_MAX, RECV_MAX
  <2>5. Exchange("await", RespPhase(c), conns'[c], r, request, failed)
    BY <1>3, <2>3, <2>4, ExchangeRequest
  <2>6. Exchange("await", RespPhase(c), conns'[c], r, r, failed)
    BY <1>3, <2>5, ExchangeKeeps
  <2>7. InitPc(Router, i)' = "await"
    BY <1>5 DEF InitPc
  <2>8. Coherent(c)'
    <3>1. conns'[c].who = conns[c].who /\ conns'[c].open = conns[c].open
      BY <1>4, <2>3 DEF OnlyAt
    <3> QED
      BY <1>1, <1>2, <1>5, <2>1, <2>6, <2>7, <3>1, RouterOnly
  <2>9. \A d \in DOMAIN conns \ {c} : Coherent(d)'
    BY <1>1, <1>4, <1>5, <2>1, <2>3 DEF OnlyAt, SameEnds
  <2>10. SameEnds(conns, conns')
    <3>1. SameEnds(cs, conns')
      BY <2>2, <2>3, SameEndsStep
    <3> QED
      BY <1>4, <3>1 DEF SameEnds
  <2>11. RouterInv'
    BY <1>5, <2>1 DEF SysInv, RouterInv
  <2> QED
    BY <1>5, <2>1, <2>8, <2>9, <2>10, <2>11, RouterTalks
<1>6. CASE Broken(cs, c, "init") /\ RouterDies("sigpipe", cs)
  <2>1. failed \cap Servers # {}
    BY <1>1, <1>2, <1>4, <1>6, ServerHasFailed, EndsOf DEF Broken
  <2> QED
    BY <1>6, <2>1, RouterDeathStep
<1> QED
  BY <1>1, <1>5, <1>6 DEF SendCommand

\* The kinds of requests.
LEMMA RequestKinds ==
    /\ \A r \in Requests : r.kind \in {"RETRIEVE", "STORE"} /\ r.kind # "EXIT"
    /\ \A k \in Clients : \A r \in RequestsOf(k) :
           r.kind # "EXIT" => r \in Requests
<1>1. \A r \in Requests : r.kind \in {"RETRIEVE", "STORE"}
  BY DEF Requests
<1>2. [kind |-> "EXIT"].kind = "EXIT"
  OBVIOUS
<1> QED
  BY <1>1, <1>2 DEF RequestsOf

\* What the router knows of a request of the client it serves.
LEMMA RouterRequest ==
    ASSUME SysInv, rpc = "serve", CanRecv(client_sock, "resp")
    PROVE  LET c == client_sock
               k == conns[c].who["init"]
               r == Received(c, "resp").body
           IN
           /\ c # NoConn /\ c \in DOMAIN conns /\ IsConn(conns[c])
           /\ Has(Router, conns[c], "resp")
           /\ Exchange(InitPhase(c), "serve", conns[c], cmd[k], request, failed)
           /\ conns[c].inbox["resp"] = << >> => ~conns[c].open["init"]
           /\ conns[c].inbox["resp"] # << >> =>
                  /\ Readable(c, "resp")
                  /\ r.kind # "EXIT" => r \in Requests
                  /\ r.kind = "EXIT" => ~conns[c].open["init"]
<1>1. PICK c, k : c = client_sock /\ k = conns[c].who["init"]
  OBVIOUS
<1>2. c # NoConn /\ RespPc(Router) = "serve"
  BY <1>1 DEF SysInv, RouterInv, RespPc
<1>3. /\ c \in DOMAIN conns /\ IsConn(conns[c]) /\ k \in Clients /\ k # Router
      /\ Has(Router, conns[c], "resp")
      /\ InitPhase(c) = "gone" <=> ~conns[c].open["init"]
      /\ Exchange(InitPhase(c), "serve", conns[c], cmd[k], request, failed)
  BY <1>1, <1>2, RouterServes
<1>4. conns[c].inbox["resp"] = << >> => ~conns[c].open["init"]
  BY <1>1, EndsOf DEF CanRecv
<1>5. ASSUME conns[c].inbox["resp"] # << >>
      PROVE  LET r == Received(c, "resp").body IN
             /\ Readable(c, "resp")
             /\ r.kind # "EXIT" => r \in Requests
             /\ r.kind = "EXIT" => ~conns[c].open["init"]
  <2>1. PICK r : r = Received(c, "resp").body /\ r = Head(conns[c].inbox["resp"]).body
    BY DEF Received
  <2>2. Readable(c, "resp")
    BY <1>3, <1>5, ExchangeOver DEF Readable, AtEnd, Received
  <2>3. CASE InitPhase(c) = "gone"
    <3>1. r \in RequestsOf(k)
      BY <1>1, <1>3, <1>5, <2>1, <2>3, ExchangeReceives
    <3> QED
      BY <1>3, <2>1, <2>2, <2>3, <3>1, RequestKinds
  <2>4. CASE InitPhase(c) # "gone"
    <3>1. InitPhase(c) = "await" /\ r = cmd[k]
      BY <1>3, <1>5, <2>1, <2>4, ExchangeReceives
    <3>2. cpc[k] = "await"
      BY <1>1, <1>3, <3>1 DEF InitPhase, InitPc
    <3>3. r \in Requests
      BY <1>3, <3>1, <3>2 DEF SysInv, ClientInv
    <3> QED
      BY <2>1, <2>2, <3>3, RequestKinds
  <2> QED
    BY <2>3, <2>4
<1> QED
  BY <1>1, <1>2, <1>3, <1>4, <1>5

\* A request goes on to server i.
LEMMA RouterForwards ==
    ASSUME SysInv, life[Router] = "up", rpc = "serve", CanRecv(client_sock, "resp"),
           Readable(client_sock, "resp"), NEW r, r = Received(client_sock, "resp").body,
           r.kind \in {"RETRIEVE", "STORE"}, NEW i \in Servers, NEW next \in Servers,
           r.kind = "RETRIEVE" => i = 0,
           SendCommand(Taken(client_sock, "resp"), i, r, next, << >>),
           UNCHANGED <<servervars, clientvars>>
    PROVE  SysInv'
<1>1. PICK c, k : c = client_sock /\ k = conns[c].who["init"]
  OBVIOUS
<1>2. /\ c # NoConn /\ c \in DOMAIN conns /\ IsConn(conns[c])
      /\ Has(Router, conns[c], "resp") /\ r \in Requests
      /\ conns[c].inbox["resp"] # << >> /\ r = Head(conns[c].inbox["resp"]).body
      /\ Exchange(InitPhase(c), "serve", conns[c], cmd[k], request, failed)
  <2>1. conns[c].inbox["resp"] # << >> /\ r = Head(conns[c].inbox["resp"]).body
    BY <1>1 DEF Readable, AtEnd, Received
  <2> QED
    BY <1>1, <2>1, RouterRequest
<1>3. PICK cs : cs = Taken(c, "resp")
  OBVIOUS
<1>4. OnlyAt(conns, cs, c) /\ TakenAt(conns[c], cs[c], "resp")
  BY <1>2, <1>3, TakenEffect DEF Ends
<1>5. AfterRecv(Router, cs)
  BY <1>2, <1>3 DEF AfterRecv, Ends
<1>6. PICK s : s = server_sockets[i]
  OBVIOUS
<1>7. s # c /\ s \in DOMAIN conns /\ \A t \in Servers : server_sockets[t] = s => t = i
  <2>1. s # NoConn
    BY <1>6 DEF SysInv, RouterInv
  <2> QED
    BY <1>1, <1>6, <2>1, RouterConn
<1>8. cs[s] = conns[s]
  BY <1>4, <1>7 DEF OnlyAt
<1>9. \A t : InitPc(Router, t) = "idle"
  BY DEF InitPc
<1>10. ASSUME rpc' = "await", ri' = i, request' = r,
              UNCHANGED <<server_sockets, client_sock, failed>>,
              NEW d \in DOMAIN conns \ {s}, conns'[d] = cs[d]
       PROVE  Coherent(d)'
  <2>1. CASE d = c
    <3>1. Exchange(InitPhase(c), "busy", cs[c], cmd[k], r, failed)
      BY <1>2, <1>4, ExchangeTake
    <3>2. RespPc(Router)' = "busy"
      BY <1>10 DEF RespPc
    <3>3. conns'[c].who = conns[c].who /\ conns'[c].open = conns[c].open
      BY <1>4, <1>10, <2>1 DEF OnlyAt
    <3> QED
      BY <1>1, <1>2, <1>10, <2>1, <3>1, <3>2, <3>3, RouterServesOnly
  <2>2. CASE d # c
    <3>1. \A t \in Servers : server_sockets[t] = d =>
              InitPc(Router, t) = "idle" /\ InitPc(Router, t)' = "idle"
      BY <1>6, <1>9, <1>10 DEF InitPc
    <3>2. conns'[d] = conns[d]
      BY <1>4, <1>10, <2>2 DEF OnlyAt
    <3> QED
      BY <1>1, <1>10, <2>2, <3>1, <3>2, RouterElsewhere
  <2> QED
    BY <2>1, <2>2
<1>11. /\ << >> \in Seq(Replies) /\ Len(<< >>) = 0
       /\ Len(<< >>) = (IF r.kind = "RETRIEVE" THEN i ELSE 0)
  OBVIOUS
<1>12. SendCommand(cs, i, r, next, << >>)
  BY <1>1, <1>3
<1>13. cs[server_sockets[i]] = conns[server_sockets[i]]
  BY <1>6, <1>8
<1>14. /\ rpc' = "await" /\ ri' = i /\ request' = r
       /\ UNCHANGED <<server_sockets, client_sock, failed>>
       => \A d \in DOMAIN conns \ {server_sockets[i]} : conns'[d] = cs[d] => Coherent(d)'
  BY <1>6, <1>10
<1> QED
  BY <1>2, <1>5, <1>9, <1>11, <1>12, <1>13, <1>14, CommandStep

\* The session is over: the client has gone.
LEMMA RouterCloseStep ==
    ASSUME SysInv, life[Router] = "up", rpc = "serve", CanRecv(client_sock, "resp"),
           SessionOver(client_sock),
           Communicate(Closed(Taken(client_sock, "resp"), client_sock, "resp")),
           rpc' = "accept", client_sock' = NoConn,
           UNCHANGED <<ri, current_server, server_sockets, request, replies,
                       routerStarts>>,
           UNCHANGED <<servervars, clientvars>>
    PROVE  SysInv'
<1>1. PICK c : c = client_sock
  OBVIOUS
<1>2. /\ c # NoConn /\ c \in DOMAIN conns /\ IsConn(conns[c])
      /\ Has(Router, conns[c], "resp") /\ ~conns[c].open["init"]
  BY <1>1, RouterRequest DEF SessionOver
<1>3. PICK cs : cs = Taken(c, "resp")
  OBVIOUS
<1>4. OnlyAt(conns, cs, c)
  BY <1>2, <1>3, TakenEffect DEF Ends
<1>5. conns' = Closed(cs, c, "resp") /\ UNCHANGED <<backlog, life, failed>>
  BY <1>1, <1>3 DEF Communicate
<1>6. conns' = [d \in DOMAIN cs \ {c} |-> cs[d]]
  BY <1>2, <1>4, <1>5, EndsOf DEF Closed, OnlyAt
<1>7. /\ DOMAIN conns' = DOMAIN conns \ {c}
      /\ \A d \in DOMAIN conns \ {c} : conns'[d] = conns[d]
  BY <1>4, <1>6 DEF OnlyAt
<1>8. \A t : InitPc(Router, t) = "idle" /\ InitPc(Router, t)' = "idle"
  BY DEF InitPc
<1>9. ASSUME NEW d \in DOMAIN conns' PROVE Coherent(d)'
  <2>1. d \in DOMAIN conns /\ d # c /\ conns'[d] = conns[d] /\ d # NoConn
    BY <1>7, NetAssumption DEF SysInv, NetInv, NoConn
  <2> QED
    BY <1>1, <1>5, <1>8, <2>1, RouterElsewhere
<1>10. ASSUME NEW link \in Links PROVE InitStays(link[1], link[2])
  <2>1. PICK i, r : i = link[1] /\ r = link[2]
    OBVIOUS
  <2>2. InitSock(i, r)' = InitSock(i, r)
    BY DEF InitSock, clientvars
  <2>3. InitStays(i, r)
    BY <1>2, <1>7, <2>2 DEF InitStays
  <2> QED
    BY <2>1, <2>3
<1>11. ASSUME NEW r \in Responders PROVE RespStays(r) \/ RespHangsUp(r)
  <2>1. CASE r = Router
    <3>1. RespSock(Router)' = NoConn /\ RespSock(Router) = c
      BY <1>1 DEF RespSock
    <3>2. RespHangsUp(Router)
      BY <1>5, <1>7, <3>1 DEF RespHangsUp
    <3> QED
      BY <2>1, <3>2
  <2>2. CASE r # Router
    <3>1. RespSock(r)' = RespSock(r)
      BY <2>2 DEF RespSock, servervars
    <3>2. RespStays(r)
      BY <1>2, <1>5, <1>7, <2>2, <3>1 DEF RespStays, Has
    <3> QED
      BY <3>2
  <2> QED
    BY <2>1, <2>2
<1>12. NetInv' /\ ConnInv' /\ SockInv' /\ QueueInv'
  <2>1. DOMAIN conns' \subseteq DOMAIN conns
    BY <1>7
  <2>2. \A d \in DOMAIN conns' :
            /\ IsConn(conns'[d]) /\ conns'[d].who = conns[d].who
            /\ \A e \in Ends : conns'[d].open[e] => conns[d].open[e]
    BY <1>7 DEF SysInv, ConnInv
  <2>3. /\ backlog' = [r \in Procs |-> backlog'[r]]
        /\ \A k \in Clients : backlog'[k] = << >>
        /\ \A r \in Responders : life'[r] # "up" => backlog'[r] = << >>
    <3>1. Clients \subseteq Procs /\ Responders \subseteq Procs
      BY DEF Procs, Responders
    <3> QED
      BY <1>5, <3>1 DEF SysInv, QueueInv
  <2>4. life' \in [Procs -> Lives] /\ failed' \subseteq Procs
    BY <1>5 DEF SysInv, NetInv
  <2> QED
    BY <1>9, <1>10, <1>11, <2>1, <2>2, <2>3, <2>4, ClosingKeeps
<1>13. RouterInv'
  <2>1. NoConn \in 0 .. MaxConns
    BY NetAssumption DEF NoConn
  <2> QED
    BY <1>5, <2>1 DEF SysInv, RouterInv
<1>14. ServerInv' /\ ShardInv' /\ ClientInv'
  BY <1>5, OthersKept DEF servervars, clientvars
<1> QED
  BY <1>12, <1>13, <1>14 DEF SysInv

\* The servers by number.
LEMMA ServerNumbers ==
    /\ 0 \in Servers
    /\ \A i \in Servers : NextServer(i) \in Servers
    /\ \A i \in Servers : i + 1 < NUM_SERVERS => i + 1 \in Servers
<1>1. PICK n \in Nat \ {0} : n = NUM_SERVERS
  BY NetAssumption
<1>2. \A i \in 0 .. n - 1 : (i + 1) % n \in 0 .. n - 1
  OBVIOUS
<1> QED
  BY <1>1, <1>2 DEF Servers, NextServer

\* One turn of the router's loop up to the next recv.
LEMMA RouterServeStep ==
    ASSUME SysInv, RouterServe, UNCHANGED <<servervars, clientvars>>
    PROVE  SysInv'
<1>1. life[Router] = "up" /\ rpc = "serve" /\ CanRecv(client_sock, "resp")
  BY DEF RouterServe, RouterAt
<1>2. PICK r : r = Received(client_sock, "resp").body
  OBVIOUS
<1>3. CASE /\ Readable(client_sock, "resp") /\ r.kind = "RETRIEVE"
           /\ SendCommand(Taken(client_sock, "resp"), 0, r, current_server, << >>)
  <2>1. 0 \in Servers /\ current_server \in Servers
    BY ServerNumbers DEF SysInv, RouterInv
  <2> QED
    BY <1>1, <1>2, <1>3, <2>1, RouterForwards
<1>4. CASE /\ Readable(client_sock, "resp") /\ r.kind = "STORE"
           /\ SendCommand(Taken(client_sock, "resp"), current_server, r,
                          NextServer(current_server), << >>)
  <2>1. current_server \in Servers /\ NextServer(current_server) \in Servers
    BY ServerNumbers DEF SysInv, RouterInv
  <2>2. r.kind # "RETRIEVE"
    BY <1>4
  <2>3. PICK i, next : i = current_server /\ next = NextServer(current_server)
    OBVIOUS
  <2> QED
    BY <1>1, <1>2, <1>4, <2>1, <2>2, <2>3, RouterForwards
<1>5. CASE /\ SessionOver(client_sock)
           /\ Communicate(Closed(Taken(client_sock, "resp"), client_sock, "resp"))
           /\ rpc' = "accept" /\ client_sock' = NoConn
           /\ UNCHANGED <<ri, current_server, server_sockets, request, replies,
                          routerStarts>>
  BY <1>1, <1>5, RouterCloseStep
<1> QED
  BY <1>2, <1>3, <1>4, <1>5 DEF RouterServe

\* The router answers the client it serves.
LEMMA RouterAnswers ==
    ASSUME SysInv, life[Router] = "up", rpc = "await",
           CanRecv(server_sockets[ri], "init"),
           NEW body, AnswersCommand(request, body), NEW len \in Nat, len <= ListMax,
           AnswerClient(Taken(server_sockets[ri], "init"), body, len),
           UNCHANGED <<servervars, clientvars>>
    PROVE  SysInv'
<1>1. PICK s, c, d0, k : /\ s = ri /\ c = server_sockets[s] /\ d0 = client_sock
                         /\ k = conns[d0].who["init"]
  OBVIOUS
<1>2. s \in Servers /\ c # NoConn /\ d0 # NoConn
  BY <1>1 DEF SysInv, RouterInv
<1>3. InitPc(Router, s) = "await" /\ RespPc(Router) = "busy"
  BY <1>1 DEF InitPc, RespPc
<1>4. /\ c \in DOMAIN conns /\ IsConn(conns[c]) /\ c # d0
      /\ RespPhase(c) = "gone" <=> ~conns[c].open["resp"]
      /\ Exchange("await", RespPhase(c), conns[c], request, request, failed)
      /\ \A t \in Servers : server_sockets[t] = c => t = s
  BY <1>1, <1>2, <1>3, RouterConn
<1>5. /\ d0 \in DOMAIN conns /\ IsConn(conns[d0]) /\ k # Router
      /\ InitPhase(d0) = "gone" <=> ~conns[d0].open["init"]
      /\ Exchange(InitPhase(d0), "busy", conns[d0], cmd[k], request, failed)
  BY <1>1, <1>2, <1>3, RouterServes
<1>6. PICK cs : cs = Taken(c, "init")
  OBVIOUS
<1>7. OnlyAt(conns, cs, c) /\ TakenAt(conns[c], cs[c], "init") /\ cs[d0] = conns[d0]
  BY <1>4, <1>5, <1>6, TakenEffect DEF Ends, OnlyAt
<1>8. PICK p : p = DataPacket(cs, d0, "resp", body, len)
  OBVIOUS
<1>9. /\ conns' = Sent(cs, d0, "resp", p) /\ UNCHANGED <<backlog, life, failed>>
      /\ rpc' = "serve" /\ ri' = 0 /\ request' = NoRequest /\ replies' = << >>
      /\ UNCHANGED <<current_server, server_sockets, client_sock>>
  BY <1>1, <1>6, <1>8 DEF AnswerClient, Communicate
<1>10. \A d \in DOMAIN conns : IsConn(conns[d])
  BY DEF SysInv, ConnInv
<1>11. d0 \in DOMAIN cs /\ IsConn(cs[d0]) /\ \A d \in DOMAIN cs : IsConn(cs[d])
  BY <1>5, <1>7, <1>10 DEF OnlyAt
<1>12. OnlyAt(cs, conns', d0) /\ SentAt(conns[d0], conns'[d0], "resp", p)
  BY <1>7, <1>9, <1>11, SentEffect DEF Ends
<1>13. IsData(p, conns[d0], "resp") /\ p.len <= OVERHEAD + ListMax /\ p.body = body
  BY <1>7, <1>8, Lengths DEF DataPacket, IsData, OVERHEAD
<1>14. Coherent(d0)'
  <2>1. Exchange(InitPhase(d0), "serve", conns'[d0], cmd[k], NoRequest, failed)
    BY <1>1, <1>5, <1>12, <1>13, ExchangeAnswer
  <2>2. RespPc(Router)' = "serve"
    BY <1>9 DEF RespPc
  <2>3. conns'[d0].who = conns[d0].who /\ conns'[d0].open = conns[d0].open
    BY <1>7, <1>12 DEF OnlyAt
  <2> QED
    BY <1>1, <1>2, <1>9, <2>1, <2>2, <2>3, RouterServesOnly
<1>15. \A t : InitPc(Router, t)' = "idle"
  BY <1>9 DEF InitPc
<1>16. Coherent(c)'
  <2>1. conns[c].inbox["init"] # << >> \/ ~conns[c].open["resp"]
    BY <1>1, EndsOf DEF CanRecv
  <2>2. Exchange("idle", RespPhase(c), cs[c], NoRequest, NoRequest, failed)
    BY <1>4, <1>7, <2>1, ExchangeAnswered
  <2>3. /\ conns'[c] = cs[c]
        /\ conns'[c].who = conns[c].who /\ conns'[c].open = conns[c].open
    BY <1>4, <1>7, <1>12 DEF OnlyAt
  <2> QED
    BY <1>1, <1>2, <1>9, <1>15, <2>2, <2>3, RouterOnly
<1>17. ASSUME NEW d \in DOMAIN conns, d # c, d # d0 PROVE Coherent(d)'
  <2>1. conns'[d] = conns[d]
    BY <1>7, <1>12, <1>17 DEF OnlyAt
  <2>2. \A t \in Servers : server_sockets[t] = d => InitPc(Router, t) = "idle"
    BY <1>1, <1>17 DEF InitPc
  <2> QED
    BY <1>1, <1>9, <1>15, <1>17, <2>1, <2>2, RouterElsewhere
<1>18. SameEnds(conns, conns')
  BY <1>4, <1>7, <1>10, <1>11, <1>12, SameEndsStep
<1>19. RouterInv'
  <2>1. 0 \in Servers
    BY ServerNumbers
  <2> QED
    BY <1>9, <2>1 DEF SysInv, RouterInv
<1> QED
  BY <1>9, <1>14, <1>16, <1>17, <1>18, <1>19, RouterTalks

\* The router asks the next server.
LEMMA RouterAsksNext ==
    ASSUME SysInv, life[Router] = "up", rpc = "await",
           CanRecv(server_sockets[ri], "init"),
           request.kind = "RETRIEVE", ri + 1 < NUM_SERVERS,
           NEW answers \in Seq(Replies), Len(answers) = ri + 1,
           SendCommand(Taken(server_sockets[ri], "init"), ri + 1, request,
                       current_server, answers),
           UNCHANGED <<servervars, clientvars>>
    PROVE  SysInv'
<1>1. PICK s, c, i, r : s = ri /\ c = server_sockets[s] /\ i = ri + 1 /\ r = request
  OBVIOUS
<1>2. /\ s \in Servers /\ c # NoConn /\ i \in Servers /\ r \in Requests
      /\ current_server \in Servers /\ i # s
  <2>1. /\ s \in Servers /\ c # NoConn /\ r \in Requests /\ current_server \in Servers
    BY <1>1 DEF SysInv, RouterInv
  <2> QED
    BY <1>1, <2>1, ServerNumbers DEF Servers
<1>3. InitPc(Router, s) = "await" /\ InitPc(Router, i) = "idle"
  BY <1>1, <1>2 DEF InitPc
<1>4. /\ c \in DOMAIN conns /\ IsConn(conns[c]) /\ Has(Router, conns[c], "init")
      /\ c # client_sock /\ RespPhase(c) # "busy"
      /\ RespPhase(c) = "gone" <=> ~conns[c].open["resp"]
      /\ Exchange("await", RespPhase(c), conns[c], request, request, failed)
      /\ \A t \in Servers : server_sockets[t] = c => t = s
  BY <1>1, <1>2, <1>3, RouterConn
<1>5. PICK cs : cs = Taken(c, "init")
  OBVIOUS
<1>6. OnlyAt(conns, cs, c) /\ TakenAt(conns[c], cs[c], "init")
  BY <1>4, <1>5, TakenEffect DEF Ends
<1>7. AfterRecv(Router, cs)
  BY <1>4, <1>5 DEF AfterRecv, Ends
<1>8. PICK c2 : c2 = server_sockets[i]
  OBVIOUS
<1>9. c2 # c /\ c2 \in DOMAIN conns
  <2>1. c2 # NoConn
    BY <1>2, <1>8 DEF SysInv, RouterInv
  <2> QED
    BY <1>2, <1>4, <1>8, <2>1, RouterConn
<1>10. cs[server_sockets[i]] = conns[server_sockets[i]]
  BY <1>6, <1>8, <1>9 DEF OnlyAt
<1>11. ASSUME rpc' = "await", ri' = i, request' = r,
              UNCHANGED <<server_sockets, client_sock, failed>>,
              NEW d \in DOMAIN conns \ {c2}, conns'[d] = cs[d]
       PROVE  Coherent(d)'
  <2>1. CASE d = c
    <3>1. conns[c].inbox["init"] # << >> \/ ~conns[c].open["resp"]
      BY <1>1, EndsOf DEF CanRecv
    <3>2. Exchange("idle", RespPhase(c), cs[c], r, r, failed)
      BY <1>4, <1>6, <3>1, ExchangeAnswered
    <3>3. InitPc(Router, s)' = "idle"
      BY <1>2, <1>11 DEF InitPc
    <3>4. /\ conns'[c] = cs[c]
          /\ conns'[c].who = conns[c].who /\ conns'[c].open = conns[c].open
      BY <1>6, <1>11, <2>1 DEF OnlyAt
    <3> QED
      BY <1>1, <1>2, <1>11, <2>1, <3>2, <3>3, <3>4, RouterOnly
  <2>2. CASE d # c
    <3>1. conns'[d] = conns[d]
      BY <1>6, <1>11, <2>2 DEF OnlyAt
    <3>2. \A t \in Servers : server_sockets[t] = d =>
              InitPc(Router, t) = "idle" /\ InitPc(Router, t)' = "idle"
      BY <1>1, <1>8, <1>11, <2>2 DEF InitPc
    <3>3. RespPc(Router)' = RespPc(Router) /\ request' = request
      BY <1>1, <1>11 DEF RespPc
    <3> QED
      BY <1>11, <3>1, <3>2, <3>3, RouterElsewhere
  <2> QED
    BY <2>1, <2>2
<1>12. /\ rpc' = "await" /\ ri' = i /\ request' = r
       /\ UNCHANGED <<server_sockets, client_sock, failed>>
       => \A d \in DOMAIN conns \ {server_sockets[i]} : conns'[d] = cs[d] => Coherent(d)'
  BY <1>8, <1>11
<1>13. /\ SendCommand(cs, i, r, current_server, answers)
       /\ Len(answers) = (IF r.kind = "RETRIEVE" THEN i ELSE 0)
  BY <1>1, <1>5
<1> QED
  BY <1>2, <1>3, <1>7, <1>10, <1>12, <1>13, CommandStep

\* The answer of a server, or none.
LEMMA RouterReplyStep ==
    ASSUME SysInv, RouterReply, UNCHANGED <<servervars, clientvars>>
    PROVE  SysInv'
<1>1. PICK c, reply, answers :
          /\ c = server_sockets[ri] /\ reply = ServerReply(c)
          /\ answers = Append(replies, reply)
  OBVIOUS
<1>2. life[Router] = "up" /\ rpc = "await" /\ CanRecv(c, "init")
  BY <1>1 DEF RouterReply, RouterAt
<1>3. /\ request \in Requests
      /\ request.kind = "STORE" =>
             /\ reply.kind \in {"DATA_STORED", "NO_RESPONSE"}
             /\ ReplyLen(reply) \in Nat /\ ReplyLen(reply) <= ListMax
      /\ request.kind = "RETRIEVE" => reply \in Replies
  BY <1>1, <1>2, RouterGets
<1>4. /\ replies \in Seq(Replies) /\ ri \in Servers
      /\ Len(replies) = IF request.kind = "RETRIEVE" THEN ri ELSE 0
  BY <1>2 DEF SysInv, RouterInv
<1>5. request.kind = "RETRIEVE" => answers \in Seq(Replies) /\ Len(answers) = ri + 1
  BY <1>1, <1>3, <1>4
<1>6. CASE /\ request.kind = "STORE"
           /\ AnswerClient(Taken(c, "init"), reply, ReplyLen(reply))
  <2>1. AnswersCommand(request, reply)
    BY <1>3, <1>6 DEF AnswersCommand
  <2>2. PICK len \in Nat : len = ReplyLen(reply) /\ len <= ListMax
    BY <1>3, <1>6
  <2>3. AnswerClient(Taken(server_sockets[ri], "init"), reply, len)
    BY <1>1, <1>6, <2>2
  <2> QED
    BY <1>1, <1>2, <2>1, <2>2, <2>3, RouterAnswers
<1>7. CASE /\ request.kind = "RETRIEVE" /\ ri + 1 < NUM_SERVERS
           /\ SendCommand(Taken(c, "init"), ri + 1, request, current_server, answers)
  BY <1>1, <1>2, <1>5, <1>7, RouterAsksNext
<1>8. CASE /\ request.kind = "RETRIEVE" /\ ri + 1 = NUM_SERVERS
           /\ AnswerClient(Taken(c, "init"), [kind |-> "LIST", parts |-> answers],
                           FormattedLen(answers))
  <2>1. PICK body, len : /\ body = [kind |-> "LIST", parts |-> answers]
                         /\ len = FormattedLen(answers)
    OBVIOUS
  <2>2. len \in Nat /\ len <= ListMax
    BY <1>5, <1>8, <2>1, ListLengths DEF ListMax
  <2>3. AnswersCommand(request, body)
    <3>1. \A i \in 1 .. NUM_SERVERS : answers[i] \in Replies
      BY <1>5, <1>8
    <3>2. \A x \in Replies : x.kind # "DATA_STORED"
      BY DEF Replies, ReplyKinds
    <3>3. body.kind = "LIST" /\ body.parts = answers /\ Len(body.parts) = NUM_SERVERS
      BY <1>5, <1>8, <2>1
    <3> QED
      BY <1>8, <3>1, <3>2, <3>3 DEF AnswersCommand
  <2>4. AnswerClient(Taken(server_sockets[ri], "init"), body, len)
    BY <1>1, <1>8, <2>1
  <2> QED
    BY <1>1, <1>2, <2>2, <2>3, <2>4, RouterAnswers
<1> QED
  BY <1>1, <1>6, <1>7, <1>8 DEF RouterReply

-----------------------------------------------------------------------------
(***************************************************************************)
(* The invariant is inductive.                                             *)
(***************************************************************************)
\* The programs start with it.
LEMMA InitSysInv == Init => SysInv
<1> SUFFICES ASSUME Init PROVE SysInv
  OBVIOUS
<1> USE DEF Init, NetInit, ServerInit, RouterInit, ClientInit
<1>1. DOMAIN conns = {}
  OBVIOUS
<1>2. NetInv
  BY <1>1 DEF NetInv, Lives
<1>3. ConnInv
  BY <1>1 DEF ConnInv
<1>4. SockInv
  <2>1. \A link \in Links : InitSock(link[1], link[2]) = NoConn
    <3> SUFFICES ASSUME NEW i, NEW r, <<i, r>> \in Links
                 PROVE  InitSock(i, r) = NoConn
      BY DEF Links
    <3>1. (i = Router => r \in Servers) /\ (i # Router => i \in Clients)
      BY LinkEnds
    <3> QED
      BY <3>1 DEF InitSock
  <2>2. \A r \in Servers \cup {Router} : RespSock(r) = NoConn
    BY DEF RespSock
  <2> QED
    BY <2>1, <2>2 DEF SockInv
<1>5. QueueInv
  <2>1. \A r \in Procs : backlog[r] = << >> /\ Queue(r) = {}
    BY DEF Queue, Members
  <2>2. << >> \in Seq(1 .. MaxConns) /\ Distinct(<< >>)
    BY DEF Distinct
  <2>3. backlog \in [Procs -> Seq(1 .. MaxConns)]
    BY <2>2
  <2> QED
    BY <2>1, <2>2, <2>3 DEF QueueInv
<1>6. ServerInv
  <2>1. \A s \in Servers : life[s] = "up"
    BY NetAssumption DEF Procs, Servers
  <2> QED
    BY <2>1, NetAssumption DEF ServerInv, NoConn
<1>7. ShardInv
  BY ChainedEmpty, ServerAssumption DEF ShardInv
<1>8. RouterInv
  <2>1. life[Router] = "up"
    BY NetAssumption DEF Procs
  <2>2. 0 \in Servers /\ \A s \in Servers : s >= 0
    BY NetAssumption DEF Servers
  <2> QED
    BY <2>1, <2>2, NetAssumption DEF RouterInv, NoConn
<1>9. ClientInv
  <2>1. \A c \in Clients : life[c] = "exit"
    BY DEF Procs
  <2> QED
    BY <2>1, NetAssumption DEF ClientInv, NoConn
<1> QED
  BY <1>2, <1>3, <1>4, <1>5, <1>6, <1>7, <1>8, <1>9 DEF SysInv

\* A process that ended is started again.
LEMMA BeginStep ==
    ASSUME SysInv, NEW p \in Responders, Begin(p),
           UNCHANGED <<servervars, clientvars>>,
           UNCHANGED <<rpc, ri, current_server, server_sockets, client_sock,
                       request, replies>>
    PROVE  SysInv'
<1>1. /\ life[p] # "up" /\ life' = [life EXCEPT ![p] = "up"]
      /\ UNCHANGED <<conns, backlog, failed>>
  BY DEF Begin
<1>2. p \in Procs /\ life \in [Procs -> Lives] /\ p \notin Clients
  BY NetAssumption DEF Responders, Procs, Servers, SysInv, NetInv
<1>3. /\ life' \in [Procs -> Lives] /\ life'[p] = "up"
      /\ \A q \in Procs \ {p} : life'[q] = life[q]
  BY <1>1, <1>2 DEF Lives
<1>4. NetInv'
  BY <1>1, <1>3 DEF SysInv, NetInv
<1>5. ConnInv' /\ SockInv'
  <2>1. \A c : /\ Coherent(c)' <=> Coherent(c)
               /\ Held(c)' <=> Held(c)
    BY <1>1 DEF Coherent, Held, InitPhase, RespPhase, InitPc, RespPc, InitSock,
                RespSock, Wanted, Queue, servervars, clientvars
  <2>2. SockInv' <=> SockInv
    BY <1>1 DEF SockInv, InitEnd, RespEnd, InitSock, RespSock, servervars, clientvars
  <2> QED
    BY <1>1, <2>1, <2>2 DEF SysInv, ConnInv
<1>6. QueueInv'
  <2>1. \A r : Queue(r)' = Queue(r)
    BY <1>1 DEF Queue
  <2>2. \A c, r : RespEnd(c, r)' <=> RespEnd(c, r)
    BY <1>1 DEF RespEnd
  <2>3. \A r : RespSock(r)' = RespSock(r)
    BY DEF RespSock, servervars
  <2> QED
    BY <1>1, <1>2, <1>3, <2>1, <2>2, <2>3 DEF SysInv, QueueInv
<1>7. ServerInv'
  <2>1. Servers \subseteq Procs
    BY DEF Procs
  <2>2. \A s \in Servers : life'[s] = "up" \/ life'[s] = life[s]
    BY <1>3, <2>1
  <2> QED
    BY <1>1, <2>2 DEF SysInv, ServerInv, servervars
<1>8. ShardInv'
  BY DEF SysInv, ShardInv, servervars
<1>9. RouterInv'
  <2>1. life'[Router] = "up" \/ life'[Router] = life[Router]
    BY <1>3 DEF Procs
  <2> QED
    BY <1>1, <2>1 DEF SysInv, RouterInv
<1>10. ClientInv'
  <2>1. \A c \in Clients : life'[c] = life[c]
    BY <1>2, <1>3 DEF Procs
  <2> QED
    BY <2>1 DEF SysInv, ClientInv, clientvars
<1> QED
  BY <1>4, <1>5, <1>6, <1>7, <1>8, <1>9, <1>10 DEF SysInv

-----------------------------------------------------------------------------
(***************************************************************************)
(* The theorems.                                                           *)
(***************************************************************************)
\* Any step of a server.
LEMMA ServerStepInv ==
    ASSUME SysInv, NEW s \in Servers, ServerStep(s), UNCHANGED <<routervars, clientvars>>
    PROVE  SysInv'
<1>1. CASE ServerAccept(s)
  BY <1>1, ServerAcceptStep
<1>2. CASE ServerHandshake(s)
  <2>1. life[s] = "up" /\ spc[s] = "client_hello" /\ CanRecv(ssock[s], "resp")
    BY <1>2 DEF ServerHandshake
  <2>2. ASSUME NEW key \in ResponderKeys(ssock[s]),
               Communicate(Answered(ssock[s], key)),
               spc' = [spc EXCEPT ![s] = "serve"],
               UNCHANGED <<ssock, chain, allocFails>>
        PROVE  SysInv'
    BY <2>1, <2>2, ServerHandshakeStep
  <2>3. CASE AtEnd(ssock[s], "resp") /\ End(s, "ub", conns) /\ ServerGone(s)
    BY <2>1, <2>3, ServerHandshakeDeathStep
  <2> QED
    BY <1>2, <2>2, <2>3 DEF ServerHandshake
<1>3. CASE ServerServe(s)
  <2>1. life[s] = "up" /\ spc[s] = "serve" /\ CanRecv(ssock[s], "resp")
    BY <1>3 DEF ServerServe
  <2>2. CASE /\ Readable(ssock[s], "resp")
             /\ Received(ssock[s], "resp").body.kind = "RETRIEVE"
             /\ ServerRetrieve(s) /\ UNCHANGED <<spc, ssock>>
    BY <2>1, <2>2, ServerRetrieveStep
  <2>3. CASE /\ Readable(ssock[s], "resp")
             /\ Received(ssock[s], "resp").body.kind = "STORE"
             /\ ServerStore(s, Received(ssock[s], "resp").body.data)
             /\ UNCHANGED <<spc, ssock>>
    BY <2>1, <2>3, ServerStoreStep
  <2>4. CASE /\ ~Readable(ssock[s], "resp")
             /\ Communicate(Closed(Taken(ssock[s], "resp"), ssock[s], "resp"))
             /\ spc' = [spc EXCEPT ![s] = "accept"]
             /\ ssock' = [ssock EXCEPT ![s] = NoConn]
             /\ UNCHANGED <<chain, allocFails>>
    BY <2>1, <2>4, ServerCloseStep
  <2> QED
    BY <1>3, <2>2, <2>3, <2>4 DEF ServerServe
<1> QED
  BY <1>1, <1>2, <1>3 DEF ServerStep

\* Any step of a client, or of its user.
LEMMA ClientStepInv ==
    ASSUME SysInv, NEW k \in Clients, ClientStep(k) \/ UserStep(k),
           UNCHANGED <<servervars, routervars>>
    PROVE  SysInv'
<1>1. ASSUME NEW d \in Data, ClientStore(k, d)
      PROVE  SysInv'
  <2>1. [kind |-> "STORE", data |-> d] \in Requests
    BY DEF Requests
  <2> QED
    BY <1>1, <2>1, ClientSendStep DEF ClientStore
<1>2. CASE ClientRetrieve(k)
  <2>1. [kind |-> "RETRIEVE"] \in Requests
    BY DEF Requests
  <2> QED
    BY <1>2, <2>1, ClientSendStep DEF ClientRetrieve
<1> QED
  BY <1>1, <1>2, ClientSendHelloStep, ClientRecvHelloStep, ClientReceiveStep,
     ClientConnectStep, ClientExitStep DEF ClientStep, UserStep

\* A process is killed.
LEMMA KillStepInv ==
    ASSUME SysInv, NEW p \in Procs, Kill(p)
    PROVE  SysInv'
<1>1. CASE p \in Servers /\ KillServer(p)
  BY <1>1, ServerDeathStep DEF KillServer
<1>2. CASE p = Router /\ KillRouter
  <2>1. AfterRecv(Router, conns)
    BY DEF AfterRecv
  <2> QED
    BY <1>2, <2>1, RouterDeathStep DEF KillRouter
<1>3. CASE p \in Clients /\ KillClient(p)
  <2>1. AfterRecv(p, conns)
    BY DEF AfterRecv
  <2> QED
    BY <1>3, <2>1, ClientDeathStep DEF KillClient
<1> QED
  BY <1>1, <1>2, <1>3 DEF Kill

\* A process is started again.
LEMMA RestartInv == SysInv /\ Restart => SysInv'
<1> SUFFICES ASSUME SysInv, Restart PROVE SysInv'
  OBVIOUS
<1>1. ASSUME NEW s \in Servers, ServerStart(s), UNCHANGED <<routervars, clientvars>>
      PROVE  SysInv'
  <2>1. s \in Responders
    BY DEF Responders
  <2> QED
    BY <1>1, <2>1, BeginStep DEF ServerStart, routervars
<1>2. CASE RouterStart /\ UNCHANGED <<servervars, clientvars>>
  <2>1. Router \in Responders
    BY DEF Responders
  <2> QED
    BY <1>2, <2>1, BeginStep DEF RouterStart
<1> QED
  BY <1>1, <1>2 DEF Restart

\* Nothing happens.
LEMMA StutterInv == SysInv /\ UNCHANGED vars => SysInv'
<1> SUFFICES ASSUME SysInv, UNCHANGED vars PROVE SysInv'
  OBVIOUS
<1> USE DEF vars, netvars, servervars, routervars, clientvars
<1>1. NetInv'
  BY DEF SysInv, NetInv
<1>2. ConnInv'
  BY DEF SysInv, ConnInv, Held, Coherent, InitPhase, RespPhase, InitPc, RespPc,
         InitSock, RespSock, Wanted, Queue
<1>3. SockInv'
  BY DEF SysInv, SockInv, InitSock, RespSock, InitEnd, RespEnd
<1>4. QueueInv'
  BY DEF SysInv, QueueInv, RespSock, RespEnd, Queue
<1>5. ServerInv' /\ ShardInv'
  BY DEF SysInv, ServerInv, ShardInv
<1>6. RouterInv'
  BY DEF SysInv, RouterInv
<1>7. ClientInv'
  BY DEF SysInv, ClientInv
<1> QED
  BY <1>1, <1>2, <1>3, <1>4, <1>5, <1>6, <1>7 DEF SysInv

\* Every step of the system keeps the invariant.
LEMMA NextSysInv == SysInv /\ [Next]_vars => SysInv'
<1> SUFFICES ASSUME SysInv, [Next]_vars PROVE SysInv'
  OBVIOUS
<1>1. ASSUME NEW s \in Servers, ServerRuns(s)
      PROVE  SysInv'
  BY <1>1, ServerStepInv DEF ServerRuns
<1>2. CASE RouterRuns
  BY <1>2, RouterConnectStep, RouterSendHelloStep, RouterRecvHelloStep,
     RouterAcceptStep, RouterHandshakeStep, RouterServeStep, RouterReplyStep
     DEF RouterRuns, RouterStep
<1>3. ASSUME NEW k \in Clients, ClientRuns(k) \/ UserActs(k)
      PROVE  SysInv'
  BY <1>3, ClientStepInv DEF ClientRuns, UserActs
<1> QED
  BY <1>1, <1>2, <1>3, KillStepInv, RestartInv, StutterInv DEF Next

\* The inductive invariant of the whole system: on every connection, the
\* packets are those that the places its two processes are at in main and
\* handle_client account for, whoever was killed or started again.
THEOREM SystemInvariant == Spec => []SysInv
<1>1. Init => SysInv
  BY InitSysInv
<1>2. SysInv /\ [Next]_vars => SysInv'
  BY NextSysInv
<1> QED
  BY <1>1, <1>2, PTL DEF Spec

\* A failure reaches the router only from a server that failed or from a
\* client that did, and a server only from the router: no server dies of
\* what a client or another server does.
THEOREM SystemFailuresContained == Spec => []FailuresContained
<1>1. SysInv => FailuresContained
  BY DEF SysInv, ServerInv, RouterInv, FailuresContained
<1> QED
  BY <1>1, SystemInvariant, PTL

\* On a connection that was reset, with the initiator gone, a responder has
\* nothing to answer.
LEMMA ExchangeAnswersSafely ==
    ASSUME NEW i, NEW r \in {"client_hello", "serve", "busy"}, NEW k, NEW w, NEW b, NEW f,
           Exchange(i, r, k, w, b, f), i = "gone" <=> ~k.open["init"],
           ~k.open["init"], k.reset
    PROVE  r = "serve" /\ k.inbox["resp"] = << >>
  BY DEF Exchange, Left

\* A server, and the router in handle_client, never send on a connection
\* that was reset: only initiators can be hit by SIGPIPE.
THEOREM SystemRespondersSendSafely == Spec => []RespondersSendSafely
<1>1. SysInv => RespondersSendSafely
  <2> SUFFICES ASSUME SysInv PROVE RespondersSendSafely
    OBVIOUS
  <2>1. ASSUME NEW s \in Servers, spc[s] \in {"client_hello", "serve"},
               Broken(conns, ssock[s], "resp")
        PROVE  spc[s] = "serve" /\ AtEnd(ssock[s], "resp")
    <3>1. PICK c : c = ssock[s]
      OBVIOUS
    <3>2. c # NoConn
      BY <2>1, <3>1 DEF SysInv, ServerInv
    <3>3. IsConn(conns[c]) /\ Coherent(c) /\ RespPhase(c) = spc[s]
      BY <3>1, <3>2, AtServer
    <3>4. InitPhase(c) = "gone" <=> ~conns[c].open["init"]
      BY <3>3, PhaseGone DEF SysInv
    <3>5. ~conns[c].open["init"] /\ conns[c].reset
      BY <2>1, <3>1, EndsOf DEF Broken
    <3> QED
      BY <2>1, <3>1, <3>3, <3>4, <3>5, ExchangeAnswersSafely DEF Coherent, AtEnd
  <2>2. ASSUME rpc \in {"client_hello", "serve", "await"},
               Broken(conns, client_sock, "resp")
        PROVE  rpc = "serve" /\ AtEnd(client_sock, "resp")
    <3>1. PICK c, k : c = client_sock /\ k = conns[c].who["init"]
      OBVIOUS
    <3>2. c # NoConn /\ RespPc(Router) \in {"client_hello", "serve", "busy"}
      BY <2>2, <3>1 DEF SysInv, RouterInv, RespPc
    <3>3. /\ InitPhase(c) = "gone" <=> ~conns[c].open["init"]
          /\ Exchange(InitPhase(c), RespPc(Router), conns[c], cmd[k], request, failed)
      BY <3>1, <3>2, RouterServes
    <3>4. ~conns[c].open["init"] /\ conns[c].reset
      BY <2>2, <3>1, EndsOf DEF Broken
    <3>5. RespPc(Router) = "serve" /\ conns[c].inbox["resp"] = << >>
      BY <3>2, <3>3, <3>4, ExchangeAnswersSafely
    <3> QED
      BY <2>2, <3>1, <3>5 DEF AtEnd, RespPc
  <2> QED
    BY <2>1, <2>2 DEF RespondersSendSafely
<1> QED
  BY <1>1, SystemInvariant, PTL

\* What waits for a client is of the kind that answers its command.
LEMMA AnswersKind ==
    ASSUME SysInv, NEW k \in Clients, cpc[k] = "await", ~AtEnd(sockfd[k], "init")
    PROVE  AnswersCommand(cmd[k], Received(sockfd[k], "init").body)
<1>1. PICK c : c = sockfd[k]
  OBVIOUS
<1>2. c # NoConn
  BY <1>1 DEF SysInv, ClientInv
<1>3. /\ conns[c].who["init"] = k /\ k # Router
      /\ Exchange("await", RespPhase(c), conns[c], cmd[k], request, failed)
  BY <1>1, <1>2, ClientConn
<1>4. OneAnswer(conns[c].inbox["init"], k, cmd[k])
  BY <1>1, <1>3, ExchangeReads DEF AtEnd
<1> QED
  BY <1>1, <1>3, <1>4 DEF OneAnswer, IsAnswer, Received

\* If a list of two blocks per server fits into one recv, a program that
\* goes on decrypts every packet it receives after the key exchange.
THEOREM SystemReceivedDecrypts ==
    ASSUME OVERHEAD + ListMax <= RECV_MAX
    PROVE  Spec => []ReceivedDecrypts
<1>1. SysInv => ReceivedDecrypts
  <2> SUFFICES ASSUME SysInv PROVE ReceivedDecrypts
    OBVIOUS
  <2>1. /\ ListMax \in Nat /\ OVERHEAD \in Nat /\ RECV_MAX \in Nat
        /\ \A n \in Nat : n <= Least(SEGMENT_MAX, RECV_MAX) => n <= RECV_MAX
        /\ \A n \in Nat : n <= OVERHEAD + ListMax => n <= RECV_MAX
    <3>1. ListMax \in Nat
      BY Lengths
    <3> QED
      BY <3>1 DEF OVERHEAD, RECV_MAX, SEGMENT_MAX, Least
  <2>2. ASSUME NEW s \in Servers, spc[s] = "serve", ~AtEnd(ssock[s], "resp")
        PROVE  Readable(ssock[s], "resp")
    <3>1. PICK c : c = ssock[s]
      OBVIOUS
    <3>2. c # NoConn
      BY <2>2, <3>1 DEF SysInv, ServerInv
    <3>3. Coherent(c) /\ RespPhase(c) = "serve" /\ conns[c].inbox["resp"] # << >>
      BY <2>2, <3>1, <3>2, AtServer DEF AtEnd
    <3>4. /\ OneData(conns[c].inbox["resp"]) /\ conns[c].key["resp"] = "shared"
          /\ Head(conns[c].inbox["resp"]).len <= Least(SEGMENT_MAX, RECV_MAX)
      BY <3>3, ExchangeReceives DEF Coherent
    <3> QED
      BY <2>1, <3>1, <3>3, <3>4 DEF OneData, Readable, Decrypts, Received, AtEnd
  <2>3. ASSUME NEW c, NEW r, NEW w, Exchange("await", r, conns[c], w, request, failed),
               ~AtEnd(c, "init")
        PROVE  Readable(c, "init")
    <3>1. /\ OneAnswer(conns[c].inbox["init"], conns[c].who["init"], w)
          /\ conns[c].key["init"] = "shared"
      BY <2>3, ExchangeReads DEF AtEnd
    <3> QED
      BY <2>1, <2>3, <3>1 DEF OneAnswer, OneData, Readable, Decrypts, Received
  <2>4. ASSUME rpc = "await", ~AtEnd(server_sockets[ri], "init")
        PROVE  Readable(server_sockets[ri], "init")
    <3>1. /\ ri \in Servers /\ server_sockets[ri] # NoConn
          /\ InitPc(Router, ri) = "await"
      BY <2>4 DEF SysInv, RouterInv, InitPc
    <3> QED
      BY <2>3, <2>4, <3>1, RouterConn
  <2>5. ASSUME NEW k \in Clients, cpc[k] = "await", ~AtEnd(sockfd[k], "init")
        PROVE  Readable(sockfd[k], "init")
    <3>1. sockfd[k] # NoConn
      BY <2>5 DEF SysInv, ClientInv
    <3> QED
      BY <2>3, <2>5, <3>1, ClientConn
  <2>6. ASSUME rpc = "serve", ~AtEnd(client_sock, "resp")
        PROVE  Readable(client_sock, "resp")
    <3>1. PICK c, k : c = client_sock /\ k = conns[c].who["init"]
      OBVIOUS
    <3>2. c # NoConn /\ RespPc(Router) = "serve"
      BY <2>6, <3>1 DEF SysInv, RouterInv, RespPc
    <3>3. Exchange(InitPhase(c), "serve", conns[c], cmd[k], request, failed)
      BY <3>1, <3>2, RouterServes
    <3>4. conns[c].inbox["resp"] # << >>
      BY <2>6, <3>1 DEF AtEnd
    <3>5. /\ OneData(conns[c].inbox["resp"]) /\ conns[c].key["resp"] = "shared"
          /\ Head(conns[c].inbox["resp"]).len <= Least(SEGMENT_MAX, RECV_MAX)
      BY <3>3, <3>4, ExchangeReceives
    <3> QED
      BY <2>1, <3>1, <3>4, <3>5 DEF OneData, Readable, Decrypts, Received, AtEnd
  <2> QED
    BY <2>2, <2>4, <2>5, <2>6 DEF ReceivedDecrypts
<1> QED
  BY <1>1, SystemInvariant, PTL

\* The packets of an exchange: at most one, and none longer than max.
LEMMA ExchangeOnePacket ==
    ASSUME NEW i, NEW r, NEW k, NEW w, NEW b, NEW f, Exchange(i, r, k, w, b, f),
           NEW max \in Nat, OVERHEAD + ListMax <= max, 995 <= max,
           Least(SEGMENT_MAX, RECV_MAX) <= max
    PROVE  LET in == k.inbox["init"]
               rin == k.inbox["resp"]
           IN  \/ in = << >> /\ rin = << >>
               \/ in = << >> /\ rin = <<Head(rin)>> /\ Head(rin).len <= max
               \/ rin = << >> /\ in = <<Head(in)>> /\ Head(in).len <= max
<1>1. /\ \A key : Head(<<ServerHello(key)>>) = ServerHello(key)
      /\ Head(<<ClientHello>>) = ClientHello
  OBVIOUS
<1>2. ClientHello.len <= max /\ \A key : ServerHello(key).len <= max
  BY DEF ClientHello, ServerHello, Hello
<1>3. /\ OVERHEAD \in Nat /\ ListMax \in Nat /\ Least(SEGMENT_MAX, RECV_MAX) \in Nat
  BY Lengths DEF OVERHEAD, RECV_MAX, SEGMENT_MAX, Least
<1>4. ASSUME NEW q, NEW bodies, OneRequest(q, bodies)
      PROVE  q = <<Head(q)>> /\ Head(q).len <= max
  BY <1>3, <1>4 DEF OneRequest, OneData
<1>5. ASSUME NEW q, NEW who, NEW want, OneAnswer(q, who, want)
      PROVE  q = <<Head(q)>> /\ Head(q).len <= max
  BY <1>3, <1>5 DEF OneAnswer, OneData
<1>6. CASE i # "gone" /\ r # "gone"
  BY <1>1, <1>2, <1>4, <1>5, <1>6 DEF Exchange, Talking
<1>7. CASE i = "gone" /\ r # "gone"
  BY <1>1, <1>2, <1>4, <1>7 DEF Exchange, Left
<1>8. CASE i # "gone" /\ r = "gone"
  BY <1>1, <1>2, <1>5, <1>8 DEF Exchange, Deserted
<1> QED
  BY <1>6, <1>7, <1>8 DEF Exchange

\* If a list of two blocks per server fits into one segment, no packet is
\* ever cut and no two are ever on a connection: recv needs no framing.
THEOREM SystemNoFramingNeeded ==
    ASSUME OVERHEAD + ListMax <= Least(SEGMENT_MAX, RECV_MAX)
    PROVE  Spec => []NoFramingNeeded
<1>1. SysInv => NoFramingNeeded
  <2> SUFFICES ASSUME SysInv, NEW c \in DOMAIN conns
               PROVE  /\ Len(conns[c].inbox["init"]) + Len(conns[c].inbox["resp"]) <= 1
                      /\ \A e \in Ends : \A j \in 1 .. Len(conns[c].inbox[e]) :
                             conns[c].inbox[e][j].len <= Least(SEGMENT_MAX, RECV_MAX)
    BY DEF NoFramingNeeded
  <2>1. PICK max \in Nat : max = Least(SEGMENT_MAX, RECV_MAX) /\ 995 <= max
    BY DEF Least, SEGMENT_MAX, RECV_MAX
  <2>2. PICK in, rin : in = conns[c].inbox["init"] /\ rin = conns[c].inbox["resp"]
    OBVIOUS
  <2>3. Coherent(c)
    BY DEF SysInv, ConnInv
  <2>4. \/ in = << >> /\ rin = << >>
        \/ in = << >> /\ rin = <<Head(rin)>> /\ Head(rin).len <= max
        \/ rin = << >> /\ in = <<Head(in)>> /\ Head(in).len <= max
    BY <2>1, <2>2, <2>3, ExchangeOnePacket DEF Coherent
  <2>5. /\ Len(in) + Len(rin) <= 1
        /\ \A j \in 1 .. Len(in) : in[j].len <= max
        /\ \A j \in 1 .. Len(rin) : rin[j].len <= max
    <3>1. ASSUME NEW q, q = <<Head(q)>>, Head(q).len <= max
          PROVE  Len(q) = 1 /\ \A j \in 1 .. Len(q) : q[j].len <= max
      <4>1. Len(q) = 1 /\ q[1] = Head(q)
        BY <3>1
      <4> QED
        BY <3>1, <4>1
    <3>2. ASSUME NEW q, q = << >>
          PROVE  Len(q) = 0 /\ \A j \in 1 .. Len(q) : q[j].len <= max
      BY <3>2
    <3>3. CASE in = << >> /\ rin = << >>
      BY <3>2, <3>3
    <3>4. CASE in = << >> /\ rin = <<Head(rin)>> /\ Head(rin).len <= max
      BY <3>1, <3>2, <3>4
    <3>5. CASE rin = << >> /\ in = <<Head(in)>> /\ Head(in).len <= max
      BY <3>1, <3>2, <3>5
    <3> QED
      BY <2>4, <3>3, <3>4, <3>5
  <2>6. Len(conns[c].inbox["init"]) + Len(conns[c].inbox["resp"]) <= 1
    BY <2>2, <2>5
  <2>7. ASSUME NEW e \in Ends
        PROVE  \A j \in 1 .. Len(conns[c].inbox[e]) :
                   conns[c].inbox[e][j].len <= Least(SEGMENT_MAX, RECV_MAX)
    <3>1. CASE e = "init"
      BY <2>1, <2>2, <2>5, <3>1
    <3>2. CASE e = "resp"
      BY <2>1, <2>2, <2>5, <3>2
    <3> QED
      BY <3>1, <3>2 DEF Ends
  <2> QED
    BY <2>6, <2>7
<1> QED
  BY <1>1, SystemInvariant, PTL

-----------------------------------------------------------------------------
(***************************************************************************)
(* Counting stores.  What was acknowledged, and what clients wait for, was *)
(* sent: so a payload is acknowledged at most as often as it was sent,     *)
(* whichever requests and answers get lost.                                *)
(***************************************************************************)
StoreOf(d) == [kind |-> "STORE", data |-> d]
Pending(d) == {c \in Clients : cmd[c] = StoreOf(d)}

Counted(done, waiting, all) ==
    /\ IsFiniteSet(waiting) /\ done \in Nat /\ all \in Nat
    /\ done + Cardinality(waiting) <= all /\ all <= MaxStores

CountInv ==
    /\ DOMAIN sent = Data /\ DOMAIN acked = Data
    /\ sent = [d \in Data |-> sent[d]] /\ acked = [d \in Data |-> acked[d]]
    /\ \A d \in Data : Counted(acked[d], Pending(d), sent[d])
    /\ known \in [Clients -> [Data -> 0 .. MaxStores]]

BoundInv == kills \in 0 .. MaxKills /\ routerStarts \in Nat

\* A client stops waiting, acknowledged or not; a client begins to wait.
LEMMA CountSteps ==
    ASSUME NEW done, NEW waiting, NEW all, Counted(done, waiting, all), NEW c
    PROVE  /\ Counted(done, waiting \ {c}, all)
           /\ c \in waiting => Counted(done + 1, waiting \ {c}, all)
           /\ c \notin waiting /\ all < MaxStores =>
                  Counted(done, waiting \cup {c}, all + 1)
<1>1. /\ IsFiniteSet(waiting) /\ Cardinality(waiting) \in Nat
      /\ done \in Nat /\ all \in Nat /\ MaxStores \in Nat
      /\ done + Cardinality(waiting) <= all /\ all <= MaxStores
  BY FS_CardinalityType, ClientAssumption DEF Counted
<1>2. /\ IsFiniteSet(waiting \ {c})
      /\ Cardinality(waiting \ {c}) =
             IF c \in waiting THEN Cardinality(waiting) - 1 ELSE Cardinality(waiting)
  BY <1>1, FS_RemoveElement
<1>3. /\ IsFiniteSet(waiting \cup {c})
      /\ c \notin waiting => Cardinality(waiting \cup {c}) = Cardinality(waiting) + 1
  BY <1>1, FS_AddElement
<1> QED
  BY <1>1, <1>2, <1>3 DEF Counted

\* The clients that wait with a store of d, when client k gets command r.
LEMMA PendingStep ==
    ASSUME DOMAIN cmd = Clients, NEW k \in Clients, NEW r,
           cmd' = [cmd EXCEPT ![k] = r], NEW d \in Data
    PROVE  /\ r = StoreOf(d) => Pending(d)' = Pending(d) \cup {k}
           /\ r # StoreOf(d) => Pending(d)' = Pending(d) \ {k}
<1>1. \A c \in Clients : cmd'[c] = IF c = k THEN r ELSE cmd[c]
  OBVIOUS
<1>2. ASSUME r = StoreOf(d) PROVE Pending(d)' = Pending(d) \cup {k}
  BY <1>1, <1>2 DEF Pending
<1>3. ASSUME r # StoreOf(d) PROVE Pending(d)' = Pending(d) \ {k}
  BY <1>1, <1>3 DEF Pending
<1> QED
  BY <1>2, <1>3

\* A client ends, or reads no acknowledgement of a store.
LEMMA CountForgets ==
    ASSUME SysInv, CountInv, NEW k \in Clients,
           cmd' = [cmd EXCEPT ![k] = NoCommand],
           known' = [known EXCEPT ![k] = Nothing],
           UNCHANGED <<sent, acked>>
    PROVE  CountInv'
<1>1. DOMAIN cmd = Clients /\ \A d : NoCommand # StoreOf(d)
  BY DEF SysInv, ClientInv, NoCommand, StoreOf
<1>2. \A d \in Data : Pending(d)' = Pending(d) \ {k}
  BY <1>1, PendingStep
<1>3. \A d \in Data : Counted(acked[d], Pending(d) \ {k}, sent[d])
  BY CountSteps DEF CountInv
<1>4. known' \in [Clients -> [Data -> 0 .. MaxStores]]
  <2>1. Nothing \in [Data -> 0 .. MaxStores]
    BY ClientAssumption DEF Nothing
  <2> QED
    BY <2>1 DEF CountInv
<1> QED
  BY <1>2, <1>3, <1>4 DEF CountInv

\* Steps that count nothing.
LEMMA CountKept ==
    ASSUME CountInv, UNCHANGED <<cmd, sent, acked, known>>
    PROVE  CountInv'
  BY DEF CountInv, Pending

\* A client that dies counts nothing, and waits no longer.
LEMMA CountDeath ==
    ASSUME SysInv, CountInv, NEW k \in Clients, NEW how, NEW cs, ClientDies(k, how, cs)
    PROVE  CountInv'
  BY CountForgets DEF ClientDies, ClientGone

\* The user asks for something.
LEMMA CountSend ==
    ASSUME SysInv, CountInv, NEW k \in Clients, NEW r \in Requests, NEW now,
           ClientSend(k, r, now),
           \/ r.kind = "RETRIEVE" /\ now = sent
           \/ \E d \in Data : /\ r = StoreOf(d) /\ sent[d] < MaxStores
                              /\ now = [sent EXCEPT ![d] = @ + 1]
    PROVE  CountInv'
<1>1. CASE \E how : ClientDies(k, how, conns)
  BY <1>1, CountDeath
<1>2. CASE /\ cmd' = [cmd EXCEPT ![k] = r] /\ sent' = now /\ acked' = acked
           /\ known' = [known EXCEPT ![k] = IF r.kind = "RETRIEVE" THEN acked
                                           ELSE Nothing]
  <2>1. cpc[k] = "idle"
    BY DEF ClientSend, ClientAt
  <2>2. /\ DOMAIN cmd = Clients /\ \A d : NoCommand # StoreOf(d)
        /\ cmd[k] = NoCommand
    BY <2>1 DEF SysInv, ClientInv, NoCommand, StoreOf
  <2>3. \A d \in Data : k \notin Pending(d)
    BY <2>2 DEF Pending
  <2>4. /\ acked \in [Data -> 0 .. MaxStores]
        /\ \A d \in Data : acked[d] \in 0 .. MaxStores /\ sent[d] \in Nat
    <3>1. \A d \in Data : acked[d] \in 0 .. MaxStores /\ sent[d] \in Nat
      <4> TAKE d \in Data
      <4>1. Counted(acked[d], Pending(d), sent[d]) /\ Cardinality(Pending(d)) \in Nat
        BY FS_CardinalityType DEF CountInv, Counted
      <4> QED
        BY <4>1, ClientAssumption DEF Counted
    <3> QED
      BY <3>1 DEF CountInv
  <2>5. known' \in [Clients -> [Data -> 0 .. MaxStores]]
    <3>1. Nothing \in [Data -> 0 .. MaxStores]
      BY ClientAssumption DEF Nothing
    <3> QED
      BY <1>2, <2>4, <3>1 DEF CountInv
  <2>6. \A d \in Data : /\ r = StoreOf(d) => Pending(d)' = Pending(d) \cup {k}
                        /\ r # StoreOf(d) => Pending(d)' = Pending(d)
    <3> TAKE d \in Data
    <3>1. cmd' = [cmd EXCEPT ![k] = r]
      BY <1>2
    <3>2. /\ r = StoreOf(d) => Pending(d)' = Pending(d) \cup {k}
          /\ r # StoreOf(d) => Pending(d)' = Pending(d) \ {k}
      BY <2>2, <3>1, PendingStep
    <3>3. Pending(d) \ {k} = Pending(d)
      BY <2>3
    <3> QED
      BY <3>2, <3>3
  <2>7. \A d \in Data : Counted(acked[d], Pending(d), sent[d])
    BY DEF CountInv
  <2>8. CASE r.kind = "RETRIEVE" /\ now = sent
    <3>1. \A d : r # StoreOf(d)
      BY <2>8 DEF StoreOf
    <3> QED
      BY <1>2, <2>5, <2>6, <2>8, <3>1 DEF CountInv
  <2>9. ASSUME NEW d \in Data, r = StoreOf(d), sent[d] < MaxStores,
               now = [sent EXCEPT ![d] = @ + 1]
        PROVE  CountInv'
    <3>1. \A e : r = StoreOf(e) => e = d
      BY <2>9 DEF StoreOf
    <3>2. Counted(acked[d], Pending(d)', sent[d] + 1)
      BY <2>3, <2>6, <2>7, <2>9, CountSteps
    <3>3. /\ sent'[d] = sent[d] + 1 /\ \A e \in Data \ {d} : sent'[e] = sent[e]
          /\ DOMAIN sent' = Data /\ sent' = [e \in Data |-> sent'[e]]
      BY <1>2, <2>9 DEF CountInv
    <3>4. \A e \in Data : Counted(acked'[e], Pending(e)', sent'[e])
      BY <1>2, <2>6, <2>7, <3>1, <3>2, <3>3
    <3> QED
      BY <1>2, <2>5, <3>3, <3>4 DEF CountInv
  <2> QED
    BY <2>8, <2>9
<1> QED
  BY <1>1, <1>2 DEF ClientSend

\* The answer to a command.
LEMMA CountReceive ==
    ASSUME SysInv, CountInv, NEW k \in Clients, ClientReceive(k)
    PROVE  CountInv'
<1>1. /\ cpc[k] = "await" /\ cmd' = [cmd EXCEPT ![k] = NoCommand]
      /\ known' = [known EXCEPT ![k] = Nothing] /\ sent' = sent
      /\ \/ acked' = acked
         \/ cmd[k].kind = "STORE" /\ acked' = [acked EXCEPT ![cmd[k].data] = @ + 1]
  BY DEF ClientReceive, ClientAt
<1>2. CASE acked' = acked
  BY <1>1, <1>2, CountForgets
<1>3. CASE cmd[k].kind = "STORE" /\ acked' = [acked EXCEPT ![cmd[k].data] = @ + 1]
  <2>1. PICK d : d = cmd[k].data
    OBVIOUS
  <2>2. /\ DOMAIN cmd = Clients /\ d \in Data /\ cmd[k] = StoreOf(d)
        /\ \A e : NoCommand # StoreOf(e)
    <3>1. cmd[k] \in Requests /\ DOMAIN cmd = Clients
      BY <1>1 DEF SysInv, ClientInv
    <3>2. cmd[k] \in [kind : {"STORE"}, data : Data]
      BY <1>3, <3>1 DEF Requests
    <3>3. d \in Data /\ cmd[k] = StoreOf(d)
      BY <2>1, <3>2 DEF StoreOf
    <3> QED
      BY <3>1, <3>3 DEF NoCommand, StoreOf
  <2>3. k \in Pending(d)
    BY <2>2 DEF Pending
  <2>4. \A e \in Data : Pending(e)' = Pending(e) \ {k}
    <3> TAKE e \in Data
    <3>1. cmd' = [cmd EXCEPT ![k] = NoCommand] /\ DOMAIN cmd = Clients
      BY <1>1, <2>2
    <3>2. NoCommand # StoreOf(e)
      BY <2>2
    <3> QED
      BY ONLY <3>1, <3>2, k \in Clients, e \in Data, PendingStep
  <2>5. \A e \in Data : Counted(acked[e], Pending(e), sent[e])
    BY DEF CountInv
  <2>6. /\ acked'[d] = acked[d] + 1 /\ \A e \in Data \ {d} : acked'[e] = acked[e]
        /\ DOMAIN acked' = Data /\ acked' = [e \in Data |-> acked'[e]]
    BY <1>3, <2>1, <2>2 DEF CountInv
  <2>7. \A e \in Data : Counted(acked'[e], Pending(e)', sent'[e])
    <3> TAKE e \in Data
    <3>1. /\ Counted(acked[e], Pending(e)', sent[e])
          /\ k \in Pending(e) => Counted(acked[e] + 1, Pending(e)', sent[e])
      <4>1. Counted(acked[e], Pending(e), sent[e])
        BY <2>5
      <4>2. /\ Counted(acked[e], Pending(e) \ {k}, sent[e])
            /\ k \in Pending(e) => Counted(acked[e] + 1, Pending(e) \ {k}, sent[e])
        BY <4>1, CountSteps
      <4> QED
        BY <2>4, <4>2
    <3> QED
      BY <1>1, <2>3, <2>6, <3>1
  <2>8. known' \in [Clients -> [Data -> 0 .. MaxStores]]
    <3>1. Nothing \in [Data -> 0 .. MaxStores]
      BY ClientAssumption DEF Nothing
    <3> QED
      BY <1>1, <3>1 DEF CountInv
  <2> QED
    BY <1>1, <2>6, <2>7, <2>8 DEF CountInv
<1> QED
  BY <1>1, <1>2, <1>3

\* Every step of the system keeps the counts.
LEMMA NextCountInv == SysInv /\ CountInv /\ [Next]_vars => CountInv'
<1> SUFFICES ASSUME SysInv, CountInv, [Next]_vars PROVE CountInv'
  OBVIOUS
<1>1. CASE UNCHANGED clientvars
  BY <1>1, CountKept DEF clientvars
<1>2. ASSUME NEW k \in Clients, ClientStep(k) \/ UserStep(k)
      PROVE  CountInv'
  <2>1. CASE \E how, cs : ClientDies(k, how, cs)
    BY <2>1, CountDeath
  <2>2. CASE UNCHANGED <<cmd, sent, acked, known>>
    BY <2>2, CountKept
  <2>3. CASE ClientReceive(k)
    BY <2>3, CountReceive
  <2>4. CASE ClientRetrieve(k)
    <3>1. [kind |-> "RETRIEVE"] \in Requests
      BY DEF Requests
    <3> QED
      BY <2>4, <3>1, CountSend DEF ClientRetrieve
  <2>5. ASSUME NEW d \in Data, ClientStore(k, d)
        PROVE  CountInv'
    <3>1. StoreOf(d) \in Requests
      BY DEF Requests, StoreOf
    <3>2. sent[d] < MaxStores /\ ClientSend(k, StoreOf(d), [sent EXCEPT ![d] = @ + 1])
      BY <2>5 DEF ClientStore, StoreOf
    <3> QED
      BY <3>1, <3>2, CountSend
  <2> QED
    BY <1>2, <2>1, <2>2, <2>3, <2>4, <2>5
       DEF ClientStep, UserStep, ClientConnect, ClientSendHello, ClientRecvHello,
           ClientExit
<1>3. ASSUME NEW p \in Procs, Kill(p)
      PROVE  CountInv'
  BY <1>1, <1>3, CountDeath DEF Kill, KillServer, KillRouter, KillClient
<1> QED
  BY <1>1, <1>2, <1>3
     DEF Next, ServerRuns, RouterRuns, ClientRuns, UserActs, Restart, vars

\* Kills are bounded, and starts of the router are counted.
LEMMA NextBoundInv == BoundInv /\ [Next]_vars => BoundInv'
<1> SUFFICES ASSUME BoundInv, [Next]_vars PROVE BoundInv'
  OBVIOUS
<1> USE SystemAssumption DEF BoundInv
<1>1. ASSUME NEW s \in Servers, ServerRuns(s) PROVE BoundInv'
  BY <1>1 DEF ServerRuns, routervars
<1>2. CASE RouterRuns
  <2>1. ASSUME NEW cs, NEW i, NEW r, NEW next, NEW answers,
               SendCommand(cs, i, r, next, answers)
        PROVE  routerStarts' = routerStarts
    BY <2>1 DEF SendCommand, RouterDies, RouterGone
  <2>2. ASSUME NEW cs, NEW body, NEW len, AnswerClient(cs, body, len)
        PROVE  routerStarts' = routerStarts
    BY <2>2 DEF AnswerClient
  <2>3. RouterServe \/ RouterReply => routerStarts' = routerStarts
    BY <2>1, <2>2 DEF RouterServe, RouterReply
  <2>4. routerStarts' = routerStarts
    BY <1>2, <2>3 DEF RouterRuns, RouterStep, RouterConnect, RouterSendHello,
       RouterRecvHello, RouterAccept, RouterHandshake, RouterDies, RouterGone
  <2> QED
    BY <1>2, <2>4 DEF RouterRuns
<1>3. ASSUME NEW k \in Clients, ClientRuns(k) \/ UserActs(k) PROVE BoundInv'
  BY <1>3 DEF ClientRuns, UserActs, routervars
<1>4. ASSUME NEW p \in Procs, Kill(p) PROVE BoundInv'
  BY <1>4 DEF Kill, KillServer, KillRouter, KillClient, RouterDies, RouterGone,
              routervars
<1>5. CASE Restart
  BY <1>5 DEF Restart, RouterStart, routervars
<1>6. CASE UNCHANGED vars
  BY <1>6 DEF vars, routervars
<1> QED
  BY <1>1, <1>2, <1>3, <1>4, <1>5, <1>6 DEF Next

\* The counts to begin with.
LEMMA InitCountInv == Init => CountInv /\ BoundInv
<1> SUFFICES ASSUME Init PROVE CountInv /\ BoundInv
  OBVIOUS
<1>1. \A d \in Data : Pending(d) = {}
  <2>1. \A d : NoCommand # StoreOf(d)
    BY DEF NoCommand, StoreOf
  <2> QED
    BY <2>1 DEF Init, ClientInit, Pending
<1>2. \A d \in Data : Counted(0, Pending(d), 0)
  BY <1>1, FS_EmptySet, ClientAssumption DEF Counted
<1>3. Nothing \in [Data -> 0 .. MaxStores]
  BY ClientAssumption DEF Nothing
<1> QED
  BY <1>2, <1>3, SystemAssumption
     DEF Init, ClientInit, RouterInit, CountInv, BoundInv, Nothing

\* The invariant, the counts and the bounds give the types.
LEMMA InvTypes == SysInv /\ CountInv /\ BoundInv => TypeOK
<1> SUFFICES ASSUME SysInv, CountInv, BoundInv PROVE TypeOK
  OBVIOUS
<1>1. NetTypeOK
  <2>1. ASSUME NEW c \in DOMAIN conns
        PROVE  /\ conns[c].who \in [Ends -> Procs] /\ conns[c].open \in [Ends -> BOOLEAN]
               /\ conns[c].key \in [Ends -> Keys] /\ conns[c].reset \in BOOLEAN
               /\ \E e \in Ends : conns[c].open[e]
    <3>1. IsConn(conns[c]) /\ Coherent(c)
      BY DEF SysInv, ConnInv
    <3>2. conns[c].open["init"] \/ conns[c].open["resp"]
      BY <3>1, PhaseGone DEF SysInv, Coherent, Exchange
    <3> QED
      BY <3>1, <3>2 DEF IsConn, Ends
  <2> QED
    BY <2>1 DEF SysInv, NetInv, QueueInv, NetTypeOK
<1>2. ServerTypeOK
  BY DEF SysInv, ServerInv, ShardInv, Chained, ServerTypeOK
<1>3. RouterTypeOK
  <2>1. request.kind \in {"NONE", "RETRIEVE", "STORE"}
    BY RequestKinds DEF SysInv, RouterInv, NoRequest
  <2>2. Len(replies) < NUM_SERVERS
    <3>1. ri \in Nat /\ ri < NUM_SERVERS /\ NUM_SERVERS \in Nat
      BY NetAssumption DEF SysInv, RouterInv, Servers
    <3>2. Len(replies) \in {0, ri}
      BY DEF SysInv, RouterInv
    <3> QED
      BY <3>1, <3>2
  <2> QED
    BY <2>1, <2>2 DEF SysInv, RouterInv, BoundInv, RouterTypeOK
<1>4. ClientTypeOK
  <2>1. \A c \in Clients : cmd[c].kind \in {"NONE", "RETRIEVE", "STORE"}
    BY RequestKinds DEF SysInv, ClientInv, NoCommand
  <2>2. \A d \in Data : sent[d] \in 0 .. MaxStores /\ acked[d] \in 0 .. MaxStores
    <3> TAKE d \in Data
    <3>1. Counted(acked[d], Pending(d), sent[d]) /\ Cardinality(Pending(d)) \in Nat
      BY FS_CardinalityType DEF CountInv, Counted
    <3> QED
      BY <3>1, ClientAssumption DEF Counted
  <2>3. sent \in [Data -> 0 .. MaxStores] /\ acked \in [Data -> 0 .. MaxStores]
    BY <2>2 DEF CountInv
  <2> QED
    BY <2>1, <2>3 DEF SysInv, ClientInv, CountInv, ClientTypeOK
<1> QED
  BY <1>1, <1>2, <1>3, <1>4 DEF TypeOK, BoundInv

\* Type correctness of the whole system; with it, that no payload is
\* acknowledged more often than it was sent (acked <= sent <= MaxStores).
THEOREM SystemTypes == Spec => []TypeOK
<1>1. Init => CountInv /\ BoundInv
  BY InitCountInv
<1>2. SysInv /\ CountInv /\ [Next]_vars => CountInv'
  BY NextCountInv
<1>3. BoundInv /\ [Next]_vars => BoundInv'
  BY NextBoundInv
<1>4. SysInv /\ CountInv /\ BoundInv => TypeOK
  BY InvTypes
<1> QED
  BY <1>1, <1>2, <1>3, <1>4, SystemInvariant, PTL DEF Spec

-----------------------------------------------------------------------------
(***************************************************************************)
(* Round robin.  While the router was started only once it has one         *)
(* connection to a server, and the blocks of a server together with the    *)
(* store on its way to it are as many as its share of the stores: b + 1    *)
(* for the servers below n, and b for the others.                          *)
(***************************************************************************)
StoreIn(k) ==
    /\ k.inbox["resp"] # << >>
    /\ Head(k.inbox["resp"]).body.kind = "STORE"

StoreWaits(s) ==
    \E c \in DOMAIN conns : conns[c].who["resp"] = s /\ StoreIn(conns[c])

LinkInv ==
    routerStarts = 1 =>
        /\ \A c, d \in DOMAIN conns :
               /\ conns[c].who["init"] = Router /\ conns[d].who["init"] = Router
               /\ conns[c].who["resp"] = conns[d].who["resp"]
               => c = d
        /\ life[Router] = "up" =>
               \A c \in DOMAIN conns :
                   conns[c].who["init"] = Router => conns[c].open["init"]

Share(s, b, n, len, waits) ==
    /\ len + (IF waits THEN 1 ELSE 0) = IF s < n THEN b + 1 ELSE b
    /\ waits => s + 1 = n

RoundInv ==
    routerStarts = 1 =>
        \E b \in Nat, n \in 0 .. NUM_SERVERS :
            /\ life[Router] = "up" =>
                   n = current_server \/ (n = NUM_SERVERS /\ current_server = 0)
            /\ \A s \in Servers \ failed :
                   Share(s, b, n, Len(chain[s]), StoreWaits(s))

StartInv == routerStarts \in Nat \ {0}
BalanceInv == StartInv /\ LinkInv /\ RoundInv

(***************************************************************************)
(* Steps that neither bring a store to a server that is in order, nor take *)
(* one from it, nor add to the connections of the router.                  *)
(***************************************************************************)
Calm ==
    /\ \A c \in DOMAIN conns' \ DOMAIN conns : ~StoreIn(conns'[c])
    /\ \A c \in DOMAIN conns \cap DOMAIN conns' :
           /\ conns'[c].who = conns[c].who
           /\ conns[c].who["resp"] \in Servers \ failed' =>
                  (StoreIn(conns'[c]) <=> StoreIn(conns[c]))
    /\ \A c \in DOMAIN conns \ DOMAIN conns' :
           conns[c].who["resp"] \in Servers \ failed' => ~StoreIn(conns[c])

LinksKept ==
    \A c \in DOMAIN conns' :
        conns'[c].who["init"] = Router =>
            /\ c \in DOMAIN conns /\ conns[c].who = conns'[c].who
            /\ life'[Router] = "up" /\ conns[c].open["init"] => conns'[c].open["init"]

\* After such a step the same stores wait.
LEMMA CalmWaits ==
    ASSUME Calm, NEW s \in Servers \ failed'
    PROVE  StoreWaits(s)' <=> StoreWaits(s)
<1>1. ASSUME NEW c \in DOMAIN conns', conns'[c].who["resp"] = s, StoreIn(conns'[c])
      PROVE  StoreWaits(s)
  <2>1. c \in DOMAIN conns
    BY <1>1 DEF Calm
  <2> QED
    BY <1>1, <2>1 DEF Calm, StoreWaits
<1>2. ASSUME NEW c \in DOMAIN conns, conns[c].who["resp"] = s, StoreIn(conns[c])
      PROVE  \E d \in DOMAIN conns' : conns'[d].who["resp"] = s /\ StoreIn(conns'[d])
  <2>1. c \in DOMAIN conns'
    BY <1>2 DEF Calm
  <2> QED
    BY <1>2, <2>1 DEF Calm
<1>3. StoreWaits(s)' <=>
          \E d \in DOMAIN conns' : conns'[d].who["resp"] = s /\ StoreIn(conns'[d])
  BY DEF StoreWaits, StoreIn
<1> QED
  BY <1>1, <1>2, <1>3 DEF StoreWaits

\* The connections of the router after such a step.
LEMMA LinksStep ==
    ASSUME LinkInv, LinksKept, routerStarts' = routerStarts,
           life'[Router] = "up" => life[Router] = "up"
    PROVE  LinkInv'
  BY DEF LinkInv, LinksKept

\* Shares are kept when neither blocks nor waiting stores change.
LEMMA RoundKept ==
    ASSUME RoundInv, routerStarts' = routerStarts, failed \subseteq failed',
           life'[Router] = "up" =>
               life[Router] = "up" /\ current_server' = current_server,
           \A s \in Servers \ failed' :
               Len(chain'[s]) = Len(chain[s]) /\ (StoreWaits(s)' <=> StoreWaits(s))
    PROVE  RoundInv'
<1> SUFFICES ASSUME routerStarts = 1
             PROVE  \E b \in Nat, n \in 0 .. NUM_SERVERS :
                        /\ life'[Router] = "up" =>
                               n = current_server' \/ (n = NUM_SERVERS /\ current_server' = 0)
                        /\ \A s \in Servers \ failed' :
                               Share(s, b, n, Len(chain'[s]), StoreWaits(s)')
  BY DEF RoundInv
<1>1. PICK b \in Nat, n \in 0 .. NUM_SERVERS :
          /\ life[Router] = "up" =>
                 n = current_server \/ (n = NUM_SERVERS /\ current_server = 0)
          /\ \A s \in Servers \ failed : Share(s, b, n, Len(chain[s]), StoreWaits(s))
  BY DEF RoundInv
<1>2. ASSUME NEW s \in Servers \ failed'
      PROVE  Share(s, b, n, Len(chain'[s]), StoreWaits(s)')
  <2>1. Share(s, b, n, Len(chain[s]), StoreWaits(s))
    BY <1>1
  <2> QED
    BY <2>1 DEF Share
<1> QED
  BY <1>1, <1>2

\* A calm step keeps the balance.
LEMMA CalmStep ==
    ASSUME BalanceInv, Calm, LinksKept, routerStarts' = routerStarts,
           failed \subseteq failed',
           life'[Router] = "up" =>
               life[Router] = "up" /\ current_server' = current_server,
           \A s \in Servers \ failed' : Len(chain'[s]) = Len(chain[s])
    PROVE  BalanceInv'
<1>1. StartInv'
  BY DEF BalanceInv, StartInv
<1>2. LinkInv'
  BY LinksStep DEF BalanceInv
<1>3. \A s \in Servers \ failed' : StoreWaits(s)' <=> StoreWaits(s)
  BY CalmWaits
<1>4. RoundInv'
  BY <1>3, RoundKept DEF BalanceInv
<1> QED
  BY <1>1, <1>2, <1>4 DEF BalanceInv

\* Sending and receiving is calm if it brings and takes no store.
LEMMA CalmTalk ==
    ASSUME SameEnds(conns, conns'),
           \A d \in DOMAIN conns :
               conns[d].who["resp"] \in Servers =>
                   (StoreIn(conns'[d]) <=> StoreIn(conns[d]))
    PROVE  Calm /\ LinksKept
  BY DEF SameEnds, Calm, LinksKept

\* The same for a change of one connection.
LEMMA CalmAt ==
    ASSUME SysInv, NEW c \in DOMAIN conns, OnlyAt(conns, conns', c),
           conns[c].who["resp"] \in Servers =>
               (StoreIn(conns'[c]) <=> StoreIn(conns[c]))
    PROVE  Calm /\ LinksKept
<1>1. \A d \in DOMAIN conns : IsConn(conns[d])
  BY DEF SysInv, ConnInv
<1>2. SameEnds(conns, conns')
  BY <1>1, SameEndsStep
<1>3. \A d \in DOMAIN conns \ {c} : conns'[d] = conns[d]
  BY DEF OnlyAt
<1> QED
  BY <1>2, <1>3, CalmTalk

\* A step that does nothing to any connection is calm.
LEMMA CalmSame ==
    ASSUME SysInv, conns' = conns
    PROVE  Calm /\ LinksKept
  BY SameEndsSelf, CalmTalk

\* A hello is not a store.
LEMMA HelloIsNoStore ==
    ASSUME NEW k, k.inbox["resp"] \in {<< >>, <<ClientHello>>}
    PROVE  ~StoreIn(k)
<1>1. Head(<<ClientHello>>) = ClientHello /\ ClientHello.body.kind = "HELLO"
  BY DEF ClientHello, Hello
<1> QED
  BY <1>1 DEF StoreIn

\* The connections of a server that is in order are the router's.
LEMMA ServedByRouter ==
    ASSUME SysInv, NEW c \in DOMAIN conns, conns[c].who["resp"] \in Servers
    PROVE  conns[c].who["init"] = Router
<1>1. <<conns[c].who["init"], conns[c].who["resp"]>> \in Links
  BY DEF SysInv, ConnInv, IsConn
<1>2. conns[c].who["resp"] # Router
  BY NetAssumption DEF Servers
<1> QED
  BY <1>1, <1>2, LinkEnds

\* The number of blocks of a server.
LEMMA ChainLen ==
    ASSUME SysInv, NEW s \in Servers
    PROVE  chain[s] \in Seq(Block) /\ Len(chain[s]) \in Nat
<1>1. chain[s] \in Seq(Block)
  BY DEF SysInv, ShardInv, Chained
<1> QED
  BY <1>1

\* Server s stores what waits for it on connection c.
LEMMA StoreLands ==
    ASSUME SysInv, BalanceInv, NEW s \in Servers, NEW c \in DOMAIN conns,
           conns[c].who["resp"] = s, StoreIn(conns[c]),
           OnlyAt(conns, conns', c), ~StoreIn(conns'[c]),
           Len(chain'[s]) = Len(chain[s]) + 1,
           \A t \in Servers \ {s} : chain'[t] = chain[t],
           UNCHANGED <<life, failed, current_server, routerStarts>>
    PROVE  BalanceInv'
<1>1. SameEnds(conns, conns')
  <2>1. \A d \in DOMAIN conns : IsConn(conns[d])
    BY DEF SysInv, ConnInv
  <2> QED
    BY <2>1, SameEndsStep
<1>2. StartInv' /\ LinkInv'
  <2>1. LinksKept
    BY <1>1 DEF SameEnds, LinksKept
  <2> QED
    BY <2>1, LinksStep DEF BalanceInv, StartInv
<1>3. DOMAIN conns' = DOMAIN conns /\ \A d \in DOMAIN conns : conns'[d].who = conns[d].who
  BY <1>1 DEF SameEnds
<1>4. \A d \in DOMAIN conns \ {c} : conns'[d] = conns[d]
  BY DEF OnlyAt
<1>5. \A t : StoreWaits(t)' <=>
                 \E d \in DOMAIN conns' : conns'[d].who["resp"] = t /\ StoreIn(conns'[d])
  BY DEF StoreWaits, StoreIn
<1>6. \A t \in Servers \ {s} : StoreWaits(t)' <=> StoreWaits(t)
  <2> TAKE t \in Servers \ {s}
  <2>1. \A d \in DOMAIN conns : conns[d].who["resp"] = t => d # c
    OBVIOUS
  <2> QED
    BY <1>3, <1>4, <1>5, <2>1 DEF StoreWaits
<1>7. RoundInv'
  <2> SUFFICES ASSUME routerStarts = 1
               PROVE  \E b \in Nat, n \in 0 .. NUM_SERVERS :
                          /\ life'[Router] = "up" =>
                                 n = current_server' \/ (n = NUM_SERVERS /\ current_server' = 0)
                          /\ \A t \in Servers \ failed' :
                                 Share(t, b, n, Len(chain'[t]), StoreWaits(t)')
    BY DEF RoundInv
  <2>1. PICK b \in Nat, n \in 0 .. NUM_SERVERS :
            /\ life[Router] = "up" =>
                   n = current_server \/ (n = NUM_SERVERS /\ current_server = 0)
            /\ \A t \in Servers \ failed : Share(t, b, n, Len(chain[t]), StoreWaits(t))
    BY DEF RoundInv, BalanceInv
  <2>2. ASSUME NEW t \in Servers \ failed
        PROVE  Share(t, b, n, Len(chain'[t]), StoreWaits(t)')
    <3>1. Share(t, b, n, Len(chain[t]), StoreWaits(t))
      BY <2>1
    <3>2. CASE t # s
      <4>1. chain'[t] = chain[t] /\ (StoreWaits(t)' <=> StoreWaits(t))
        BY <1>6, <3>2
      <4> QED
        BY <3>1, <4>1 DEF Share
    <3>3. CASE t = s
      <4>1. StoreWaits(s)
        BY DEF StoreWaits
      <4>2. ~StoreWaits(s)'
        <5> SUFFICES ASSUME NEW d \in DOMAIN conns', conns'[d].who["resp"] = s,
                            StoreIn(conns'[d])
                     PROVE  FALSE
          BY <1>5
        <5>1. d \in DOMAIN conns /\ conns[d].who["resp"] = s
          BY <1>3
        <5>2. conns[d].who["init"] = Router /\ conns[c].who["init"] = Router
          BY <5>1, ServedByRouter
        <5>3. d = c
          BY <5>1, <5>2 DEF BalanceInv, LinkInv
        <5> QED
          BY <5>3
      <4>3. Len(chain[s]) \in Nat
        BY ChainLen
      <4>4. /\ Len(chain[s]) + 1 = (IF s < n THEN b + 1 ELSE b)
        BY <3>1, <3>3, <4>1 DEF Share
      <4>5. Len(chain'[s]) + 0 = (IF s < n THEN b + 1 ELSE b)
        BY <4>3, <4>4
      <4> QED
        BY <3>3, <4>2, <4>5 DEF Share
    <3> QED
      BY <3>2, <3>3
  <2> QED
    BY <2>1, <2>2
<1> QED
  BY <1>2, <1>7 DEF BalanceInv

\* The end of process p is calm, with its connections as they are in cs.
LEMMA CalmDeath ==
    ASSUME SysInv, NEW p \in Procs, NEW cs, SameEnds(conns, cs),
           \A d \in DOMAIN conns :
               conns[d].who["resp"] \in Servers =>
                   (StoreIn(cs[d]) <=> StoreIn(conns[d])),
           conns' = Orphaned(cs, p), p \in Servers => p \in failed',
           life'[Router] = "up" => p # Router
    PROVE  Calm /\ LinksKept
<1>1. \A d \in DOMAIN cs : IsConn(cs[d])
  BY DEF SameEnds
<1>2. /\ DOMAIN conns' \subseteq DOMAIN cs
      /\ \A d \in DOMAIN cs, e \in Ends :
             cs[d].open[e] /\ cs[d].who[e] # p => d \in DOMAIN conns'
      /\ \A d \in DOMAIN conns' :
             \/ conns'[d] = cs[d] /\ \A e \in Ends : ~Has(p, cs[d], e)
             \/ \E e \in Ends :
                   /\ Has(p, cs[d], e) /\ cs[d].open[Other(e)]
                   /\ ShutAt(cs[d], conns'[d], e, d \in Queue(p))
  BY <1>1, OrphanedEffect
<1>3. /\ DOMAIN cs = DOMAIN conns
      /\ \A d \in DOMAIN conns : cs[d].who = conns[d].who /\ cs[d].open = conns[d].open
  BY DEF SameEnds
<1>4. ASSUME NEW d \in DOMAIN conns'
      PROVE  /\ conns'[d].who = conns[d].who
             /\ conns[d].who["resp"] \in Servers \ failed' =>
                    (StoreIn(conns'[d]) <=> StoreIn(conns[d]))
             /\ conns[d].who["init"] = Router /\ life'[Router] = "up"
                /\ conns[d].open["init"] => conns'[d].open["init"]
  <2>1. d \in DOMAIN conns /\ cs[d].who = conns[d].who /\ cs[d].open = conns[d].open
    BY <1>2, <1>3
  <2>2. CASE conns'[d] = cs[d]
    BY <2>1, <2>2
  <2>3. ASSUME NEW e \in Ends, Has(p, cs[d], e),
               ShutAt(cs[d], conns'[d], e, d \in Queue(p))
        PROVE  /\ conns'[d].who = conns[d].who
               /\ conns[d].who["resp"] \in Servers \ failed' =>
                      (StoreIn(conns'[d]) <=> StoreIn(conns[d]))
               /\ conns[d].who["init"] = Router /\ life'[Router] = "up"
                  /\ conns[d].open["init"] => conns'[d].open["init"]
    <3>1. conns'[d].who = cs[d].who /\ conns[d].who[e] = p
      BY <2>1, <2>3 DEF ShutAt, Has
    <3>2. CASE e = "resp"
      <4>1. conns'[d].open["init"] = cs[d].open["init"]
        BY <2>3, <3>2, EndsOf DEF ShutAt
      <4> QED
        BY <2>1, <3>1, <3>2, <4>1
    <3>3. CASE e = "init"
      <4>1. conns'[d].inbox["resp"] = cs[d].inbox["resp"]
        BY <2>3, <3>3, EndsOf DEF ShutAt
      <4>2. StoreIn(conns'[d]) <=> StoreIn(cs[d])
        BY <4>1 DEF StoreIn
      <4> QED
        BY <2>1, <3>1, <3>3, <4>2
    <3> QED
      BY <3>2, <3>3, EndsOf
  <2> QED
    BY <1>2, <2>2, <2>3
<1>5. ASSUME NEW d \in DOMAIN conns \ DOMAIN conns',
             conns[d].who["resp"] \in Servers \ failed'
      PROVE  ~StoreIn(conns[d])
  <2>1. IsConn(conns[d]) /\ Coherent(d)
    BY DEF SysInv, ConnInv
  <2>2. conns[d].who["resp"] # p
    BY <1>5
  <2>3. ~conns[d].open["resp"]
    BY <1>2, <1>3, <2>2, EndsOf
  <2>4. RespPhase(d) = "gone"
    BY <2>3 DEF RespPhase
  <2>5. conns[d].inbox["resp"] = << >>
    BY <2>1, <2>4 DEF Coherent, Exchange, Deserted
  <2> QED
    BY <2>5 DEF StoreIn
<1>6. DOMAIN conns' \subseteq DOMAIN conns
  BY <1>2, <1>3
<1>7. Calm
  BY <1>4, <1>5, <1>6 DEF Calm
<1>8. LinksKept
  BY <1>4, <1>6 DEF LinksKept
<1> QED
  BY <1>7, <1>8

\* A recv of p, other than of a server, takes no store from a server.
LEMMA RecvKeepsStores ==
    ASSUME SysInv, NEW p, p \notin Servers, NEW cs, AfterRecv(p, cs)
    PROVE  /\ SameEnds(conns, cs)
           /\ \A d \in DOMAIN conns :
                  conns[d].who["resp"] \in Servers =>
                      (StoreIn(cs[d]) <=> StoreIn(conns[d]))
<1>1. /\ SameEnds(conns, cs)
      /\ \A d \in DOMAIN conns :
             \/ cs[d] = conns[d]
             \/ \E e \in Ends : Has(p, conns[d], e) /\ TakenAt(conns[d], cs[d], e)
  BY AfterRecvEffect
<1>2. ASSUME NEW d \in DOMAIN conns, conns[d].who["resp"] \in Servers
      PROVE  StoreIn(cs[d]) <=> StoreIn(conns[d])
  <2>1. CASE cs[d] = conns[d]
    BY <2>1
  <2>2. ASSUME NEW e \in Ends, Has(p, conns[d], e), TakenAt(conns[d], cs[d], e)
        PROVE  StoreIn(cs[d]) <=> StoreIn(conns[d])
    <3>1. e = "init"
      BY <1>2, <2>2, EndsOf DEF Has
    <3>2. cs[d].inbox["resp"] = conns[d].inbox["resp"]
      BY <2>2, <3>1, EndsOf DEF TakenAt
    <3> QED
      BY <3>2 DEF StoreIn
  <2> QED
    BY <1>1, <2>1, <2>2
<1> QED
  BY <1>1, <1>2

-----------------------------------------------------------------------------
\* A server ends, and its blocks are lost with it.
LEMMA ServerDeathBalance ==
    ASSUME SysInv, BalanceInv, NEW s \in Servers,
           NEW how, how \notin {"exit", "refused", "up"}, End(s, how, conns),
           ServerGone(s), UNCHANGED routervars
    PROVE  BalanceInv'
<1>1. UNCHANGED <<current_server, routerStarts>>
  BY DEF routervars
<1>2. s # Router /\ s \in Procs /\ Router \in Procs
  BY NetAssumption DEF Servers, Procs
<1>3. /\ life' = [life EXCEPT ![s] = how] /\ failed' = failed \cup {s}
      /\ conns' = Orphaned(conns, s) /\ chain' = [chain EXCEPT ![s] = << >>]
  BY DEF End, ServerGone
<1>4. life'[Router] = life[Router] /\ life \in [Procs -> Lives]
  BY <1>2, <1>3 DEF SysInv, NetInv
<1>5. Calm /\ LinksKept
  BY <1>2, <1>3, SameEndsSelf, CalmDeath
<1>6. \A t \in Servers \ failed' : chain'[t] = chain[t]
  BY <1>3 DEF SysInv, ShardInv
<1> QED
  BY <1>1, <1>3, <1>4, <1>5, <1>6, CalmStep

\* A step of a server keeps the balance, if malloc does not fail in it.
LEMMA ServerBalance ==
    ASSUME SysInv, BalanceInv, NEW s \in Servers, ServerStep(s),
           allocFails' = 0, UNCHANGED routervars
    PROVE  BalanceInv'
<1>1. UNCHANGED <<current_server, routerStarts>>
  BY DEF routervars
<1>2. s # Router /\ s \in Procs /\ Router \in Procs
  BY NetAssumption DEF Servers, Procs
<1>3. \A d \in DOMAIN conns : IsConn(conns[d])
  BY DEF SysInv, ConnInv
<1>4. PICK c : c = ssock[s]
  OBVIOUS
<1>5. spc[s] # "accept" =>
          /\ c \in DOMAIN conns /\ Coherent(c) /\ conns[c].who["init"] = Router
          /\ conns[c].who["resp"] = s /\ RespPhase(c) = spc[s]
          /\ InitPhase(c) = "gone" <=> ~conns[c].open["init"]
          /\ Exchange(InitPhase(c), spc[s], conns[c], Wanted(Router), request, failed)
  <2> SUFFICES ASSUME spc[s] # "accept"
               PROVE  /\ c \in DOMAIN conns /\ Coherent(c)
                      /\ conns[c].who["init"] = Router
                      /\ conns[c].who["resp"] = s /\ RespPhase(c) = spc[s]
                      /\ InitPhase(c) = "gone" <=> ~conns[c].open["init"]
                      /\ Exchange(InitPhase(c), spc[s], conns[c], Wanted(Router),
                                  request, failed)
    OBVIOUS
  <2>1. ssock[s] # NoConn
    BY DEF SysInv, ServerInv
  <2>2. /\ c \in DOMAIN conns /\ IsConn(conns[c]) /\ Coherent(c)
        /\ conns[c].who["init"] = Router
        /\ conns[c].who["resp"] = s /\ RespPhase(c) = spc[s]
    BY <1>4, <2>1, AtServer
  <2>3. InitPhase(c) = "gone" <=> ~conns[c].open["init"]
    BY <2>2, PhaseGone DEF SysInv
  <2> QED
    BY <2>2, <2>3 DEF Coherent
<1>6. ASSUME OnlyAt(conns, conns', c), c \in DOMAIN conns,
             StoreIn(conns'[c]) <=> StoreIn(conns[c]),
             UNCHANGED <<life, failed>>,
             \A t \in Servers : Len(chain'[t]) = Len(chain[t])
      PROVE  BalanceInv'
  <2>1. Calm /\ LinksKept
    BY <1>6, CalmAt
  <2> QED
    BY <1>1, <1>6, <2>1, CalmStep
<1>7. ASSUME NEW how, how \notin {"exit", "refused", "up"}, End(s, how, conns),
             ServerGone(s)
      PROVE  BalanceInv'
  BY <1>7, ServerDeathBalance
<1>8. CASE ServerAccept(s)
  <2>1. UNCHANGED <<conns, life, failed, chain>>
    BY <1>8 DEF ServerAccept, Accept
  <2>2. Calm /\ LinksKept
    BY <2>1, CalmSame
  <2> QED
    BY <1>1, <2>1, <2>2, CalmStep
<1>9. CASE ServerHandshake(s)
  <2>1. spc[s] = "client_hello" /\ CanRecv(c, "resp")
    BY <1>4, <1>9 DEF ServerHandshake
  <2>2. ASSUME NEW key \in ResponderKeys(c), Communicate(Answered(c, key)),
               UNCHANGED chain
        PROVE  BalanceInv'
    <3>1. Exchange(InitPhase(c), "client_hello", conns[c], Wanted(Router), request, failed)
      BY <1>5, <2>1
    <3>2. OnlyAt(conns, Answered(c, key), c) /\ Answered(c, key)[c].inbox["resp"] = << >>
      BY <1>3, <1>5, <2>1, <2>2, <3>1, AnsweredEffect
    <3>3. conns' = Answered(c, key) /\ UNCHANGED <<life, failed>>
      BY <2>2 DEF Communicate
    <3>4. conns[c].inbox["resp"] \in {<< >>, <<ClientHello>>}
      BY <3>1 DEF Exchange, Talking, Left
    <3>5. ~StoreIn(conns[c]) /\ ~StoreIn(conns'[c])
      BY <3>2, <3>3, <3>4, HelloIsNoStore
    <3> QED
      BY <1>5, <1>6, <2>1, <2>2, <3>2, <3>3, <3>5
  <2>3. CASE End(s, "ub", conns) /\ ServerGone(s)
    BY <1>7, <2>3
  <2> QED
    BY <1>4, <1>9, <2>2, <2>3 DEF ServerHandshake
<1>10. CASE ServerServe(s)
  <2>1. spc[s] = "serve" /\ CanRecv(c, "resp")
    BY <1>4, <1>10 DEF ServerServe
  <2>2. Exchange(InitPhase(c), "serve", conns[c], Wanted(Router), request, failed)
        /\ c \in DOMAIN conns
    BY <1>5, <2>1
  <2>3. CASE Readable(c, "resp")
    <3>1. PICK r : r = Received(c, "resp").body
      OBVIOUS
    <3>2. /\ conns[c].inbox["resp"] # << >> /\ r \in Requests
          /\ InitPhase(c) = "await" => r = Wanted(Router)
      BY <1>4, <2>1, <2>3, <3>1, ServerRequest
    <3>3. StoreIn(conns[c]) <=> r.kind = "STORE"
      BY <3>1, <3>2 DEF StoreIn, Received
    <3>4. ASSUME NEW reply, ReplyLen(reply) \in Nat, ReplyLen(reply) <= ListMax,
                 InitPhase(c) = "await" => IsAnswer(Router, Wanted(Router), reply),
                 Communicate(Responded(s, reply))
          PROVE  /\ OnlyAt(conns, conns', c) /\ UNCHANGED <<life, failed>>
                 /\ ~StoreIn(conns'[c])
      <4>1. IsConn(conns[c]) /\ conns[c].who["init"] = Router
            /\ (InitPhase(c) = "gone" <=> ~conns[c].open["init"])
        BY <1>3, <1>5, <2>1
      <4>2. /\ OnlyAt(conns, Responded(s, reply), c)
            /\ Responded(s, reply)[c].inbox["resp"] = << >>
        BY <1>4, <2>2, <3>2, <3>4, <4>1, RespondedEffect
      <4> QED
        BY <3>4, <4>2, HelloIsNoStore DEF Communicate
    <3>5. CASE r.kind = "RETRIEVE" /\ ServerRetrieve(s)
      <4>1. PICK reply : reply = RetrieveReply(chain[s])
        OBVIOUS
      <4>2. /\ ReplyLen(reply) \in Nat /\ ReplyLen(reply) <= ListMax
            /\ IsAnswer(Router, r, reply)
        BY <3>5, <4>1, RetrieveAnswers
      <4>3. Communicate(Responded(s, reply)) /\ chain' = [chain EXCEPT ![s] = Validated(@)]
        BY <3>5, <4>1 DEF ServerRetrieve
      <4>4. OnlyAt(conns, conns', c) /\ UNCHANGED <<life, failed>> /\ ~StoreIn(conns'[c])
        BY <3>2, <3>4, <4>2, <4>3
      <4>5. \A t \in Servers : Len(chain'[t]) = Len(chain[t])
        <5>1. \A t \in Servers : chain'[t] = IF t = s THEN Validated(chain[s]) ELSE chain[t]
          BY <4>3 DEF SysInv, ShardInv
        <5>2. Len(Validated(chain[s])) = Len(chain[s])
          BY ChainLen, ValidatedKeeps
        <5> QED
          BY <5>1, <5>2
      <4>6. ~StoreIn(conns[c])
        BY <3>3, <3>5
      <4> QED
        BY <1>6, <2>2, <4>4, <4>5, <4>6
    <3>6. CASE r.kind = "STORE" /\ ServerStore(s, r.data)
      <4>1. PICK reply : reply = Reply("DATA_STORED", << >>)
        OBVIOUS
      <4>2. reply.kind = "DATA_STORED"
        BY <4>1 DEF Reply
      <4>3. ReplyLen(reply) \in Nat /\ ReplyLen(reply) <= ListMax
        BY <4>2, Lengths
      <4>4. InitPhase(c) = "await" => IsAnswer(Router, Wanted(Router), reply)
        BY <3>2, <3>6, <4>2 DEF IsAnswer
      <4>5. Communicate(Responded(s, reply))
        BY <3>6, <4>1 DEF ServerStore
      <4>6. OnlyAt(conns, conns', c) /\ UNCHANGED <<life, failed>> /\ ~StoreIn(conns'[c])
        BY <3>4, <4>3, <4>4, <4>5
      <4>7. chain' = [chain EXCEPT ![s] = StoreData(@, r.data)]
        <5>1. allocFails \in Nat
          BY ServerAssumption DEF SysInv, ShardInv
        <5> QED
          BY <3>6, <5>1 DEF ServerStore
      <4>8. \A t \in Servers :
                chain'[t] = IF t = s THEN StoreData(chain[s], r.data) ELSE chain[t]
        BY <4>7 DEF SysInv, ShardInv
      <4>9. r.data \in Data
        BY <3>2, <3>6 DEF Requests
      <4>10. Len(StoreData(chain[s], r.data)) = Len(chain[s]) + 1
        BY <4>9, ChainLen, StoreKeeps
      <4>11. StoreIn(conns[c]) /\ conns[c].who["resp"] = s
        BY <1>5, <2>1, <3>3, <3>6
      <4> QED
        BY <1>1, <2>2, <4>6, <4>8, <4>10, <4>11, StoreLands
    <3> QED
      BY <1>4, <1>10, <2>3, <3>1, <3>5, <3>6 DEF ServerServe
  <2>4. CASE ~Readable(c, "resp")
    <3>1. conns[c].inbox["resp"] = << >>
      BY <2>2, <2>4, ExchangeOver DEF Readable, AtEnd, Received
    <3>2. Taken(c, "resp") = conns /\ ~conns[c].open["init"]
      BY <2>1, <3>1, EndsOf DEF Taken, AtEnd, CanRecv
    <3>3. conns' = [d \in DOMAIN conns \ {c} |-> conns[d]]
          /\ UNCHANGED <<life, failed, chain>>
      BY <1>4, <1>10, <2>4, <3>2, EndsOf DEF ServerServe, Communicate, Closed
    <3>4. DOMAIN conns' = DOMAIN conns \ {c}
          /\ \A d \in DOMAIN conns' : conns'[d] = conns[d]
      BY <3>3
    <3>5. ~StoreIn(conns[c])
      BY <3>1, HelloIsNoStore
    <3>6. Calm /\ LinksKept
      BY <3>4, <3>5 DEF Calm, LinksKept
    <3> QED
      BY <1>1, <3>3, <3>6, CalmStep
  <2> QED
    BY <2>3, <2>4
<1> QED
  BY <1>8, <1>9, <1>10 DEF ServerStep

\* A step on a connection to the router is calm, also one that closes it.
LEMMA CalmElsewhere ==
    ASSUME SysInv, NEW c \in DOMAIN conns, conns[c].who["resp"] = Router,
           DOMAIN conns' \subseteq DOMAIN conns,
           \A d \in DOMAIN conns \ {c} : d \in DOMAIN conns' /\ conns'[d] = conns[d],
           c \in DOMAIN conns' => conns'[c].who = conns[c].who
    PROVE  Calm /\ LinksKept
<1>1. <<conns[c].who["init"], Router>> \in Links /\ Router \notin Servers
  BY NetAssumption DEF SysInv, ConnInv, IsConn, Servers
<1>2. conns[c].who["init"] # Router
  BY <1>1, LinkEnds
<1> QED
  BY <1>1, <1>2 DEF Calm, LinksKept

\* A step of a client, or of its user, keeps the balance.
LEMMA ClientBalance ==
    ASSUME SysInv, BalanceInv, NEW k \in Clients, ClientStep(k) \/ UserStep(k),
           UNCHANGED <<servervars, routervars>>
    PROVE  BalanceInv'
<1>1. UNCHANGED <<current_server, routerStarts, chain>>
  BY DEF routervars, servervars
<1>2. k # Router /\ k \in Procs /\ k \notin Servers /\ Router \in Procs
      /\ <<k, Router>> \in Links /\ life \in [Procs -> Lives]
  BY NetAssumption DEF Servers, Procs, SysInv, NetInv, Links
<1>3. \A d \in DOMAIN conns : IsConn(conns[d])
  BY DEF SysInv, ConnInv
<1>4. PICK c : c = sockfd[k]
  OBVIOUS
<1>5. /\ c # NoConn =>
             /\ c \in DOMAIN conns /\ conns[c].who["resp"] = Router
             /\ Has(k, conns[c], "init")
             /\ RespPhase(c) = "gone" <=> ~conns[c].open["resp"]
             /\ Exchange(cpc[k], RespPhase(c), conns[c], cmd[k], request, failed)
      /\ cpc[k] \in {"connected", "server_hello", "await"} => c # NoConn
  <2>1. cpc[k] \in {"connected", "server_hello", "await"} => c # NoConn
    BY <1>4 DEF SysInv, ClientInv
  <2> QED
    BY <1>4, <2>1, AtClient, ClientConn
<1>6. ASSUME c \in DOMAIN conns, conns[c].who["resp"] = Router,
             DOMAIN conns' \subseteq DOMAIN conns,
             \A d \in DOMAIN conns \ {c} : d \in DOMAIN conns' /\ conns'[d] = conns[d],
             c \in DOMAIN conns' => conns'[c].who = conns[c].who,
             UNCHANGED <<life, failed>>
      PROVE  BalanceInv'
  <2>1. Calm /\ LinksKept
    BY <1>6, CalmElsewhere
  <2> QED
    BY <1>1, <1>6, <2>1, CalmStep
<1>7. ASSUME c # NoConn, OnlyAt(conns, conns', c), UNCHANGED <<life, failed>>
      PROVE  BalanceInv'
  BY <1>5, <1>6, <1>7 DEF OnlyAt
<1>8. ASSUME NEW how, NEW cs, ClientDies(k, how, cs), SameEnds(conns, cs),
             \A d \in DOMAIN conns :
                 conns[d].who["resp"] \in Servers =>
                     (StoreIn(cs[d]) <=> StoreIn(conns[d]))
      PROVE  BalanceInv'
  <2>1. /\ life' = [life EXCEPT ![k] = how] /\ failed \subseteq failed'
        /\ conns' = Orphaned(cs, k)
    BY <1>8 DEF ClientDies, End
  <2>2. life'[Router] = life[Router]
    BY <1>2, <2>1
  <2>3. Calm /\ LinksKept
    BY <1>2, <1>8, <2>1, CalmDeath
  <2> QED
    BY <1>1, <2>1, <2>2, <2>3, CalmStep
<1>9. ASSUME NEW how, NEW cs, AfterRecv(k, cs), ClientDies(k, how, cs)
      PROVE  BalanceInv'
  BY <1>2, <1>8, <1>9, RecvKeepsStores
<1>10. AfterRecv(k, conns)
  BY DEF AfterRecv
<1>11. ASSUME NEW packet, c # NoConn
       PROVE  OnlyAt(conns, Sent(conns, c, "init", packet), c)
  BY <1>3, <1>5, <1>11, SentEffect DEF Ends
<1>12. c # NoConn => OnlyAt(conns, Taken(c, "init"), c) /\ AfterRecv(k, Taken(c, "init"))
  <2> SUFFICES ASSUME c # NoConn
               PROVE  OnlyAt(conns, Taken(c, "init"), c) /\ AfterRecv(k, Taken(c, "init"))
    OBVIOUS
  <2>1. OnlyAt(conns, Taken(c, "init"), c)
    BY <1>3, <1>5, TakenEffect DEF Ends
  <2> QED
    BY <1>5, <2>1 DEF AfterRecv, Ends
<1>13. CASE ClientSendHello(k)
  <2>1. c # NoConn
    BY <1>5, <1>13 DEF ClientSendHello, ClientAt
  <2>2. CASE Communicate(Sent(conns, c, "init", ClientHello))
    BY <1>7, <1>11, <2>1, <2>2 DEF Communicate
  <2> QED
    BY <1>4, <1>9, <1>10, <1>13, <2>2 DEF ClientSendHello
<1>14. CASE ClientRecvHello(k)
  <2>1. c # NoConn /\ cpc[k] = "server_hello" /\ CanRecv(c, "init")
    BY <1>4, <1>5, <1>14 DEF ClientRecvHello, ClientAt
  <2>2. CASE HelloUsable(c) /\ Communicate(HelloReceived(c))
    <3>1. OnlyAt(conns, HelloReceived(c), c)
      BY <1>3, <1>5, <2>1, <2>2, HelloReceivedEffect
    <3> QED
      BY <1>7, <2>1, <2>2, <3>1 DEF Communicate
  <2>3. CASE ClientDies(k, "segv", Taken(c, "init"))
    BY <1>9, <1>12, <2>1, <2>3
  <2> QED
    BY <1>4, <1>14, <2>2, <2>3 DEF ClientRecvHello
<1>15. CASE ClientReceive(k)
  <2>1. c # NoConn
    BY <1>5, <1>15 DEF ClientReceive, ClientAt
  <2>2. PICK cs : cs = Taken(c, "init")
    OBVIOUS
  <2>3. OnlyAt(conns, cs, c)
    BY <1>12, <2>1, <2>2
  <2>4. CASE Communicate(cs)
    BY <1>7, <2>1, <2>3, <2>4 DEF Communicate
  <2>5. CASE Communicate(Closed(cs, c, "init"))
    <3>1. /\ c \in DOMAIN cs /\ IsConn(cs[c]) /\ "init" \in Ends
      BY <1>5, <2>1, <2>3 DEF OnlyAt, Ends
    <3>2. PICK r : r = Closed(cs, c, "init")
      OBVIOUS
    <3>3. /\ \A d \in DOMAIN cs \ {c} : d \in DOMAIN r /\ r[d] = cs[d]
          /\ DOMAIN r \subseteq DOMAIN cs
          /\ c \in DOMAIN r => r[c].who = cs[c].who
      BY ONLY <3>1, <3>2, ClosedEffect DEF ShutAt
    <3>4. conns' = r /\ UNCHANGED <<life, failed>>
      BY <2>5, <3>2 DEF Communicate
    <3> QED
      BY <1>5, <1>6, <2>1, <2>3, <3>3, <3>4 DEF OnlyAt
  <2> QED
    BY <1>4, <1>15, <2>2, <2>4, <2>5 DEF ClientReceive
<1>16. ASSUME NEW r, NEW sentNow, ClientSend(k, r, sentNow)
       PROVE  BalanceInv'
  <2>1. c # NoConn
    BY <1>4, <1>16 DEF ClientSend
  <2>2. CASE Communicate(Sent(conns, c, "init", RequestPacket(k, r)))
    BY <1>7, <1>11, <2>1, <2>2 DEF Communicate
  <2> QED
    BY <1>4, <1>9, <1>10, <1>16, <2>2 DEF ClientSend
<1>17. CASE ClientExit(k)
  <2>1. ASSUME NEW p, c # NoConn, ClientDies(k, "exit", Sent(conns, c, "init", p))
        PROVE  BalanceInv'
    <3>1. PICK cs : cs = Sent(conns, c, "init", p)
      OBVIOUS
    <3>2. OnlyAt(conns, cs, c)
      BY <1>11, <2>1, <3>1
    <3>3. SameEnds(conns, cs)
      BY <1>3, <1>5, <2>1, <3>2, SameEndsStep
    <3>4. ASSUME NEW d \in DOMAIN conns, conns[d].who["resp"] \in Servers
          PROVE  cs[d] = conns[d]
      <4>1. Router \notin Servers
        BY NetAssumption DEF Servers
      <4> QED
        BY <1>5, <2>1, <3>2, <3>4, <4>1 DEF OnlyAt
    <3> QED
      BY <1>8, <2>1, <3>1, <3>3, <3>4
  <2> QED
    BY <1>4, <1>9, <1>10, <1>17, <2>1 DEF ClientExit
<1>18. CASE ClientConnect(k)
  <2>1. CASE /\ FreeConns # {} /\ conns' = Connected(k, Router)
             /\ life' = [life EXCEPT ![k] = "up"] /\ UNCHANGED failed
    <3>1. PICK n : n = FreshConn
      OBVIOUS
    <3>2. /\ n \notin DOMAIN conns /\ DOMAIN conns' = DOMAIN conns \cup {n}
          /\ \A d \in DOMAIN conns : conns'[d] = conns[d]
          /\ conns'[n].who["init"] = k /\ conns'[n].inbox["resp"] = << >>
      <4>1. <<k, Router>> \in Links /\ FreeConns # {} /\ conns' = Connected(k, Router)
        BY <1>2, <2>1
      <4>2. Added(k, Router, n)
        BY ONLY <3>1, <4>1, NewConn
      <4> QED
        BY <4>2 DEF Added
    <3>3. ~StoreIn(conns'[n])
      BY <3>2, HelloIsNoStore
    <3>4. Calm /\ LinksKept
      BY <1>2, <3>2, <3>3 DEF Calm, LinksKept
    <3>5. life'[Router] = life[Router]
      BY <1>2, <2>1
    <3> QED
      BY <1>1, <2>1, <3>4, <3>5, CalmStep
  <2> QED
    BY <1>9, <1>10, <1>18, <2>1 DEF ClientConnect
<1> QED
  BY <1>13, <1>14, <1>15, <1>16, <1>17, <1>18
     DEF ClientStep, UserStep, ClientStore, ClientRetrieve

\* The connections of a router that was started once are those it knows.
LEMMA KnownLink ==
    ASSUME SysInv, BalanceInv, routerStarts = 1, life[Router] = "up",
           NEW c \in DOMAIN conns, NEW s \in Servers,
           conns[c].who["init"] = Router, conns[c].who["resp"] = s
    PROVE  server_sockets[s] = c /\ c # NoConn
<1>1. conns[c].open["init"]
  BY DEF BalanceInv, LinkInv
<1>2. InitSock(Router, s) = c
  BY <1>1 DEF SysInv, ConnInv, Held
<1>3. c # NoConn
  BY NetAssumption DEF SysInv, NetInv, NoConn
<1> QED
  BY <1>2, <1>3 DEF InitSock

\* The router connects to server ri, which it does not know yet.
LEMMA ConnectBalance ==
    ASSUME SysInv, BalanceInv, RouterAt("connect"), Connect(Router, ri),
           UNCHANGED <<current_server, routerStarts, chain>>
    PROVE  BalanceInv'
<1>1. PICK s, n : s = ri /\ n = FreshConn
  OBVIOUS
<1>2. s \in Servers /\ server_sockets[s] = NoConn /\ life[Router] = "up"
  BY <1>1 DEF SysInv, RouterInv, RouterAt, Servers
<1>3. FreeConns # {} /\ conns' = Connected(Router, s) /\ UNCHANGED <<life, failed>>
  BY <1>1 DEF Connect
<1>4. Added(Router, s, n)
  <2>1. <<Router, s>> \in Links
    BY <1>2 DEF Links
  <2> QED
    BY ONLY <1>1, <1>3, <2>1, NewConn
<1>5. /\ n \notin DOMAIN conns /\ DOMAIN conns' = DOMAIN conns \cup {n}
      /\ \A d \in DOMAIN conns : conns'[d] = conns[d]
      /\ conns'[n].who["init"] = Router /\ conns'[n].who["resp"] = s
      /\ conns'[n].open["init"] /\ conns'[n].inbox["resp"] = << >>
  BY <1>4 DEF Added
<1>6. Calm
  BY <1>5, HelloIsNoStore DEF Calm
<1>7. LinkInv'
  <2> SUFFICES ASSUME routerStarts = 1
               PROVE  /\ \A c, d \in DOMAIN conns' :
                             /\ conns'[c].who["init"] = Router
                             /\ conns'[d].who["init"] = Router
                             /\ conns'[c].who["resp"] = conns'[d].who["resp"]
                             => c = d
                      /\ \A c \in DOMAIN conns' :
                             conns'[c].who["init"] = Router => conns'[c].open["init"]
    BY DEF LinkInv
  <2>1. /\ \A c, d \in DOMAIN conns :
               /\ conns[c].who["init"] = Router /\ conns[d].who["init"] = Router
               /\ conns[c].who["resp"] = conns[d].who["resp"]
               => c = d
        /\ \A c \in DOMAIN conns :
               conns[c].who["init"] = Router => conns[c].open["init"]
    BY <1>2 DEF BalanceInv, LinkInv
  <2>2. \A c \in DOMAIN conns :
            conns[c].who["init"] = Router => conns[c].who["resp"] # s
    BY <1>2, KnownLink
  <2> QED
    BY <1>5, <2>1, <2>2
<1>8. RoundInv'
  <2>1. \A t \in Servers \ failed' : StoreWaits(t)' <=> StoreWaits(t)
    BY <1>6, CalmWaits
  <2> QED
    BY <1>2, <1>3, <2>1, RoundKept DEF BalanceInv
<1>9. StartInv'
  BY DEF BalanceInv, StartInv
<1> QED
  BY <1>7, <1>8, <1>9 DEF BalanceInv

\* The router ends.
LEMMA RouterDeathBalance ==
    ASSUME SysInv, BalanceInv, NEW how, how # "up", NEW cs, AfterRecv(Router, cs),
           RouterDies(how, cs), UNCHANGED chain
    PROVE  BalanceInv'
<1>1. Router \in Procs /\ Router \notin Servers /\ life \in [Procs -> Lives]
  BY NetAssumption DEF Procs, Servers, SysInv, NetInv
<1>2. /\ life' = [life EXCEPT ![Router] = how] /\ failed \subseteq failed'
      /\ conns' = Orphaned(cs, Router) /\ UNCHANGED routerStarts
  BY DEF RouterDies, End, RouterGone
<1>3. life'[Router] # "up"
  BY <1>1, <1>2
<1>4. Calm /\ LinksKept
  BY <1>1, <1>2, <1>3, RecvKeepsStores, CalmDeath
<1> QED
  BY <1>2, <1>3, <1>4, CalmStep

\* What a request of the router puts on the connection to server i.
LEMMA CommandStores ==
    ASSUME SysInv, rpc \in {"serve", "await"}, NEW cs, AfterRecv(Router, cs),
           NEW i \in Servers, InitPc(Router, i) = "idle", NEW r,
           NEW c, c = server_sockets[i], NEW p, p.body = r,
           conns' = Sent(cs, c, "init", p)
    PROVE  /\ SameEnds(conns, conns') /\ c \in DOMAIN conns
           /\ conns[c].who["init"] = Router /\ conns[c].who["resp"] = i
           /\ i \notin failed => conns[c].open["resp"]
           /\ ~StoreIn(conns[c])
           /\ StoreIn(conns'[c]) <=> r.kind = "STORE" /\ conns[c].open["resp"]
           /\ \A d \in DOMAIN conns \ {c} :
                  conns[d].who["resp"] \in Servers =>
                      (StoreIn(conns'[d]) <=> StoreIn(conns[d]))
<1>1. c # NoConn
  BY DEF SysInv, RouterInv
<1>2. /\ c \in DOMAIN conns /\ IsConn(conns[c])
      /\ conns[c].who["init"] = Router /\ conns[c].who["resp"] = i /\ i # Router
      /\ RespPhase(c) = "gone" <=> ~conns[c].open["resp"]
      /\ Exchange("idle", RespPhase(c), conns[c], request, request, failed)
  BY <1>1, RouterConn
<1>3. conns[c].inbox["resp"] = << >> /\ (i \notin failed => conns[c].open["resp"])
  BY <1>2 DEF Exchange, Talking, Deserted
<1>4. Router \notin Servers
  BY NetAssumption DEF Servers
<1>5. /\ SameEnds(conns, cs)
      /\ \A d \in DOMAIN conns :
             conns[d].who["resp"] \in Servers =>
                 (StoreIn(cs[d]) <=> StoreIn(conns[d]))
  BY <1>4, RecvKeepsStores
<1>6. cs[c].inbox["resp"] = << >>
  <2>1. \/ cs[c] = conns[c]
        \/ \E e \in Ends : Has(Router, conns[c], e) /\ TakenAt(conns[c], cs[c], e)
    BY <1>2, AfterRecvEffect
  <2>2. ASSUME NEW e \in Ends, Has(Router, conns[c], e), TakenAt(conns[c], cs[c], e)
        PROVE  cs[c].inbox["resp"] = conns[c].inbox["resp"]
    <3>1. e = "init"
      BY <1>2, <2>2, EndsOf DEF Has
    <3> QED
      BY <2>2, <3>1, EndsOf DEF TakenAt
  <2> QED
    BY <1>3, <2>1, <2>2
<1>7. /\ c \in DOMAIN cs /\ DOMAIN cs = DOMAIN conns
      /\ \A d \in DOMAIN cs : IsConn(cs[d])
      /\ \A d \in DOMAIN cs : cs[d].who = conns[d].who /\ cs[d].open = conns[d].open
  BY <1>2, <1>5 DEF SameEnds
<1>8. OnlyAt(cs, conns', c) /\ SentAt(cs[c], conns'[c], "init", p)
  BY <1>7, SentEffect DEF Ends
<1>9. SameEnds(conns, conns')
  <2>1. SameEnds(cs, conns')
    BY <1>7, <1>8, SameEndsStep
  <2> QED
    BY <1>5, <2>1 DEF SameEnds
<1>10. ~StoreIn(conns[c])
  BY <1>3, HelloIsNoStore
<1>11. StoreIn(conns'[c]) <=> r.kind = "STORE" /\ conns[c].open["resp"]
  <2>1. CASE conns[c].open["resp"]
    <3>1. conns'[c].inbox["resp"] = Append(<< >>, p)
      BY <1>6, <1>7, <1>8, <2>1, EndsOf DEF SentAt
    <3>2. Append(<< >>, p) = <<p>> /\ <<p>> # << >> /\ Head(<<p>>) = p
      OBVIOUS
    <3>3. conns'[c].inbox["resp"] # << >> /\ Head(conns'[c].inbox["resp"]) = p
      BY <3>1, <3>2
    <3> QED
      BY <2>1, <3>3 DEF StoreIn
  <2>2. CASE ~conns[c].open["resp"]
    <3>1. conns'[c].inbox["resp"] = << >>
      BY <1>6, <1>7, <1>8, <2>2, EndsOf DEF SentAt
    <3> QED
      BY <2>2, <3>1, HelloIsNoStore
  <2> QED
    BY <2>1, <2>2
<1>12. \A d \in DOMAIN conns \ {c} :
           conns[d].who["resp"] \in Servers => (StoreIn(conns'[d]) <=> StoreIn(conns[d]))
  BY <1>5, <1>7, <1>8 DEF OnlyAt
<1> QED
  BY <1>2, <1>3, <1>9, <1>10, <1>11, <1>12

\* A store is on its way to server cur: its share grows by one.
LEMMA ShareMoves ==
    ASSUME NEW N \in Nat \ {0}, NEW b \in Nat, NEW n \in 0 .. N, NEW cur \in 0 .. N - 1,
           n = cur \/ (n = N /\ cur = 0),
           NEW t \in 0 .. N - 1, NEW len \in Nat, Share(t, b, n, len, FALSE),
           NEW b2, b2 = (IF n = cur THEN b ELSE b + 1), NEW w, w <=> t = cur
    PROVE  Share(t, b2, cur + 1, len, w)
<1>1. len = IF t < n THEN b + 1 ELSE b
  BY DEF Share
<1>2. CASE n = cur
  <2>1. CASE t = cur
    BY <1>1, <1>2, <2>1 DEF Share
  <2>2. CASE t # cur
    BY <1>1, <1>2, <2>2 DEF Share
  <2> QED
    BY <2>1, <2>2
<1>3. CASE n # cur
  <2>1. CASE t = cur
    BY <1>1, <1>3, <2>1 DEF Share
  <2>2. CASE t # cur
    BY <1>1, <1>3, <2>2 DEF Share
  <2> QED
    BY <2>1, <2>2
<1> QED
  BY <1>2, <1>3

\* The router sends a store on, to server current_server.
LEMMA StoreGoes ==
    ASSUME SysInv, BalanceInv, life[Router] = "up", rpc = "serve",
           NEW cs, AfterRecv(Router, cs), NEW i \in Servers, i = current_server,
           NEW c, c = server_sockets[i], NEW p, p.body.kind = "STORE",
           conns' = Sent(cs, c, "init", p), current_server' = NextServer(i),
           UNCHANGED <<life, failed, chain, routerStarts>>
    PROVE  BalanceInv'
<1>1. \A t : InitPc(Router, t) = "idle"
  BY DEF InitPc
<1>2. /\ SameEnds(conns, conns') /\ c \in DOMAIN conns
      /\ conns[c].who["init"] = Router /\ conns[c].who["resp"] = i
      /\ i \notin failed => conns[c].open["resp"]
      /\ StoreIn(conns'[c]) <=> conns[c].open["resp"]
      /\ \A d \in DOMAIN conns \ {c} :
             conns[d].who["resp"] \in Servers =>
                 (StoreIn(conns'[d]) <=> StoreIn(conns[d]))
  BY <1>1, CommandStores
<1>3. DOMAIN conns' = DOMAIN conns /\ \A d \in DOMAIN conns : conns'[d].who = conns[d].who
  BY <1>2 DEF SameEnds
<1>4. StartInv' /\ LinkInv'
  <2>1. LinksKept
    BY <1>2 DEF SameEnds, LinksKept
  <2> QED
    BY <2>1, LinksStep DEF BalanceInv, StartInv
<1>5. RoundInv'
  <2> SUFFICES ASSUME routerStarts = 1
               PROVE  \E b \in Nat, n \in 0 .. NUM_SERVERS :
                          /\ n = current_server' \/ (n = NUM_SERVERS /\ current_server' = 0)
                          /\ \A t \in Servers \ failed :
                                 Share(t, b, n, Len(chain[t]), StoreWaits(t)')
    BY DEF RoundInv
  <2>1. PICK b \in Nat, n \in 0 .. NUM_SERVERS :
            /\ n = i \/ (n = NUM_SERVERS /\ i = 0)
            /\ \A t \in Servers \ failed : Share(t, b, n, Len(chain[t]), StoreWaits(t))
    BY DEF RoundInv, BalanceInv
  <2>2. ASSUME NEW t \in Servers, NEW d \in DOMAIN conns, conns[d].who["resp"] = t
        PROVE  ~StoreIn(conns[d])
    <3>1. conns[d].who["init"] = Router
      BY <2>2, ServedByRouter
    <3>2. server_sockets[t] = d /\ d # NoConn
      BY <2>2, <3>1, KnownLink
    <3>3. Exchange("idle", RespPhase(d), conns[d], request, request, failed)
      BY <1>1, <3>2, RouterConn
    <3>4. conns[d].inbox["resp"] = << >>
      BY <3>3 DEF Exchange, Talking, Deserted
    <3> QED
      BY <3>4, HelloIsNoStore
  <2>3. \A t : StoreWaits(t)' <=>
                   \E d \in DOMAIN conns' : conns'[d].who["resp"] = t /\ StoreIn(conns'[d])
    BY DEF StoreWaits, StoreIn
  <2>4. ASSUME NEW t \in Servers \ failed
        PROVE  ~StoreWaits(t) /\ (StoreWaits(t)' <=> t = i)
    <3>1. ~StoreWaits(t)
      BY <2>2 DEF StoreWaits
    <3>2. CASE t = i
      <4>1. c \in DOMAIN conns' /\ conns'[c].who["resp"] = t /\ StoreIn(conns'[c])
        BY <1>2, <1>3, <2>4, <3>2
      <4> QED
        BY <2>3, <3>1, <3>2, <4>1
    <3>3. CASE t # i
      <4>1. ASSUME NEW d \in DOMAIN conns', conns'[d].who["resp"] = t
            PROVE  ~StoreIn(conns'[d])
        BY <1>2, <1>3, <2>2, <3>3, <4>1
      <4> QED
        BY <2>3, <3>1, <3>3, <4>1
    <3> QED
      BY <3>1, <3>2, <3>3
  <2>5. PICK N \in Nat \ {0} : N = NUM_SERVERS
    BY NetAssumption
  <2>6. PICK b2 : b2 = IF n = i THEN b ELSE b + 1
    OBVIOUS
  <2>7. b2 \in Nat /\ i \in 0 .. N - 1 /\ i + 1 \in 0 .. N
    BY <2>5, <2>6 DEF Servers
  <2>8. ASSUME NEW t \in Servers \ failed
        PROVE  Share(t, b2, i + 1, Len(chain[t]), StoreWaits(t)')
    <3>1. Share(t, b, n, Len(chain[t]), FALSE)
      BY <2>1, <2>4 DEF Share
    <3>2. Len(chain[t]) \in Nat
      BY ChainLen
    <3>3. t \in 0 .. N - 1 /\ n \in 0 .. N /\ (n = i \/ (n = N /\ i = 0))
      BY <2>1, <2>5 DEF Servers
    <3>4. PICK w, len : w = StoreWaits(t)' /\ len = Len(chain[t])
      OBVIOUS
    <3>5. (w <=> t = i) /\ len \in Nat
      BY <2>4, <3>2, <3>4
    <3>6. Share(t, b2, i + 1, len, w)
      BY <2>6, <2>7, <3>1, <3>3, <3>4, <3>5, ShareMoves
    <3> QED
      BY <3>4, <3>6
  <2>9. i + 1 = current_server' \/ (i + 1 = NUM_SERVERS /\ current_server' = 0)
    <3>1. CASE i + 1 = N
      <4>1. N % N = 0
        BY <2>5
      <4> QED
        BY <2>5, <3>1, <4>1 DEF NextServer
    <3>2. CASE i + 1 # N
      <4>1. (i + 1) % N = i + 1
        BY <2>5, <2>7, <3>2
      <4> QED
        BY <2>5, <4>1 DEF NextServer
    <3> QED
      BY <3>1, <3>2
  <2> QED
    BY <2>5, <2>7, <2>8, <2>9
<1> QED
  BY <1>4, <1>5 DEF BalanceInv

\* A step of the router keeps the balance.
LEMMA RouterBalance ==
    ASSUME SysInv, BalanceInv, RouterStep, UNCHANGED servervars
    PROVE  BalanceInv'
<1>1. UNCHANGED chain /\ \A d \in DOMAIN conns : IsConn(conns[d])
  BY DEF servervars, SysInv, ConnInv
<1>2. Router \notin Servers /\ ri \in Servers /\ current_server \in Servers
  BY NetAssumption DEF Servers, SysInv, RouterInv
<1>3. ASSUME Calm, LinksKept, UNCHANGED <<life, failed, current_server, routerStarts>>
      PROVE  BalanceInv'
  BY <1>1, <1>3, CalmStep
<1>4. AfterRecv(Router, conns)
  BY DEF AfterRecv
<1>5. ASSUME NEW how, how # "up", NEW cs, AfterRecv(Router, cs), RouterDies(how, cs)
      PROVE  BalanceInv'
  BY <1>1, <1>5, RouterDeathBalance
<1>6. CASE RouterConnect
  <2>1. CASE RouterAt("connect") /\ Connect(Router, ri)
             /\ UNCHANGED <<current_server, routerStarts>>
    BY <1>1, <2>1, ConnectBalance
  <2> QED
    BY <1>4, <1>5, <1>6, <2>1 DEF RouterConnect
<1>7. PICK s, c : s = ri /\ c = server_sockets[s]
  OBVIOUS
<1>8. c # NoConn =>
          /\ c \in DOMAIN conns /\ Has(Router, conns[c], "init")
          /\ RespPhase(c) = "gone" <=> ~conns[c].open["resp"]
          /\ Exchange(InitPc(Router, s), RespPhase(c), conns[c], request, request, failed)
          /\ AfterRecv(Router, Taken(c, "init"))
  <2> SUFFICES ASSUME c # NoConn
               PROVE  /\ c \in DOMAIN conns /\ Has(Router, conns[c], "init")
                      /\ RespPhase(c) = "gone" <=> ~conns[c].open["resp"]
                      /\ Exchange(InitPc(Router, s), RespPhase(c), conns[c], request,
                                  request, failed)
                      /\ AfterRecv(Router, Taken(c, "init"))
    OBVIOUS
  <2>1. /\ c \in DOMAIN conns /\ Has(Router, conns[c], "init")
        /\ RespPhase(c) = "gone" <=> ~conns[c].open["resp"]
        /\ Exchange(InitPc(Router, s), RespPhase(c), conns[c], request,
                    request, failed)
    BY <1>2, <1>7, RouterConn
  <2> QED
    BY <2>1 DEF AfterRecv, Ends
<1>9. CASE RouterSendHello
  <2>1. rpc = "connected" /\ c # NoConn /\ InitPc(Router, s) = "connected"
    BY <1>7, <1>9 DEF RouterSendHello, RouterAt, InitPc, SysInv, RouterInv, Servers
  <2>2. CASE Communicate(Sent(conns, c, "init", ClientHello))
             /\ UNCHANGED <<current_server, routerStarts>>
    <3>1. OnlyAt(conns, conns', c) /\ SentAt(conns[c], conns'[c], "init", ClientHello)
          /\ UNCHANGED <<life, failed>>
      BY <1>1, <1>8, <2>1, <2>2, SentEffect DEF Communicate, Ends
    <3>2. conns[c].inbox["resp"] = << >>
      BY <1>8, <2>1 DEF Exchange, Talking, Deserted
    <3>3. Append(<< >>, ClientHello) = <<ClientHello>>
      OBVIOUS
    <3>4. conns'[c].inbox["resp"] \in {<< >>, <<ClientHello>>}
      BY <3>1, <3>2, <3>3, EndsOf DEF SentAt
    <3>5. ~StoreIn(conns[c]) /\ ~StoreIn(conns'[c])
      BY <3>2, <3>4, HelloIsNoStore
    <3>6. Calm /\ LinksKept
      BY <1>8, <2>1, <3>1, <3>5, CalmAt
    <3> QED
      BY <1>3, <2>2, <3>1, <3>6
  <2> QED
    BY <1>4, <1>5, <1>7, <1>9, <2>2 DEF RouterSendHello
<1>10. CASE RouterRecvHello
  <2>1. /\ rpc = "server_hello" /\ c # NoConn /\ InitPc(Router, s) = "server_hello"
        /\ CanRecv(c, "init")
    BY <1>7, <1>10 DEF RouterRecvHello, RouterAt, InitPc, SysInv, RouterInv, Servers
  <2>2. CASE HelloUsable(c) /\ Communicate(HelloReceived(c))
             /\ UNCHANGED <<current_server, routerStarts>>
    <3>1. /\ OnlyAt(conns, HelloReceived(c), c)
          /\ Exchange("idle", RespPhase(c), HelloReceived(c)[c], request, request, failed)
      BY <1>1, <1>8, <2>1, <2>2, HelloReceivedEffect
    <3>2. conns' = HelloReceived(c) /\ UNCHANGED <<life, failed>>
      BY <2>2 DEF Communicate
    <3>3. conns[c].inbox["resp"] \in {<< >>, <<ClientHello>>}
      BY <1>8, <2>1 DEF Exchange, Talking, Deserted
    <3>4. conns'[c].inbox["resp"] = << >>
      BY <3>1, <3>2 DEF Exchange, Talking, Deserted
    <3>5. ~StoreIn(conns[c]) /\ ~StoreIn(conns'[c])
      BY <3>3, <3>4, HelloIsNoStore
    <3>6. Calm /\ LinksKept
      BY <1>8, <2>1, <3>1, <3>2, <3>5, CalmAt
    <3> QED
      BY <1>3, <2>2, <3>2, <3>6
  <2>3. CASE RouterDies("segv", Taken(c, "init"))
    BY <1>5, <1>8, <2>1, <2>3
  <2> QED
    BY <1>7, <1>10, <2>2, <2>3 DEF RouterRecvHello
<1>11. CASE RouterAccept
  <2>1. UNCHANGED <<conns, life, failed, current_server, routerStarts>>
    BY <1>11 DEF RouterAccept, Accept
  <2> QED
    BY <1>3, <2>1, CalmSame
<1>12. PICK k : k = client_sock
  OBVIOUS
<1>13. ASSUME k # NoConn
       PROVE  /\ k \in DOMAIN conns /\ conns[k].who["resp"] = Router
              /\ Has(Router, conns[k], "resp")
              /\ OnlyAt(conns, Taken(k, "resp"), k)
              /\ AfterRecv(Router, Taken(k, "resp"))
  <2>1. k \in DOMAIN conns /\ conns[k].who["resp"] = Router /\ Has(Router, conns[k], "resp")
    BY <1>12, <1>13, RouterServes
  <2>2. OnlyAt(conns, Taken(k, "resp"), k)
    BY <1>1, <2>1, TakenEffect DEF Ends
  <2> QED
    BY <2>1, <2>2 DEF AfterRecv, Ends
<1>14. CASE RouterHandshake
  <2>1. rpc = "client_hello" /\ k # NoConn /\ RespPc(Router) = "client_hello"
        /\ CanRecv(k, "resp")
    BY <1>12, <1>14 DEF RouterHandshake, RouterAt, RespPc, SysInv, RouterInv
  <2>2. ASSUME NEW key \in ResponderKeys(k), Communicate(Answered(k, key)),
               UNCHANGED <<current_server, routerStarts>>
        PROVE  BalanceInv'
    <3>1. PICK i, w : i = InitPhase(k) /\ w = cmd[conns[k].who["init"]]
      OBVIOUS
    <3>2. /\ k \in DOMAIN conns /\ conns[k].who["resp"] = Router
          /\ i = "gone" <=> ~conns[k].open["init"]
          /\ Exchange(i, "client_hello", conns[k], w, request, failed)
      BY <1>12, <2>1, <3>1, RouterServes
    <3>3. OnlyAt(conns, Answered(k, key), k)
      BY <1>1, <2>1, <2>2, <3>2, AnsweredEffect
    <3>4. OnlyAt(conns, conns', k) /\ UNCHANGED <<life, failed>>
      BY <2>2, <3>3 DEF Communicate
    <3>5. Calm /\ LinksKept
      BY <3>2, <3>4, CalmElsewhere DEF OnlyAt
    <3> QED
      BY <1>3, <2>2, <3>4, <3>5
  <2> QED
    BY <1>4, <1>5, <1>12, <1>14, <2>2 DEF RouterHandshake
<1>15. ASSUME rpc \in {"serve", "await"}, NEW i \in Servers, InitPc(Router, i) = "idle",
              NEW r, r.kind = "RETRIEVE", NEW cs, AfterRecv(Router, cs), NEW answers,
              SendCommand(cs, i, r, current_server, answers)
       PROVE  BalanceInv'
  <2>1. PICK d, p : /\ d = server_sockets[i]
                    /\ p = DataPacket(cs, d, "init", r, CommandLen(r))
    OBVIOUS
  <2>2. p.body = r
    BY <2>1 DEF DataPacket
  <2>3. CASE Communicate(Sent(cs, d, "init", p))
             /\ UNCHANGED <<current_server, routerStarts>>
    <3>1. conns' = Sent(cs, d, "init", p) /\ UNCHANGED <<life, failed>>
      BY <2>3 DEF Communicate
    <3>2. /\ SameEnds(conns, conns') /\ d \in DOMAIN conns
          /\ ~StoreIn(conns[d])
          /\ StoreIn(conns'[d]) <=> r.kind = "STORE" /\ conns[d].open["resp"]
          /\ \A x \in DOMAIN conns \ {d} :
                 conns[x].who["resp"] \in Servers =>
                     (StoreIn(conns'[x]) <=> StoreIn(conns[x]))
      BY <1>15, <2>1, <2>2, <3>1, CommandStores
    <3>3. Calm /\ LinksKept
      BY <1>15, <3>2, CalmTalk
    <3> QED
      BY <1>3, <2>3, <3>1, <3>3
  <2>4. CASE RouterDies("sigpipe", cs)
    BY <1>5, <1>15, <2>4
  <2> QED
    BY <1>15, <2>1, <2>3, <2>4 DEF SendCommand
<1>16. CASE RouterServe
  <2>1. /\ life[Router] = "up" /\ rpc = "serve" /\ k # NoConn
        /\ \A t : InitPc(Router, t) = "idle"
    BY <1>12, <1>16 DEF RouterServe, RouterAt, InitPc, SysInv, RouterInv
  <2>2. PICK r, cs : r = Received(k, "resp").body /\ cs = Taken(k, "resp")
    OBVIOUS
  <2>3. /\ k \in DOMAIN conns /\ conns[k].who["resp"] = Router
        /\ OnlyAt(conns, cs, k) /\ AfterRecv(Router, cs)
    BY <1>13, <2>1, <2>2
  <2>4. CASE r.kind = "RETRIEVE" /\ SendCommand(cs, 0, r, current_server, << >>)
    <3>1. PICK i, a : i = 0 /\ a = << >> /\ i \in Servers
      BY ServerNumbers
    <3> QED
      BY <1>15, <2>1, <2>3, <2>4, <3>1
  <2>5. CASE r.kind = "STORE"
             /\ SendCommand(cs, current_server, r, NextServer(current_server), << >>)
    <3>1. PICK i, d, p : /\ i = current_server /\ d = server_sockets[i]
                         /\ p = DataPacket(cs, d, "init", r, CommandLen(r))
      OBVIOUS
    <3>2. p.body.kind = "STORE" /\ i \in Servers
      BY <1>2, <2>5, <3>1 DEF DataPacket
    <3>3. CASE /\ Communicate(Sent(cs, d, "init", p)) /\ current_server' = NextServer(i)
               /\ UNCHANGED routerStarts
      <4>1. conns' = Sent(cs, d, "init", p) /\ UNCHANGED <<life, failed>>
        BY <3>3 DEF Communicate
      <4> QED
        BY <1>1, <2>1, <2>3, <3>1, <3>2, <3>3, <4>1, StoreGoes
    <3>4. CASE RouterDies("sigpipe", cs)
      BY <1>5, <2>3, <3>4
    <3> QED
      BY <2>5, <3>1, <3>3, <3>4 DEF SendCommand
  <2>6. CASE Communicate(Closed(cs, k, "resp")) /\ UNCHANGED <<current_server, routerStarts>>
    <3>1. k \in DOMAIN cs /\ IsConn(cs[k]) /\ "resp" \in Ends
      BY <2>3 DEF OnlyAt, Ends
    <3>2. PICK x : x = Closed(cs, k, "resp")
      OBVIOUS
    <3>3. /\ \A d \in DOMAIN cs \ {k} : d \in DOMAIN x /\ x[d] = cs[d]
          /\ DOMAIN x \subseteq DOMAIN cs
          /\ k \in DOMAIN x => x[k].who = cs[k].who
      BY ONLY <3>1, <3>2, ClosedEffect DEF ShutAt
    <3>4. conns' = x /\ UNCHANGED <<life, failed>>
      BY <2>6, <3>2 DEF Communicate
    <3>5. /\ DOMAIN conns' \subseteq DOMAIN conns
          /\ \A d \in DOMAIN conns \ {k} : d \in DOMAIN conns' /\ conns'[d] = conns[d]
          /\ k \in DOMAIN conns' => conns'[k].who = conns[k].who
      BY <2>3, <3>3, <3>4 DEF OnlyAt
    <3>6. Calm /\ LinksKept
      BY <2>3, <3>5, CalmElsewhere
    <3> QED
      BY <1>3, <2>6, <3>4, <3>6
  <2> QED
    BY <1>12, <1>16, <2>2, <2>4, <2>5, <2>6 DEF RouterServe
<1>17. CASE RouterReply
  <2>1. rpc = "await" /\ c # NoConn /\ k # NoConn
    BY <1>7, <1>12, <1>17 DEF RouterReply, RouterAt, SysInv, RouterInv
  <2>2. PICK cs : cs = Taken(c, "init")
    OBVIOUS
  <2>3. AfterRecv(Router, cs)
    BY <1>8, <2>1, <2>2
  <2>4. ASSUME NEW body, NEW len, AnswerClient(cs, body, len)
        PROVE  BalanceInv'
    <3>1. PICK p : p = DataPacket(cs, k, "resp", body, len)
      OBVIOUS
    <3>2. /\ conns' = Sent(cs, k, "resp", p)
          /\ UNCHANGED <<life, failed, current_server, routerStarts>>
      BY <1>12, <2>4, <3>1 DEF AnswerClient, Communicate
    <3>3. /\ SameEnds(conns, cs)
          /\ \A d \in DOMAIN conns :
                 conns[d].who["resp"] \in Servers =>
                     (StoreIn(cs[d]) <=> StoreIn(conns[d]))
      BY <1>2, <2>3, RecvKeepsStores
    <3>4. /\ k \in DOMAIN cs /\ DOMAIN cs = DOMAIN conns
          /\ conns[k].who["resp"] = Router
          /\ \A d \in DOMAIN cs : IsConn(cs[d])
      BY <1>13, <2>1, <3>3 DEF SameEnds
    <3>5. OnlyAt(cs, conns', k)
      BY <3>2, <3>4, SentEffect DEF Ends
    <3>6. SameEnds(conns, conns')
      <4>1. SameEnds(cs, conns')
        BY <3>4, <3>5, SameEndsStep
      <4> QED
        BY <3>3, <4>1 DEF SameEnds
    <3>7. ASSUME NEW d \in DOMAIN conns, conns[d].who["resp"] \in Servers
          PROVE  StoreIn(conns'[d]) <=> StoreIn(conns[d])
      <4>1. conns'[d] = cs[d]
        BY <1>2, <3>4, <3>5, <3>7 DEF OnlyAt
      <4> QED
        BY <3>3, <3>7, <4>1
    <3>8. Calm /\ LinksKept
      BY <3>6, <3>7, CalmTalk
    <3> QED
      BY <1>3, <3>2, <3>8
  <2>5. ASSUME NEW answers, request.kind = "RETRIEVE", ri + 1 < NUM_SERVERS,
               SendCommand(cs, ri + 1, request, current_server, answers)
        PROVE  BalanceInv'
    <3>1. PICK i : i = ri + 1
      OBVIOUS
    <3>2. i \in Servers /\ i # ri
      BY <1>2, <2>5, <3>1, ServerNumbers DEF Servers
    <3>3. InitPc(Router, i) = "idle"
      BY <3>2 DEF InitPc
    <3> QED
      BY <1>15, <2>1, <2>3, <2>5, <3>1, <3>2, <3>3
  <2> QED
    BY <1>7, <1>17, <2>2, <2>4, <2>5 DEF RouterReply
<1> QED
  BY <1>6, <1>9, <1>10, <1>11, <1>14, <1>16, <1>17 DEF RouterStep

\* A client is killed.
LEMMA ClientKillBalance ==
    ASSUME SysInv, BalanceInv, NEW k \in Clients, ClientDies(k, "killed", conns),
           UNCHANGED <<servervars, routervars>>
    PROVE  BalanceInv'
<1>1. UNCHANGED <<current_server, routerStarts, chain>>
  BY DEF routervars, servervars
<1>2. k # Router /\ k \in Procs /\ k \notin Servers /\ Router \in Procs
      /\ life \in [Procs -> Lives]
  BY NetAssumption DEF Servers, Procs, SysInv, NetInv
<1>3. /\ life' = [life EXCEPT ![k] = "killed"] /\ failed \subseteq failed'
      /\ conns' = Orphaned(conns, k)
  BY DEF ClientDies, End
<1>4. life'[Router] = life[Router]
  BY <1>2, <1>3
<1>5. Calm /\ LinksKept
  BY <1>2, <1>3, SameEndsSelf, CalmDeath
<1> QED
  BY <1>1, <1>3, <1>4, <1>5, CalmStep

\* A process is killed.
LEMMA KillBalance ==
    ASSUME SysInv, BalanceInv, NEW p \in Procs, Kill(p)
    PROVE  BalanceInv'
<1>1. CASE p \in Servers /\ KillServer(p)
  BY <1>1, ServerDeathBalance DEF KillServer
<1>2. CASE p = Router /\ KillRouter
  <2>1. AfterRecv(Router, conns)
    BY DEF AfterRecv
  <2> QED
    BY <1>2, <2>1, RouterDeathBalance DEF KillRouter, servervars
<1>3. CASE p \in Clients /\ KillClient(p)
  BY <1>3, ClientKillBalance DEF KillClient
<1> QED
  BY <1>1, <1>2, <1>3 DEF Kill

\* A process is started again: a server, or the router, after which nothing
\* is promised of the balance.
LEMMA RestartBalance ==
    ASSUME SysInv, BalanceInv, Restart
    PROVE  BalanceInv'
<1>1. ASSUME NEW s \in Servers, ServerStart(s), UNCHANGED routervars
      PROVE  BalanceInv'
  <2>1. /\ UNCHANGED <<conns, failed, chain, current_server, routerStarts>>
        /\ life' = [life EXCEPT ![s] = "up"]
    BY <1>1 DEF ServerStart, Begin, servervars, routervars
  <2>2. s # Router /\ life \in [Procs -> Lives] /\ Router \in Procs
    BY NetAssumption DEF Servers, Procs, SysInv, NetInv
  <2>3. life'[Router] = life[Router]
    BY <2>1, <2>2
  <2>4. Calm /\ LinksKept
    BY <2>1, CalmSame
  <2> QED
    BY <2>1, <2>3, <2>4, CalmStep
<1>2. CASE RouterStart
  <2>1. routerStarts' \in Nat \ {0} /\ routerStarts' # 1
    BY <1>2 DEF RouterStart, BalanceInv, StartInv
  <2>2. StartInv'
    BY <2>1 DEF StartInv
  <2>3. LinkInv'
    BY <2>1 DEF LinkInv
  <2>4. RoundInv'
    BY <2>1 DEF RoundInv
  <2> QED
    BY <2>2, <2>3, <2>4 DEF BalanceInv
<1> QED
  BY <1>1, <1>2 DEF Restart

\* Nothing happens.
LEMMA StutterBalance ==
    ASSUME SysInv, BalanceInv, UNCHANGED vars
    PROVE  BalanceInv'
<1>1. UNCHANGED <<conns, life, failed, chain, current_server, routerStarts>>
  BY DEF vars, netvars, servervars, routervars
<1>2. Calm /\ LinksKept
  BY <1>1, CalmSame
<1> QED
  BY <1>1, <1>2, CalmStep

\* malloc that failed once has failed ever since.
LEMMA AllocFailsKept ==
    ASSUME SysInv, [Next]_vars, allocFails' = 0
    PROVE  allocFails = 0
<1>1. allocFails \in Nat
  BY ServerAssumption DEF SysInv, ShardInv
<1>2. ASSUME NEW s \in Servers, ServerStep(s)
      PROVE  allocFails = 0
  <2>1. ASSUME NEW d, ServerStore(s, d)
        PROVE  allocFails = 0
    BY <1>1, <2>1 DEF ServerStore
  <2> QED
    BY <1>2, <2>1 DEF ServerStep, ServerAccept, ServerHandshake, ServerServe,
                      ServerRetrieve, ServerGone
<1>3. ASSUME UNCHANGED servervars
      PROVE  allocFails = 0
  BY <1>3 DEF servervars
<1>4. ASSUME NEW p \in Procs, Kill(p)
      PROVE  allocFails = 0
  BY <1>3, <1>4 DEF Kill, KillServer, KillRouter, KillClient, ServerGone
<1>5. CASE Restart
  BY <1>3, <1>5 DEF Restart, ServerStart
<1> QED
  BY <1>2, <1>3, <1>4, <1>5 DEF Next, ServerRuns, RouterRuns, ClientRuns, UserActs, vars

\* Every step keeps the balance while malloc did not fail.
LEMMA NextBalance ==
    ASSUME SysInv, allocFails = 0 => BalanceInv, [Next]_vars
    PROVE  allocFails' = 0 => BalanceInv'
<1> SUFFICES ASSUME allocFails' = 0
             PROVE  BalanceInv'
  OBVIOUS
<1>1. BalanceInv
  BY AllocFailsKept
<1>2. ASSUME NEW s \in Servers, ServerRuns(s)
      PROVE  BalanceInv'
  BY <1>1, <1>2, ServerBalance DEF ServerRuns
<1>3. CASE RouterRuns
  BY <1>1, <1>3, RouterBalance DEF RouterRuns
<1>4. ASSUME NEW k \in Clients, ClientRuns(k) \/ UserActs(k)
      PROVE  BalanceInv'
  BY <1>1, <1>4, ClientBalance DEF ClientRuns, UserActs
<1> QED
  BY <1>1, <1>2, <1>3, <1>4, KillBalance, RestartBalance, StutterBalance DEF Next

\* The balance to begin with: no store was sent.
LEMMA InitBalance == Init => BalanceInv
<1> SUFFICES ASSUME Init PROVE BalanceInv
  OBVIOUS
<1> USE DEF Init, NetInit, ServerInit, RouterInit
<1>1. DOMAIN conns = {}
  OBVIOUS
<1>2. StartInv
  BY DEF StartInv
<1>3. LinkInv
  BY <1>1 DEF LinkInv
<1>4. ASSUME NEW s \in Servers
      PROVE  Share(s, 0, 0, Len(chain[s]), StoreWaits(s))
  <2>1. ~StoreWaits(s)
    BY <1>1 DEF StoreWaits
  <2>2. chain[s] = << >> /\ Len(<< >>) = 0
    OBVIOUS
  <2>3. s \in Nat
    BY NetAssumption DEF Servers
  <2> QED
    BY <2>1, <2>2, <2>3 DEF Share
<1>5. RoundInv
  <2>1. 0 \in Nat /\ 0 \in 0 .. NUM_SERVERS
    BY NetAssumption
  <2> QED
    BY <1>4, <2>1 DEF RoundInv
<1> QED
  BY <1>2, <1>3, <1>5 DEF BalanceInv

\* What the shares say of two servers.
LEMMA BalancedShares == SysInv /\ BalanceInv => ShardsBalanced
<1> SUFFICES ASSUME SysInv, BalanceInv, routerStarts = 1,
                    NEW s \in Servers \ failed, NEW t \in Servers \ failed, s < t
             PROVE  Len(chain[s]) - Len(chain[t]) \in {0, 1}
  BY DEF ShardsBalanced
<1>1. PICK b \in Nat, n \in 0 .. NUM_SERVERS :
          \A r \in Servers \ failed : Share(r, b, n, Len(chain[r]), StoreWaits(r))
  BY DEF BalanceInv, RoundInv
<1>2. PICK m \in Nat, l \in Nat : m = Len(chain[s]) /\ l = Len(chain[t])
  BY ChainLen
<1>3. s \in Nat /\ t \in Nat /\ n \in Nat
  BY NetAssumption DEF Servers
<1>4. Share(s, b, n, m, StoreWaits(s)) /\ Share(t, b, n, l, StoreWaits(t))
  BY <1>1, <1>2
<1>5. /\ \/ m = (IF s < n THEN b + 1 ELSE b)
         \/ m + 1 = (IF s < n THEN b + 1 ELSE b) /\ s + 1 = n
      /\ \/ l = (IF t < n THEN b + 1 ELSE b)
         \/ l + 1 = (IF t < n THEN b + 1 ELSE b) /\ t + 1 = n
  BY <1>3, <1>4 DEF Share
<1>6. m - l \in {0, 1}
  BY <1>3, <1>5
<1> QED
  BY <1>2, <1>6

\* Round robin keeps the shards of the servers that never failed balanced,
\* whoever else is dead, as long as the router runs from its only start and
\* no malloc failed in store_data: one that fails takes a block, and with it
\* the balance.
THEOREM SystemShardsBalanced == Spec => [](allocFails = 0 => ShardsBalanced)
<1>1. Init => (allocFails = 0 => BalanceInv)
  BY InitBalance
<1>2. SysInv /\ (allocFails = 0 => BalanceInv) /\ [Next]_vars =>
          (allocFails = 0 => BalanceInv)'
  BY NextBalance
<1>3. SysInv /\ (allocFails = 0 => BalanceInv) => (allocFails = 0 => ShardsBalanced)
  BY BalancedShares
<1> QED
  BY <1>1, <1>2, <1>3, SystemInvariant, PTL DEF Spec

=============================================================================
