------------------------ MODULE SecureChannelProofs ------------------------
(***************************************************************************)
(* Proofs about SecureChannel, for all lengths of packets, segments and    *)
(* receives and any number of packets.                                     *)
(***************************************************************************)
EXTENDS SecureChannel, Arithmetic, SequenceTheorems

Byte == Packet \X Nat

(***************************************************************************)
(* The invariant behind InStep: as long as all packets were short enough,  *)
(* nothing failed and the two ends take turns.  One of them, e, has the    *)
(* turn: it has received the last packet, or that packet is on its way to  *)
(* it, whole; the other one waits and nothing is on its way to it.         *)
(***************************************************************************)
Empty(e) == unsent[e] = << >> /\ arrived[e] = << >>

LastOnItsWay(e) ==
    \E packet \in Packet :
        /\ packet.id = sent
        /\ packet.len <= Least(MSS, RECV_MAX)
        /\ \/ unsent[e] = Bytes(packet) /\ arrived[e] = << >>
           \/ unsent[e] = << >> /\ arrived[e] = Bytes(packet)

HasTurn(e) ==
    /\ pc[Other(e)] = "await" /\ Empty(Other(e))
    /\ \/ pc[e] = "idle" /\ Empty(e) /\ last[e].id = sent
       \/ pc[e] = "await" /\ LastOnItsWay(e)

TurnInv == ~long => errors = 0 /\ \E e \in Ends : HasTurn(e)

-----------------------------------------------------------------------------
\* Cutting a string of bytes, as TCP does in segments and recv in receives.
LEMMA Cut ==
    ASSUME NEW s \in Seq(Byte), NEW n \in Nat
    PROVE  /\ First(s, n) \in Seq(Byte) /\ After(s, n) \in Seq(Byte)
           /\ Len(First(s, n)) = Least(n, Len(s))
           /\ First(s, n) \o After(s, n) = s
           /\ s # << >> /\ n # 0 =>
                  First(s, n) # << >> /\ First(s, n)[1] = s[1]
           /\ Len(s) <= n => First(s, n) = s /\ After(s, n) = << >>
<1> DEFINE k == Least(n, Len(s))
<1>1. k \in 0 .. Len(s) /\ Len(s) \in Nat
  BY DEF Least
<1>2. k \in Int /\ Len(s) \in Int /\ k + 1 \in Int /\ 1 \in Int
  BY <1>1
<1>3. \A i \in 1 .. k : s[i] \in Byte
  BY <1>1
<1>4. \A i \in k + 1 .. Len(s) : s[i] \in Byte
  BY <1>1
<1> HIDE DEF k
<1>5. /\ SubSeq(s, 1, k) \in Seq(Byte)
      /\ Len(SubSeq(s, 1, k)) = IF 1 <= k THEN k - 1 + 1 ELSE 0
      /\ \A i \in 1 .. k - 1 + 1 : SubSeq(s, 1, k)[i] = s[1 + i - 1]
  BY <1>2, <1>3, SubSeqProperties
<1>6. SubSeq(s, k + 1, Len(s)) \in Seq(Byte)
  BY <1>2, <1>4, SubSeqProperties
<1>7. SubSeq(s, 1, k) \o SubSeq(s, k + 1, Len(s)) = s
  <2>1. 1 \in 1 .. Len(s) + 1 /\ k \in 1 - 1 .. Len(s) /\ Len(s) \in k .. Len(s)
    BY <1>1
  <2>2. SubSeq(s, 1, k) \o SubSeq(s, k + 1, Len(s)) = SubSeq(s, 1, Len(s))
    BY <2>1, ConcatAdjacentSubSeq
  <2> QED
    BY <2>2, SubSeqFull
<1>8. Len(SubSeq(s, 1, k)) = k
  BY <1>1, <1>5
<1>9. ASSUME s # << >>, n # 0
      PROVE  SubSeq(s, 1, k) # << >> /\ SubSeq(s, 1, k)[1] = s[1]
  <2>1. Len(s) # 0
    BY <1>9, EmptySeq
  <2>2. 1 <= k
    BY <1>1, <1>9, <2>1 DEF k, Least
  <2> QED
    BY <1>1, <1>5, <1>8, <2>2
<1>10. ASSUME Len(s) <= n
       PROVE  SubSeq(s, 1, k) = s /\ SubSeq(s, k + 1, Len(s)) = << >>
  <2>1. k = Len(s)
    BY <1>1, <1>10 DEF k, Least
  <2> QED
    BY <1>1, <2>1, SubSeqFull, SubSeqEmpty
<1> QED
  BY <1>5, <1>6, <1>7, <1>8, <1>9, <1>10 DEF First, After, k

\* The bytes of a packet: a string of its length that decrypts to it.
LEMMA BytesOfPacket ==
    ASSUME NEW packet \in Packet
    PROVE  /\ Bytes(packet) \in Seq(Byte)
           /\ Len(Bytes(packet)) = packet.len
           /\ packet.len \in Nat \ {0} /\ OVERHEAD <= packet.len
           /\ Bytes(packet) # << >>
           /\ \A i \in 1 .. packet.len : Bytes(packet)[i] = <<packet, i>>
           /\ Decrypts(Bytes(packet)) /\ Plaintext(Bytes(packet)) = packet
<1>1. packet.len \in Nat \ {0} /\ OVERHEAD <= packet.len
  BY ChannelAssumption DEF Packet
<1>2. \A i \in 1 .. packet.len : <<packet, i>> \in Byte
  BY DEF Byte
<1>3. Bytes(packet) \in [1 .. packet.len -> Byte]
  BY <1>2 DEF Bytes
<1>4. Bytes(packet) \in Seq(Byte) /\ Len(Bytes(packet)) = packet.len
  BY <1>1, <1>3
<1>5. \A i \in 1 .. packet.len : Bytes(packet)[i] = <<packet, i>>
  BY DEF Bytes
<1>6. Bytes(packet)[1][1] = packet
  BY <1>1, <1>5
<1>7. Bytes(packet) # << >>
  BY <1>1, <1>4
<1> QED
  BY <1>1, <1>4, <1>5, <1>6, <1>7 DEF Decrypts, Plaintext

-----------------------------------------------------------------------------
\* Type correctness: what arrives are bytes of packets that were sent, and
\* what an end decrypts is such a packet, however the stream is cut.
THEOREM ChannelTypes == Spec => []TypeOK
<1>1. Init => TypeOK
  <2> SUFFICES ASSUME Init PROVE TypeOK
    OBVIOUS
  <2>1. << >> \in Seq(Packet \X Nat)
    OBVIOUS
  <2>2. last \in [Ends -> Packet \cup {Nothing}]
    BY DEF Init
  <2>3. unsent \in [Ends -> Seq(Packet \X Nat)] /\ arrived \in [Ends -> Seq(Packet \X Nat)]
    BY <2>1 DEF Init
  <2>4. pc \in [Ends -> {"idle", "await", "closed"}] /\ long \in BOOLEAN
    BY DEF Init
  <2>5. sent \in 0 .. MaxPackets /\ errors \in Nat
    BY ChannelAssumption DEF Init
  <2> QED
    BY <2>2, <2>3, <2>4, <2>5 DEF TypeOK
<1>2. TypeOK /\ [Next]_vars => TypeOK'
  <2> SUFFICES ASSUME TypeOK, [Next]_vars PROVE TypeOK'
    OBVIOUS
  <2> USE DEF TypeOK
  <2>1. ASSUME NEW e \in Ends, NEW n \in Sizes, SendEncrypted(e, n)
        PROVE  TypeOK'
    <3> DEFINE packet == [id |-> sent', len |-> n]
    <3>1. sent' \in 1 .. MaxPackets
      BY <2>1, ChannelAssumption DEF SendEncrypted
    <3>2. packet \in Packet
      BY <3>1 DEF Packet
    <3>3. Bytes(packet) \in Seq(Byte)
      BY <3>2, BytesOfPacket
    <3>4. Other(e) \in Ends
      BY DEF Other, Ends
    <3>5. unsent[Other(e)] \o Bytes(packet) \in Seq(Byte)
      BY <3>3, <3>4 DEF Byte
    <3>6. unsent' \in [Ends -> Seq(Byte)]
      <4>1. unsent' = [unsent EXCEPT ![Other(e)] = @ \o Bytes(packet)]
        BY <2>1 DEF SendEncrypted
      <4>2. unsent \in [Ends -> Seq(Byte)]
        BY DEF Byte
      <4> HIDE DEF packet, TypeOK
      <4> QED
        BY <3>4, <3>5, <4>1, <4>2
    <3>7. pc' \in [Ends -> {"idle", "await", "closed"}] /\ long' \in BOOLEAN
      BY <2>1 DEF SendEncrypted
    <3> QED
      BY <2>1, <3>1, <3>6, <3>7 DEF SendEncrypted, Byte
  <2>2. ASSUME NEW e \in Ends, Segment(e)
        PROVE  TypeOK'
    <3>1. unsent[e] \in Seq(Byte) /\ arrived[e] \in Seq(Byte) /\ MSS \in Nat
      BY ChannelAssumption DEF Byte
    <3>2. First(unsent[e], MSS) \in Seq(Byte) /\ After(unsent[e], MSS) \in Seq(Byte)
      BY <3>1, Cut
    <3>3. arrived[e] \o First(unsent[e], MSS) \in Seq(Byte)
      BY <3>1, <3>2
    <3> QED
      BY <2>2, <3>2, <3>3 DEF Segment, Byte
  <2>3. ASSUME NEW e \in Ends, ReceiveEncrypted(e)
        PROVE  TypeOK'
    <3> DEFINE bytes == First(arrived[e], RECV_MAX)
    <3>1. arrived[e] \in Seq(Byte) /\ RECV_MAX \in Nat /\ RECV_MAX # 0
      BY ChannelAssumption DEF Byte
    <3>2. /\ After(arrived[e], RECV_MAX) \in Seq(Byte)
          /\ bytes \in Seq(Byte) /\ bytes # << >>
      BY <2>3, <3>1, Cut DEF ReceiveEncrypted
    <3>3. Plaintext(bytes) \in Packet
      <4> HIDE DEF bytes
      <4>1. bytes[1] \in Byte
        BY <3>2
      <4> QED
        BY <4>1 DEF Plaintext, Byte
    <3> HIDE DEF bytes
    <3>4. /\ last' = [last EXCEPT ![e] = Plaintext(bytes)] \/ last' = last
          /\ errors' = errors + 1 \/ errors' = errors
          /\ \/ pc' = [pc EXCEPT ![e] = "idle"]
             \/ pc' = [d \in Ends |-> "closed"]
          /\ arrived' = [arrived EXCEPT ![e] = After(@, RECV_MAX)]
          /\ UNCHANGED <<unsent, sent, long>>
      BY <2>3 DEF ReceiveEncrypted, bytes
    <3>5. last' \in [Ends -> Packet \cup {Nothing}]
      BY <3>3, <3>4
    <3>6. arrived' \in [Ends -> Seq(Byte)]
      BY <3>2, <3>4 DEF Byte
    <3>7. pc' \in [Ends -> {"idle", "await", "closed"}]
      <4>1. CASE pc' = [pc EXCEPT ![e] = "idle"]
        BY <4>1
      <4>2. CASE pc' = [d \in Ends |-> "closed"]
        BY <4>2
      <4> QED
        BY <3>4, <4>1, <4>2
    <3>8. /\ unsent' \in [Ends -> Seq(Packet \X Nat)]
          /\ sent' \in 0 .. MaxPackets /\ long' \in BOOLEAN /\ errors' \in Nat
      BY <3>4
    <3>9. arrived' \in [Ends -> Seq(Packet \X Nat)]
      BY <3>6 DEF Byte
    <3> QED
      BY <3>5, <3>7, <3>8, <3>9, Zenon
  <2>4. CASE UNCHANGED vars
    BY <2>4 DEF vars
  <2> QED
    BY <2>1, <2>2, <2>3, <2>4 DEF Next
<1> QED
  BY <1>1, <1>2, PTL DEF Spec

-----------------------------------------------------------------------------
\* The turns hold at the start, and every step keeps them.
LEMMA TurnInvHolds == Spec => []TurnInv
<1>1. Init => TurnInv
  <2> SUFFICES ASSUME Init PROVE HasTurn("init") /\ errors = 0
    BY DEF TurnInv, Ends
  <2> QED
    BY DEF Init, HasTurn, Empty, Other, Ends, Nothing
<1>2. TypeOK /\ TurnInv /\ [Next]_vars => TurnInv'
  <2> SUFFICES ASSUME TypeOK, TurnInv, [Next]_vars, ~long'
               PROVE  errors' = 0 /\ \E e \in Ends : HasTurn(e)'
    BY DEF TurnInv
  <2>1. \A e \in Ends : Other(e) \in Ends /\ Other(e) # e /\ Other(Other(e)) = e
                        /\ Ends = {e, Other(e)}
    BY DEF Other, Ends
  <2>2. ASSUME NEW d \in Ends, NEW n \in Sizes, SendEncrypted(d, n)
        PROVE  errors' = 0 /\ \E e \in Ends : HasTurn(e)'
    <3> DEFINE packet == [id |-> sent', len |-> n]
               o == Other(d)
    <3>1. /\ pc[d] = "idle" /\ sent' = sent + 1
          /\ unsent' = [unsent EXCEPT ![o] = @ \o Bytes(packet)]
          /\ pc' = [pc EXCEPT ![d] = "await"]
          /\ ~long /\ ~(n > Least(MSS, RECV_MAX))
          /\ UNCHANGED <<arrived, last, errors>>
      BY <2>2 DEF SendEncrypted
    <3>2. errors = 0 /\ HasTurn(d)
      BY <2>1, <3>1 DEF TurnInv, HasTurn
    <3>3. pc[o] = "await" /\ Empty(o) /\ Empty(d)
      BY <3>1, <3>2 DEF HasTurn
    <3>4. packet \in Packet /\ packet.id = sent' /\ packet.len = n
      BY <2>2, ChannelAssumption DEF SendEncrypted, TypeOK, Packet
    <3>5. n <= Least(MSS, RECV_MAX)
      BY <3>1, ChannelAssumption DEF Least
    <3>6. unsent'[o] = Bytes(packet) /\ unsent'[d] = << >>
      <4>1. << >> \o Bytes(packet) = Bytes(packet)
        BY <3>4, BytesOfPacket, ConcatEmptySeq
      <4> QED
        BY <2>1, <3>1, <3>3, <4>1 DEF Empty, TypeOK
    <3>7. pc'[o] = "await" /\ pc'[d] = "await"
      BY <2>1, <3>1, <3>3 DEF TypeOK
    <3> HIDE DEF packet, o
    <3>8. LastOnItsWay(o)'
      BY <3>1, <3>3, <3>4, <3>5, <3>6 DEF LastOnItsWay, Empty
    <3>9. HasTurn(o)'
      BY <2>1, <3>1, <3>3, <3>6, <3>7, <3>8 DEF HasTurn, Empty, o
    <3> QED
      BY <2>1, <3>1, <3>2, <3>9 DEF o
  <2>3. ASSUME NEW d \in Ends, Segment(d)
        PROVE  errors' = 0 /\ \E e \in Ends : HasTurn(e)'
    <3>1. /\ unsent[d] # << >>
          /\ arrived' = [arrived EXCEPT ![d] = @ \o First(unsent[d], MSS)]
          /\ unsent' = [unsent EXCEPT ![d] = After(@, MSS)]
          /\ UNCHANGED <<pc, last, sent, errors, long>>
      BY <2>3 DEF Segment
    <3>2. errors = 0 /\ HasTurn(d) /\ pc[d] = "await" /\ LastOnItsWay(d)
      BY <2>1, <3>1 DEF TurnInv, HasTurn, Empty
    <3>3. PICK packet \in Packet :
              /\ packet.id = sent
              /\ packet.len <= Least(MSS, RECV_MAX)
              /\ unsent[d] = Bytes(packet) /\ arrived[d] = << >>
      BY <3>1, <3>2 DEF LastOnItsWay
    <3>4. Len(unsent[d]) <= MSS /\ unsent[d] \in Seq(Byte)
      BY <3>3, BytesOfPacket, ChannelAssumption DEF Least
    <3>5. First(unsent[d], MSS) = Bytes(packet) /\ After(unsent[d], MSS) = << >>
      BY <3>3, <3>4, Cut, ChannelAssumption
    <3>6. << >> \o Bytes(packet) = Bytes(packet)
      BY <3>3, BytesOfPacket, ConcatEmptySeq
    <3>7. unsent'[d] = << >> /\ arrived'[d] = Bytes(packet)
      BY <3>1, <3>3, <3>5, <3>6 DEF TypeOK
    <3>8. LastOnItsWay(d)'
      BY <3>1, <3>3, <3>7 DEF LastOnItsWay
    <3>9. HasTurn(d)'
      BY <2>1, <3>1, <3>2, <3>8 DEF HasTurn, Empty, TypeOK
    <3> QED
      BY <3>1, <3>2, <3>9
  <2>4. ASSUME NEW d \in Ends, ReceiveEncrypted(d)
        PROVE  errors' = 0 /\ \E e \in Ends : HasTurn(e)'
    <3> DEFINE bytes == First(arrived[d], RECV_MAX)
    <3>1. pc[d] = "await" /\ arrived[d] # << >> /\ ~long
      BY <2>4 DEF ReceiveEncrypted
    <3>2. errors = 0 /\ HasTurn(d) /\ LastOnItsWay(d)
      BY <2>1, <3>1 DEF TurnInv, HasTurn, Empty
    <3>3. PICK packet \in Packet :
              /\ packet.id = sent
              /\ packet.len <= Least(MSS, RECV_MAX)
              /\ unsent[d] = << >> /\ arrived[d] = Bytes(packet)
      BY <3>1, <3>2 DEF LastOnItsWay
    <3>4. Len(arrived[d]) <= RECV_MAX /\ arrived[d] \in Seq(Byte)
      BY <3>3, BytesOfPacket, ChannelAssumption DEF Least
    <3>5. bytes = Bytes(packet) /\ After(arrived[d], RECV_MAX) = << >>
      BY <3>3, <3>4, Cut, ChannelAssumption
    <3>6. Decrypts(bytes) /\ Plaintext(bytes) = packet
      BY <3>3, <3>5, BytesOfPacket
    <3>7. /\ last' = [last EXCEPT ![d] = packet]
          /\ pc' = [pc EXCEPT ![d] = "idle"]
          /\ arrived' = [arrived EXCEPT ![d] = << >>]
          /\ UNCHANGED <<errors, unsent, sent, long>>
      BY <2>4, <3>5, <3>6 DEF ReceiveEncrypted
    <3>8. HasTurn(d)'
      BY <2>1, <3>2, <3>3, <3>7 DEF HasTurn, Empty, TypeOK
    <3> QED
      BY <3>2, <3>7, <3>8
  <2>5. CASE UNCHANGED vars
    BY <2>5 DEF vars, TurnInv, HasTurn, Empty, LastOnItsWay
  <2> QED
    BY <2>2, <2>3, <2>4, <2>5 DEF Next
<1> QED
  BY <1>1, <1>2, ChannelTypes, PTL DEF Spec

\* Packets that fit one segment and one receive need no framing, although
\* receive_encypted_data takes whatever one recv returns for a packet.
THEOREM ChannelInStep == Spec => []InStep
<1>1. TurnInv => InStep
  <2> SUFFICES ASSUME TurnInv, ~long
               PROVE  errors = 0 /\ \A e \in Ends : pc[e] = "idle" => last[e].id = sent
    BY DEF InStep
  <2>1. PICK d \in Ends : errors = 0 /\ HasTurn(d)
    BY DEF TurnInv
  <2>2. Ends = {d, Other(d)}
    BY DEF Ends, Other
  <2> QED
    BY <2>1, <2>2 DEF HasTurn
<1> QED
  BY <1>1, TurnInvHolds, PTL

-----------------------------------------------------------------------------
(***************************************************************************)
(* What Starts, a recursive function, returns.                             *)
(***************************************************************************)
StartsOf(f, bytes) ==
    f = [n \in 0 .. Len(bytes) |->
            IF n = 0 THEN << >>
            ELSE IF bytes[n][2] = 1 THEN Append(f[n - 1], bytes[n][1])
            ELSE f[n - 1]]

\* One step of that recursion.
LEMMA StartsStep ==
    ASSUME NEW s \in Seq(Byte), NEW f, StartsOf(f, s)
    PROVE  /\ f[0] = << >>
           /\ \A n \in 0 .. Len(s) - 1 :
                  /\ s[n + 1][2] = 1 => f[n + 1] = Append(f[n], s[n + 1][1])
                  /\ s[n + 1][2] # 1 => f[n + 1] = f[n]
<1>1. Len(s) \in Nat
  OBVIOUS
<1>2. 0 \in 0 .. Len(s)
  BY <1>1
<1>3. f[0] = << >>
  BY <1>2, Zenon DEF StartsOf
<1>4. ASSUME NEW n \in 0 .. Len(s) - 1
      PROVE  /\ s[n + 1][2] = 1 => f[n + 1] = Append(f[n], s[n + 1][1])
             /\ s[n + 1][2] # 1 => f[n + 1] = f[n]
  <2>1. PICK k \in 0 .. Len(s) : k = n + 1 /\ k # 0 /\ k - 1 = n
    BY <1>1
  <2>2. f[k] = IF k = 0 THEN << >>
               ELSE IF s[k][2] = 1 THEN Append(f[k - 1], s[k][1])
               ELSE f[k - 1]
    BY StartsOf(f, s), Zenon DEF StartsOf
  <2>3. CASE s[k][2] = 1
    <3>1. f[k] = Append(f[k - 1], s[k][1])
      BY <2>1, <2>2, <2>3, Zenon
    <3> QED
      BY <2>1, <2>3, <3>1, Zenon
  <2>4. CASE s[k][2] # 1
    <3>1. f[k] = f[k - 1]
      BY <2>1, <2>2, <2>4, Zenon
    <3> QED
      BY <2>1, <2>4, <3>1, Zenon
  <2> QED
    BY <2>3, <2>4
<1> QED
  BY <1>3, <1>4

Begins(s, t) == Len(s) <= Len(t) /\ \A i \in 1 .. Len(s) : s[i] = t[i]

\* Two functions for strings of which one begins with the other agree as far
\* as both go.
LEMMA StartsAgree ==
    ASSUME NEW s \in Seq(Byte), NEW t \in Seq(Byte), Begins(s, t),
           NEW f, StartsOf(f, s), NEW g, StartsOf(g, t)
    PROVE  \A n \in 0 .. Len(s) : f[n] = g[n]
<1> DEFINE S == {n \in 0 .. Len(s) : f[n] = g[n]}
<1>1. Len(s) \in Nat /\ Len(t) \in Nat /\ Len(s) <= Len(t)
  BY DEF Begins
<1>2. 0 \in S
  BY <1>1, StartsStep
<1>3. ASSUME NEW n \in 0 .. Len(s) - 1, n \in S PROVE n + 1 \in S
  <2>1. /\ n + 1 \in 0 .. Len(s) /\ n + 1 \in 1 .. Len(s)
        /\ n \in 0 .. Len(t) - 1
    BY <1>1
  <2>2. s[n + 1] = t[n + 1] /\ f[n] = g[n]
    BY <1>3, <2>1 DEF Begins
  <2>3. /\ s[n + 1][2] = 1 => f[n + 1] = Append(f[n], s[n + 1][1])
        /\ s[n + 1][2] # 1 => f[n + 1] = f[n]
    BY StartsStep, Zenon
  <2>4. /\ t[n + 1][2] = 1 => g[n + 1] = Append(g[n], t[n + 1][1])
        /\ t[n + 1][2] # 1 => g[n + 1] = g[n]
    BY <2>1, StartsStep, Zenon
  <2>5. f[n + 1] = g[n + 1]
    BY <2>2, <2>3, <2>4, Zenon
  <2> QED
    BY <2>1, <2>5
<1> HIDE DEF S
<1>4. \A n \in 0 .. Len(s) : n \in S
  BY <1>1, <1>2, <1>3, UpToInduction
<1> QED
  BY <1>4 DEF S

\* Starts is the last value of a function that satisfies its recursion.
LEMMA StartsFunction ==
    ASSUME NEW bytes \in Seq(Byte)
    PROVE  \E f \in [0 .. Len(bytes) -> Seq(Packet)] :
               StartsOf(f, bytes) /\ Starts(bytes) = f[Len(bytes)]
<1> DEFINE V == Seq(Packet)
           base == << >>
           m == Len(bytes)
           step == [p \in (1 .. m) \X V |->
                       IF bytes[p[1]][2] = 1 THEN Append(p[2], bytes[p[1]][1])
                       ELSE p[2]]
           starts[n \in 0 .. Len(bytes)] ==
               IF n = 0 THEN << >>
               ELSE IF bytes[n][2] = 1 THEN Append(starts[n - 1], bytes[n][1])
               ELSE starts[n - 1]
<1>1. m \in Nat /\ base \in V
  OBVIOUS
<1>2. \A n \in 1 .. m : bytes[n][1] \in Packet
  BY DEF Byte
<1>3. step \in [(1 .. m) \X V -> V]
  <2>1. \A n \in 1 .. m, v \in V :
            (IF bytes[n][2] = 1 THEN Append(v, bytes[n][1]) ELSE v) \in V
    BY <1>2
  <2> QED
    BY <2>1
<1>4. PICK f \in [0 .. m -> V] : Loop(f, m, base, step)
  <2> HIDE DEF V, base, m, step
  <2> QED
    BY <1>1, <1>3, LoopExists
<1>5. StartsOf(f, bytes)
  <2>1. \A n \in 0 .. m : n # 0 =>
            step[<<n, f[n - 1]>>] =
                IF bytes[n][2] = 1 THEN Append(f[n - 1], bytes[n][1]) ELSE f[n - 1]
    <3> TAKE n \in 0 .. m
    <3> HAVE n # 0
    <3>1. n \in 1 .. m /\ f[n - 1] \in V
      BY <1>1
    <3> HIDE DEF V, m
    <3> QED
      BY <3>1
  <2> HIDE DEF step
  <2> QED
    BY <1>4, <2>1 DEF StartsOf, Loop
<1>6. StartsOf(starts, bytes)
  BY <1>5, Zenon DEF StartsOf
<1>7. Starts(bytes) = starts[Len(bytes)]
  BY DEF Starts
<1> HIDE DEF starts
<1>8. \A n \in 0 .. Len(bytes) : f[n] = starts[n]
  <2>1. Begins(bytes, bytes)
    BY <1>1 DEF Begins
  <2> QED
    BY <1>5, <1>6, <2>1, StartsAgree
<1> QED
  BY <1>1, <1>5, <1>7, <1>8

\* Appending to a concatenation appends to its second part.
LEMMA AppendConcat ==
    ASSUME NEW x \in Seq(Packet), NEW y \in Seq(Packet), NEW z \in Packet
    PROVE  x \o Append(y, z) = Append(x \o y, z)
<1>1. Append(y, z) = y \o <<z>> /\ <<z>> \in Seq(Packet)
  BY AppendIsConcat
<1>2. x \o y \in Seq(Packet)
  BY ConcatProperties
<1>3. Append(x \o y, z) = (x \o y) \o <<z>>
  BY <1>2, AppendIsConcat
<1> QED
  BY <1>1, <1>3, ConcatAssociative

\* The packets that begin in a concatenation are those that begin in its
\* parts, in that order.
LEMMA StartsConcat ==
    ASSUME NEW s \in Seq(Byte), NEW t \in Seq(Byte)
    PROVE  /\ Starts(s) \in Seq(Packet) /\ Starts(t) \in Seq(Packet)
           /\ Starts(s \o t) = Starts(s) \o Starts(t)
<1>1. PICK u \in Seq(Byte) : u = s \o t
  BY ConcatProperties
<1>2. PICK k \in Nat : k = Len(s)
  OBVIOUS
<1>3. PICK m \in Nat : m = Len(t)
  OBVIOUS
<1>4. /\ Len(u) = k + m
      /\ \A i \in 1 .. k : s[i] = u[i]
      /\ \A i \in 1 .. m : u[k + i] = t[i]
  BY <1>1, <1>2, <1>3, ConcatProperties
<1>5. PICK f : /\ f \in [0 .. k -> Seq(Packet)]
               /\ StartsOf(f, s) /\ Starts(s) = f[k]
  BY <1>2, StartsFunction
<1>6. PICK g \in [0 .. m -> Seq(Packet)] : StartsOf(g, t) /\ Starts(t) = g[m]
  BY <1>3, StartsFunction
<1>7. PICK h : /\ h \in [0 .. k + m -> Seq(Packet)]
               /\ StartsOf(h, u) /\ Starts(u) = h[k + m]
  BY <1>4, StartsFunction
<1>8. PICK x \in Seq(Packet) : x = f[k] /\ x = h[k]
  <2>1. \A x1 \in Seq(Byte), x2 \in Seq(Byte) : \A f1, g1 :
            Begins(x1, x2) /\ StartsOf(f1, x1) /\ StartsOf(g1, x2)
            => \A n \in 0 .. Len(x1) : f1[n] = g1[n]
    BY StartsAgree
  <2>2. s \in Seq(Byte) /\ u \in Seq(Byte) /\ Begins(s, u)
    BY <1>2, <1>4 DEF Begins
  <2>3. StartsOf(f, s) /\ StartsOf(h, u)
    BY <1>5, <1>7
  <2>4. \A n \in 0 .. Len(s) : f[n] = h[n]
    BY ONLY <2>1, <2>2, <2>3
  <2>5. k \in 0 .. k
    OBVIOUS
  <2> QED
    BY <1>2, <1>5, <2>4, <2>5
<1> DEFINE S == {n \in 0 .. m : h[k + n] = x \o g[n]}
<1>9. 0 \in S
  <2>1. g[0] = << >> /\ 0 \in 0 .. m /\ k + 0 = k
    <3>1. g[0] = << >>
      BY <1>6, StartsStep, Zenon
    <3> QED
      BY <3>1
  <2>2. x \o << >> = x
    BY ConcatEmptySeq
  <2> QED
    BY <1>8, <2>1, <2>2
<1>10. ASSUME NEW n \in 0 .. m - 1, n \in S PROVE n + 1 \in S
  <2>1. /\ n + 1 \in 0 .. m /\ n + 1 \in 1 .. m /\ n \in 0 .. m
        /\ n \in 0 .. Len(t) - 1
        /\ k + n \in 0 .. Len(u) - 1 /\ k + (n + 1) = (k + n) + 1
    BY <1>3, <1>4
  <2>2. PICK b \in Byte : b = t[n + 1] /\ b = u[(k + n) + 1]
    BY <1>3, <1>4, <2>1
  <2>3. PICK y \in Seq(Packet) : y = g[n]
    BY <2>1
  <2>4. h[k + n] = x \o y
    BY <1>10, <2>3
  <2>5. /\ b[2] = 1 => g[n + 1] = Append(y, b[1])
        /\ b[2] # 1 => g[n + 1] = y
    <3>1. /\ t[n + 1][2] = 1 => g[n + 1] = Append(g[n], t[n + 1][1])
          /\ t[n + 1][2] # 1 => g[n + 1] = g[n]
      BY <1>6, <2>1, StartsStep, Zenon
    <3> QED
      BY ONLY <2>2, <2>3, <3>1
  <2>6. /\ b[2] = 1 => h[(k + n) + 1] = Append(x \o y, b[1])
        /\ b[2] # 1 => h[(k + n) + 1] = x \o y
    <3>1. PICK j \in 0 .. Len(u) - 1 : j = k + n
      BY <2>1
    <3>2. /\ u[j + 1][2] = 1 => h[j + 1] = Append(h[j], u[j + 1][1])
          /\ u[j + 1][2] # 1 => h[j + 1] = h[j]
      BY <1>7, StartsStep, Zenon
    <3> QED
      BY ONLY <2>2, <2>4, <3>1, <3>2
  <2>7. b[1] \in Packet
    BY DEF Byte
  <2>8. x \o Append(y, b[1]) = Append(x \o y, b[1])
    BY <2>7, AppendConcat
  <2>9. h[(k + n) + 1] = x \o g[n + 1]
    BY <2>5, <2>6, <2>8, Zenon
  <2> QED
    BY <2>1, <2>9
<1> HIDE DEF S
<1>11. \A n \in 0 .. m : n \in S
  BY <1>9, <1>10, UpToInduction
<1>12. h[k + m] = x \o g[m]
  <2>1. m \in 0 .. m
    OBVIOUS
  <2> QED
    BY <1>11, <2>1, Zenon DEF S
<1>13. g[m] \in Seq(Packet)
  OBVIOUS
<1> QED
  BY <1>1, <1>5, <1>6, <1>7, <1>8, <1>12, <1>13, Zenon

\* One packet begins in the bytes of a packet.
LEMMA StartsBytes ==
    ASSUME NEW packet \in Packet
    PROVE  Starts(Bytes(packet)) = <<packet>>
<1> DEFINE s == Bytes(packet)
           m == packet.len
<1>1. /\ s \in Seq(Byte) /\ Len(s) = m /\ m \in Nat \ {0}
      /\ \A i \in 1 .. m : s[i] = <<packet, i>>
  BY BytesOfPacket
<1> HIDE DEF s, m
<1>2. PICK f \in [0 .. m -> Seq(Packet)] : StartsOf(f, s) /\ Starts(s) = f[m]
  BY <1>1, StartsFunction
<1> DEFINE S == {n \in 0 .. m : n # 0 => f[n] = <<packet>>}
<1>3. 0 \in S
  BY <1>1
<1>4. ASSUME NEW n \in 0 .. m - 1, n \in S PROVE n + 1 \in S
  <2>1. n + 1 \in 0 .. Len(s) /\ n + 1 # 0 /\ (n + 1) - 1 = n /\ n + 1 \in 1 .. m
    BY <1>1
  <2>2. f[n + 1] = IF s[n + 1][2] = 1 THEN Append(f[n], s[n + 1][1]) ELSE f[n]
    BY <1>2, <2>1, Zenon DEF StartsOf
  <2>3. s[n + 1][1] = packet /\ s[n + 1][2] = n + 1
    BY <1>1, <2>1
  <2>4. CASE n = 0
    <3>1. f[0] = << >>
      BY <1>1, <1>2 DEF StartsOf
    <3> QED
      BY <2>1, <2>2, <2>3, <2>4, <3>1
  <2>5. CASE n # 0
    BY <1>4, <2>1, <2>2, <2>3, <2>5
  <2> QED
    BY <2>4, <2>5
<1> HIDE DEF S
<1>5. \A n \in 0 .. m : n \in S
  BY <1>1, <1>3, <1>4, UpToInduction
<1> QED
  BY <1>1, <1>2, <1>5 DEF S, s

-----------------------------------------------------------------------------
(***************************************************************************)
(* The packets on their way to an end: what the link of packets holds.     *)
(***************************************************************************)
Under(e) == Starts(arrived[e] \o unsent[e])

\* Taking a part off the front of a sequence of packets.
LEMMA TakeFront ==
    ASSUME NEW x \in Seq(Packet), NEW y \in Seq(Packet)
    PROVE  /\ x \o y \in Seq(Packet)
           /\ Len(x \o y) = Len(x) + Len(y)
           /\ SubSeq(x \o y, Len(x) + 1, Len(x \o y)) = y
<1>1. /\ x \o y \in Seq(Packet)
      /\ Len(x \o y) = Len(x) + Len(y) /\ Len(x) \in Nat /\ Len(y) \in Nat
  BY ConcatProperties
<1>2. CASE Len(y) = 0
  <2>1. y = << >>
    BY <1>2, EmptySeq
  <2>2. SubSeq(x \o y, Len(x) + 1, Len(x)) = << >>
    BY <1>1, SubSeqEmpty
  <2> QED
    BY <1>1, <1>2, <2>1, <2>2
<1>3. CASE Len(y) # 0
  <2>1. /\ Len(x) + 1 \in Len(x) + 1 .. Len(x) + Len(y)
        /\ Len(x) + Len(y) \in Len(x) + 1 .. Len(x) + Len(y)
        /\ (Len(x) + 1) - Len(x) = 1 /\ (Len(x) + Len(y)) - Len(x) = Len(y)
    BY <1>1, <1>3
  <2>2. SubSeq(x \o y, Len(x) + 1, Len(x) + Len(y)) = SubSeq(y, 1, Len(y))
    BY <2>1, SubSeqOfConcat2
  <2> QED
    BY <1>1, <2>2, SubSeqFull
<1> QED
  BY <1>2, <1>3

\* Strings of bytes are put together in any order.
LEMMA BytesAssociate ==
    ASSUME NEW a \in Seq(Byte), NEW b \in Seq(Byte), NEW c \in Seq(Byte)
    PROVE  (a \o b) \o c = a \o (b \o c) /\ a \o b \in Seq(Byte)
<1>1. (a \o b) \o c = a \o (b \o c)
  BY ConcatAssociative, SMT
<1>2. a \o b \in Seq(Byte)
  OBVIOUS
<1> QED
  BY <1>1, <1>2

\* Sending puts the packet on its way.
LEMMA SendUnder ==
    ASSUME TypeOK, NEW e \in Ends, NEW n \in Sizes, SendEncrypted(e, n)
    PROVE  \E packet \in Packet :
               /\ Under(Other(e))' = Append(Under(Other(e)), packet)
               /\ \A d \in Ends \ {Other(e)} : Under(d)' = Under(d)
               /\ UNCHANGED last
<1> DEFINE packet == [id |-> sent', len |-> n]
<1>1. PICK o \in Ends : o = Other(e)
  BY DEF Other, Ends
<1>2. packet \in Packet
  BY ChannelAssumption DEF SendEncrypted, TypeOK, Packet
<1>3. /\ unsent' = [unsent EXCEPT ![o] = @ \o Bytes(packet)]
      /\ UNCHANGED <<arrived, last>>
  BY <1>1 DEF SendEncrypted
<1> HIDE DEF packet
<1>4. PICK a \in Seq(Byte) : a = arrived[o]
  BY DEF TypeOK, Byte
<1>5. PICK u \in Seq(Byte) : u = unsent[o]
  BY DEF TypeOK, Byte
<1>6. PICK b \in Seq(Byte) : b = Bytes(packet) /\ Starts(b) = <<packet>>
  BY <1>2, BytesOfPacket, StartsBytes
<1>7. arrived'[o] = a /\ unsent'[o] = u \o b
  BY <1>3, <1>4, <1>5, <1>6 DEF TypeOK
<1>8. a \o (u \o b) = (a \o u) \o b /\ a \o u \in Seq(Byte)
  BY ConcatAssociative, ConcatProperties
<1>9. Starts((a \o u) \o b) = Starts(a \o u) \o <<packet>>
      /\ Starts(a \o u) \in Seq(Packet)
  BY <1>6, <1>8, StartsConcat
<1>10. Under(o)' = Append(Under(o), packet)
  <2>1. Append(Starts(a \o u), packet) = Starts(a \o u) \o <<packet>>
    BY <1>2, <1>9, AppendIsConcat
  <2> QED
    BY <1>4, <1>5, <1>7, <1>8, <1>9, <2>1 DEF Under
<1>11. ASSUME NEW d \in Ends \ {o} PROVE Under(d)' = Under(d)
  BY <1>3 DEF Under, TypeOK
<1> QED
  BY <1>1, <1>2, <1>3, <1>10, <1>11

\* A segment moves bytes from unsent to arrived and leaves the packets as
\* they are.
LEMMA SegmentUnder ==
    ASSUME TypeOK, NEW e \in Ends, Segment(e)
    PROVE  (\A d \in Ends : Under(d)' = Under(d)) /\ UNCHANGED last
<1>1. /\ arrived' = [arrived EXCEPT ![e] = @ \o First(unsent[e], MSS)]
      /\ unsent' = [unsent EXCEPT ![e] = After(@, MSS)]
      /\ UNCHANGED last
  BY DEF Segment
<1>2. PICK a \in Seq(Byte) : a = arrived[e]
  BY DEF TypeOK, Byte
<1>3. PICK u \in Seq(Byte) : u = unsent[e]
  BY DEF TypeOK, Byte
<1>4. PICK b \in Seq(Byte), c \in Seq(Byte) :
          b = First(u, MSS) /\ c = After(u, MSS) /\ b \o c = u
  BY Cut, ChannelAssumption
<1>5. arrived'[e] = a \o b /\ unsent'[e] = c
  BY <1>1, <1>2, <1>3, <1>4 DEF TypeOK
<1>6. (a \o b) \o c = a \o u
  <2>1. (a \o b) \o c = a \o (b \o c)
    BY ONLY a \in Seq(Byte), b \in Seq(Byte), c \in Seq(Byte), BytesAssociate
  <2> QED
    BY ONLY <1>4, <2>1
<1>7. Under(e)' = Under(e)
  BY <1>2, <1>3, <1>5, <1>6 DEF Under
<1>8. ASSUME NEW d \in Ends \ {e} PROVE Under(d)' = Under(d)
  BY <1>1 DEF Under, TypeOK
<1> QED
  BY <1>1, <1>7, <1>8

\* A receive takes the packets that begin in what recv returned; if that is
\* one packet, the end gets that packet.
LEMMA ReceiveUnder ==
    ASSUME TypeOK, NEW e \in Ends, ReceiveEncrypted(e)
    PROVE  \E x \in Seq(Packet), y \in Seq(Packet) :
               /\ Under(e) = x \o y /\ Under(e)' = y
               /\ \A d \in Ends \ {e} : Under(d)' = Under(d)
               /\ \/ UNCHANGED last
                  \/ \E packet \in Packet :
                        x = <<packet>> /\ last' = [last EXCEPT ![e] = packet]
<1>1. PICK a \in Seq(Byte) : a = arrived[e] /\ a # << >>
  BY DEF TypeOK, Byte, ReceiveEncrypted
<1>2. PICK u \in Seq(Byte) : u = unsent[e]
  BY DEF TypeOK, Byte
<1>3. PICK b \in Seq(Byte), c \in Seq(Byte) :
          /\ b = First(a, RECV_MAX) /\ c = After(a, RECV_MAX)
          /\ b \o c = a /\ b # << >>
  <2>1. RECV_MAX \in Nat /\ RECV_MAX # 0
    BY ChannelAssumption
  <2>2. /\ First(a, RECV_MAX) \in Seq(Byte) /\ After(a, RECV_MAX) \in Seq(Byte)
        /\ First(a, RECV_MAX) \o After(a, RECV_MAX) = a
        /\ First(a, RECV_MAX) # << >>
    BY <1>1, <2>1, Cut
  <2> QED
    BY <2>2
<1>4. /\ arrived' = [arrived EXCEPT ![e] = After(@, RECV_MAX)]
      /\ UNCHANGED unsent
      /\ \/ Decrypts(b) /\ last' = [last EXCEPT ![e] = Plaintext(b)]
         \/ UNCHANGED last
  BY <1>1, <1>3 DEF ReceiveEncrypted
<1>5. arrived'[e] = c /\ unsent'[e] = u
  BY <1>1, <1>2, <1>3, <1>4 DEF TypeOK
<1>6. (b \o c) \o u = b \o (c \o u) /\ c \o u \in Seq(Byte)
  BY ONLY b \in Seq(Byte), c \in Seq(Byte), u \in Seq(Byte), BytesAssociate
<1>7. PICK x \in Seq(Packet), y \in Seq(Packet) :
          x = Starts(b) /\ y = Starts(c \o u) /\ Starts(b \o (c \o u)) = x \o y
  BY <1>6, StartsConcat
<1>8. Under(e) = x \o y /\ Under(e)' = y
  BY <1>1, <1>2, <1>3, <1>5, <1>6, <1>7 DEF Under
<1>9. ASSUME NEW d \in Ends \ {e} PROVE Under(d)' = Under(d)
  BY <1>4 DEF Under, TypeOK
<1>10. ASSUME Decrypts(b)
       PROVE  \E packet \in Packet : x = <<packet>> /\ Plaintext(b) = packet
  <2>1. PICK packet \in Packet : packet = b[1][1]
    <3>1. b[1] \in Byte
      BY <1>3
    <3> QED
      BY <3>1 DEF Byte
  <2>2. b = Bytes(packet) /\ Plaintext(b) = packet
    BY <1>10, <2>1 DEF Decrypts, Plaintext
  <2> QED
    BY <1>7, <2>2, StartsBytes
<1> QED
  BY <1>4, <1>8, <1>9, <1>10

\* However TCP cuts the stream and whatever the lengths, the channel is a
\* link of packets: what receive_encypted_data returns are packets that were
\* sent, whole, in their order and each at most once.
THEOREM ChannelImplementsLink == Spec => ImplementsLink
<1>1. Init => Link!Init
  <2> SUFFICES ASSUME Init PROVE Link!Init
    OBVIOUS
  <2>1. << >> \in Seq(Byte) /\ << >> \o << >> = << >>
    BY ConcatEmptySeq
  <2>2. Starts(<< >>) = << >>
    <3>1. PICK f : StartsOf(f, << >>) /\ Starts(<< >>) = f[Len(<< >>)]
      BY <2>1, StartsFunction
    <3>2. f[0] = << >>
      BY <2>1, <3>1, StartsStep
    <3> QED
      BY <3>1, <3>2
  <2>3. [e \in Ends |-> Starts(arrived[e] \o unsent[e])] = [e \in Ends |-> << >>]
    BY <2>1, <2>2 DEF Init
  <2> QED
    BY <2>3 DEF Init, Link!Init
<1>2. TypeOK /\ [Next]_vars => [Link!Next]_(Link!vars)
  <2> SUFFICES ASSUME TypeOK, [Next]_vars
               PROVE  Link!Next \/ UNCHANGED Link!vars
    OBVIOUS
  <2> DEFINE link == [d \in Ends |-> Starts(arrived[d] \o unsent[d])]
  <2>0. link = [d \in Ends |-> Under(d)] /\ link' = [d \in Ends |-> Under(d)']
    BY DEF Under
  <2>1. ASSUME NEW e \in Ends, NEW n \in Sizes, SendEncrypted(e, n)
        PROVE  Link!Next
    <3>1. PICK o \in Ends : o = Other(e)
      BY DEF Other, Ends
    <3>2. PICK packet \in Packet :
               /\ Under(o)' = Append(Under(o), packet)
               /\ \A d \in Ends \ {o} : Under(d)' = Under(d)
               /\ UNCHANGED last
      BY <2>1, <3>1, SendUnder
    <3>3. link' = [link EXCEPT ![o] = Append(@, packet)]
      BY <2>0, <3>2
    <3>4. Link!Send(o, packet)
      BY <3>2, <3>3 DEF Link!Send
    <3> QED
      BY <3>4 DEF Link!Next
  <2>2. ASSUME NEW e \in Ends, Segment(e)
        PROVE  UNCHANGED Link!vars
    <3>1. link' = link /\ UNCHANGED last
      BY <2>0, <2>2, SegmentUnder
    <3> QED
      BY <3>1 DEF Link!vars
  <2>3. ASSUME NEW e \in Ends, ReceiveEncrypted(e)
        PROVE  Link!Next \/ UNCHANGED Link!vars
    <3>1. PICK x \in Seq(Packet), y \in Seq(Packet) :
               /\ Under(e) = x \o y /\ Under(e)' = y
               /\ \A d \in Ends \ {e} : Under(d)' = Under(d)
               /\ \/ UNCHANGED last
                  \/ \E packet \in Packet :
                        x = <<packet>> /\ last' = [last EXCEPT ![e] = packet]
      BY <2>3, ReceiveUnder
    <3>2. link[e] = x \o y
      BY <2>0, <3>1
    <3>3. link' = [link EXCEPT ![e] = y]
      <4>1. [d \in Ends |-> Under(d)'] = [[d \in Ends |-> Under(d)] EXCEPT ![e] = y]
        BY ONLY <3>1, e \in Ends
      <4> QED
        BY <2>0, <4>1
    <3>4. /\ x \o y \in Seq(Packet) /\ Len(x \o y) = Len(x) + Len(y)
          /\ SubSeq(x \o y, Len(x) + 1, Len(x \o y)) = y
      BY TakeFront
    <3>5. CASE UNCHANGED last /\ Len(x) = 0
      <4>1. x = << >> /\ x \o y = y
        BY <3>5, EmptySeq, ConcatEmptySeq
      <4>2. link' = link
        BY <2>0, <3>1, <4>1
      <4> QED
        BY <3>5, <4>2 DEF Link!vars
    <3>6. CASE UNCHANGED last /\ Len(x) # 0
      <4>1. Len(x) \in 1 .. Len(link[e])
        BY <3>2, <3>4, <3>6
      <4>2. link' = [link EXCEPT ![e] = SubSeq(@, Len(x) + 1, Len(@))]
        BY <3>2, <3>3, <3>4
      <4>3. Link!Drop(e, Len(x))
        BY <3>6, <4>2 DEF Link!Drop
      <4> QED
        BY <4>1, <4>3 DEF Link!Next
    <3>7. ASSUME NEW packet \in Packet,
                 x = <<packet>>, last' = [last EXCEPT ![e] = packet]
          PROVE  Link!Next
      <4>1. link[e] # << >> /\ Head(link[e]) = packet /\ Tail(link[e]) = y
        <5>1. /\ x \o y # << >>
              /\ (x \o y)[1] = packet
          BY <3>4, <3>7, ConcatProperties, EmptySeq
        <5>2. Tail(x \o y) = SubSeq(x \o y, 2, Len(x \o y))
          BY <3>4, <5>1, TailIsSubSeq
        <5>3. Len(x) + 1 = 2
          BY <3>7
        <5>4. Head(x \o y) = packet
          BY <5>1
        <5> QED
          BY <3>2, <3>4, <5>1, <5>2, <5>3, <5>4
      <4>2. Link!Deliver(e)
        BY <3>3, <3>7, <4>1 DEF Link!Deliver
      <4> QED
        BY <4>2 DEF Link!Next
    <3> QED
      BY <3>1, <3>5, <3>6, <3>7
  <2>4. CASE UNCHANGED vars
    BY <2>4 DEF vars, Link!vars
  <2> QED
    BY <2>1, <2>2, <2>3, <2>4 DEF Next
<1> QED
  BY <1>1, <1>2, ChannelTypes, PTL DEF Spec, ImplementsLink, Link!Spec

=============================================================================
