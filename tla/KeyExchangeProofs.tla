------------------------- MODULE KeyExchangeProofs -------------------------
(***************************************************************************)
(* Proofs about KeyExchange and the numbers in it, for every generator,    *)
(* all primes, secrets and stale buffers, numbers of any width and any set *)
(* of RSA keys.                                                            *)
(***************************************************************************)
EXTENDS KeyExchange, Arithmetic, FiniteSetTheorems

(***************************************************************************)
(* Powers and Numbers: why the two ends of a key exchange derive the same  *)
(* number, and what a buffer holds after mpz_export.                       *)
(***************************************************************************)
\* Diffie-Hellman: each end raises the other end's number to its own secret,
\* as send_server_hello and receive_server_hello do with mpz_powm, and both
\* have the same master key.
THEOREM PowersCommute ==
    ASSUME NEW g \in Nat, NEW m \in Nat \ {0}, NEW x \in Nat, NEW y \in Nat
    PROVE  PowM(PowM(g, x, m), y, m) = PowM(PowM(g, y, m), x, m)
<1>1. x * y = y * x
  OBVIOUS
<1> QED
  BY <1>1, PowMProduct

-----------------------------------------------------------------------------
\* The weights of the digits are the powers of BASE.
LEMMA WeightRecursion ==
    /\ Weight \in [0 .. WIDTH -> Nat \ {0}]
    /\ Weight[0] = 1
<1>1. BASE \in Nat \ {0} /\ WIDTH \in Nat
  BY NumbersAssumption
<1>2. \A k \in 0 .. WIDTH : Power(BASE, k) \in Nat \ {0}
  BY <1>1, PowerPositive
<1>3. Power(BASE, 0) = 1
  BY <1>1, PowerRecursion
<1> QED
  BY <1>1, <1>2, <1>3 DEF Weight

\* The weight of a sum of positions is the product of their weights.
LEMMA WeightSum ==
    ASSUME NEW j \in 0 .. WIDTH, NEW i \in 0 .. WIDTH - j
    PROVE  Weight[j + i] = Weight[j] * Weight[i]
<1>1. /\ BASE \in Nat /\ WIDTH \in Nat /\ i \in Nat /\ j \in Nat
      /\ j + i \in 0 .. WIDTH /\ i \in 0 .. WIDTH
  BY NumbersAssumption
<1>2. Power(BASE, j + i) = Power(BASE, j) * Power(BASE, i)
  BY <1>1, PowerSum
<1> QED
  BY <1>1, <1>2 DEF Weight

\* A number fits the digits that mpz_export writes, and writes all of them
\* unless it is short.
LEMMA WrittenDigits ==
    ASSUME NEW n \in BufferValues
    PROVE  /\ Unwritten(n) \in 0 .. WIDTH
           /\ n < Weight[WIDTH - Unwritten(n)]
           /\ ~Short(n) => Unwritten(n) = 0
<1>1. WIDTH \in Nat \ {0} /\ BASE \in Nat \ {0}
  BY NumbersAssumption
<1>2. n \in 0 .. Power(BASE, WIDTH) - 1
  BY <1>1 DEF BufferValues, Weight
<1>3. Unwritten(n) = Cardinality({k \in 0 .. WIDTH - 1 : n < Power(BASE, k)})
  <2>1. {k \in 0 .. WIDTH - 1 : n < Weight[k]}
            = {k \in 0 .. WIDTH - 1 : n < Power(BASE, k)}
    <3>1. \A k \in 0 .. WIDTH - 1 : Weight[k] = Power(BASE, k)
      BY <1>1 DEF Weight
    <3> QED
      BY <3>1
  <2> QED
    BY <2>1 DEF Unwritten
<1>4. /\ Unwritten(n) \in 0 .. WIDTH
      /\ n < Power(BASE, WIDTH - Unwritten(n))
      /\ ~(n < Power(BASE, WIDTH - 1)) => Unwritten(n) = 0
  BY <1>1, <1>2, <1>3, LeadingZeros
<1>5. WIDTH - Unwritten(n) \in 0 .. WIDTH /\ WIDTH - 1 \in 0 .. WIDTH
  BY <1>1, <1>4
<1> QED
  BY <1>4, <1>5 DEF Short, Weight

\* mpz_export stays within the buffer, whatever it held, and a number that is
\* not short comes out of mpz_import as it went into mpz_export.
THEOREM ExportFits ==
    ASSUME NEW n \in BufferValues, NEW old \in BufferValues
    PROVE  /\ Export(n, old) \in BufferValues
           /\ ~Short(n) => Import(Export(n, old)) = n
<1> DEFINE u == Unwritten(n)
<1>1. WIDTH \in Nat \ {0} /\ u \in 0 .. WIDTH /\ WIDTH - u \in 0 .. WIDTH
  BY NumbersAssumption, WrittenDigits
<1>2. n \in Nat /\ old \in Nat
  BY <1>1, WeightRecursion DEF BufferValues
<1> HIDE DEF u
<1>3. PICK w \in Nat \ {0}, x \in Nat \ {0} : w = Weight[u] /\ x = Weight[WIDTH - u]
  BY <1>1, WeightRecursion
<1>4. Weight[WIDTH] = x * w
  <2>1. (WIDTH - u) + u = WIDTH /\ u \in 0 .. WIDTH - (WIDTH - u)
    BY <1>1
  <2> QED
    BY <1>1, <1>3, <2>1, WeightSum
<1>5. n + 1 <= x
  BY <1>2, <1>3, WrittenDigits DEF u
<1>6. old % w \in 0 .. w - 1
  BY <1>2
<1>7. Export(n, old) = (n * w) + (old % w)
  BY <1>3 DEF Export, u
<1>8. Export(n, old) \in BufferValues
  <2>1. (n + 1) * w <= x * w
    <3>1. \A i, j, k \in Nat : i <= j => i * k <= j * k
      OBVIOUS
    <3> QED
      BY <1>2, <1>5, <3>1
  <2>2. (n + 1) * w = (n * w) + w
    BY <1>2
  <2>3. n * w \in Nat
    BY <1>2
  <2> QED
    BY <1>4, <1>6, <1>7, <2>1, <2>2, <2>3 DEF BufferValues
<1>9. ~Short(n) => Export(n, old) = n
  <2> SUFFICES ASSUME ~Short(n) PROVE Export(n, old) = n
    OBVIOUS
  <2>1. w = 1
    BY <1>3, WrittenDigits, WeightRecursion DEF u
  <2>2. old % 1 = 0 /\ n * 1 = n
    BY <1>2
  <2> QED
    BY <1>2, <1>7, <2>1, <2>2
<1> QED
  BY <1>8, <1>9 DEF Import

-----------------------------------------------------------------------------
(***************************************************************************)
(* The inductive invariant: what is on its way, and what has become of it. *)
(*                                                                         *)
(* While the responder waits, what the initiator has sent is on its way,   *)
(* as it was exported from the initiator's numbers.                        *)
(***************************************************************************)
PublicNumber == PowM(DH_G, a, prime)

ClientHelloWaits ==
    rpc = "client_hello" =>
        /\ ipc \in {"start", "server_hello", "killed"}
        /\ prime = 0 => hello = NoHello
        /\ prime # 0 =>
               /\ \E old1, old2 \in Stale :
                      hello = [prime |-> Export(prime, old1),
                               dh |-> Export(PublicNumber, old2), n0 |-> "n0"]
               /\ ~short => ~Short(prime) /\ ~Short(PublicNumber)

\* What the responder computed, if no number was short: the power of both
\* secrets, signed together with what the initiator sent.
AnsweredInFull ==
    \E b \in Secrets :
        /\ hello.dh = PowM(DH_G, b, prime)
        /\ session_key["resp"] =
               CreateSessionKey(PowM(PublicNumber, b, prime), "n0", "n1")
        /\ hello.ciphertext.plaintext =
               SignDataToClient("n0", "n1", PublicNumber, hello.dh, private_pem)

\* An answer on its way is under the responder's key, and its initiator waits.
ServerHelloWaits ==
    rpc # "client_hello" /\ hello # NoHello =>
        /\ ipc = "server_hello"
        /\ hello.n1 = "n1"
        /\ hello.ciphertext.key = session_key["resp"]
        /\ hello.ciphertext.plaintext.public_key = private_pem
        /\ ~short => AnsweredInFull /\ ~Short(PublicNumber)

\* Where the initiator is and what it knows.
Progress ==
    /\ prime # 0 => prime \in Primes /\ a \in Secrets
    /\ ipc = "start" => prime = 0 /\ rpc \in {"client_hello", "killed"}
    /\ ipc \in {"server_hello", "done", "segv"} => prime # 0
    /\ ipc \in {"start", "server_hello"} => session_key["init"] = NoKey

KInv ==
    /\ TypeOK
    /\ Progress
    /\ ClientHelloWaits
    /\ ServerHelloWaits
    /\ FailureCauses
    /\ NoKeyOfItsOwn
    /\ VerdictIsRight

-----------------------------------------------------------------------------
\* The numbers of an exchange fit the buffers.
LEMMA PowersFit ==
    ASSUME NEW p \in BufferValues, p # 0, NEW x \in BufferValues, NEW y \in Nat
    PROVE  PowM(y, x, p) \in BufferValues
<1>1. p \in Nat \ {0} /\ x \in Nat
  BY NumbersAssumption, WeightRecursion DEF BufferValues
<1>2. PowM(y, x, p) \in 0 .. p - 1
  BY <1>1, PowMRecursion
<1>3. Weight[WIDTH] \in Nat /\ p <= Weight[WIDTH] - 1
  BY NumbersAssumption, WeightRecursion DEF BufferValues
<1> QED
  BY <1>1, <1>2, <1>3 DEF BufferValues

\* A modulus does not become zero on its way.
LEMMA ModulusNotZero ==
    ASSUME NEW p \in BufferValues, p # 0, NEW old \in BufferValues
    PROVE  Export(p, old) # 0
<1>1. p \in Nat \ {0} /\ old \in Nat /\ WIDTH \in Nat
  BY NumbersAssumption, WeightRecursion DEF BufferValues
<1>2. PICK w \in Nat \ {0} : w = Weight[Unwritten(p)]
  BY <1>1, WrittenDigits, WeightRecursion
<1>3. p * w \in Nat \ {0} /\ old % w \in Nat
  BY <1>1, <1>2
<1> QED
  BY <1>2, <1>3 DEF Export

\* The numbers an exchange may start from fit the buffers.
LEMMA ConstantTypes ==
    /\ DH_G \in Nat
    /\ BufferValues \subseteq Nat /\ 0 \in BufferValues
    /\ Primes \subseteq BufferValues /\ 0 \notin Primes
    /\ Secrets \subseteq BufferValues /\ Stale \subseteq BufferValues
<1>1. WIDTH \in Nat /\ Weight[WIDTH] \in Nat \ {0}
  BY NumbersAssumption, WeightRecursion
<1>2. BufferValues \subseteq Nat /\ 0 \in BufferValues
  BY <1>1 DEF BufferValues
<1> QED
  BY <1>2, KeyExchangeAssumption

-----------------------------------------------------------------------------
\* Before the first hello.
LEMMA InitKInv == Init => KInv
<1> SUFFICES ASSUME Init PROVE KInv
  OBVIOUS
<1>1. TypeOK
  BY ConstantTypes DEF Init, TypeOK, Ends, Dead
<1> QED
  BY <1>1 DEF Init, KInv, Progress, ClientHelloWaits, ServerHelloWaits,
     FailureCauses, NoKeyOfItsOwn, VerdictIsRight, Ends, Dead

\* client_get_session_key up to its recv.
LEMMA SendClientHelloKInv ==
    ASSUME KInv, NEW p \in Primes, NEW x \in Secrets,
           NEW old1 \in Stale, NEW old2 \in Stale,
           SendClientHello(p, x, old1, old2)
    PROVE  KInv'
<1> DEFINE y == PowM(DH_G, x, p)
           packet == [prime |-> Export(p, old1), dh |-> Export(y, old2), n0 |-> "n0"]
<1>1. /\ ipc = "start" /\ ipc' = "server_hello" /\ prime' = p /\ a' = x
      /\ hello' = Delivered(packet, rpc)
      /\ short' = (Short(p) \/ Short(y))
      /\ UNCHANGED <<files, rpc, session_key, signed_ok>>
  BY DEF SendClientHello
<1>2. p \in BufferValues /\ p # 0 /\ x \in BufferValues
  BY ConstantTypes
<1>3. y \in BufferValues
  BY <1>2, ConstantTypes, PowersFit
<1>4. Export(y, old2) \in BufferValues
  BY <1>3, ConstantTypes, ExportFits
<1>5. PublicNumber' = y
  BY <1>1 DEF PublicNumber
<1>6. rpc \in {"client_hello", "killed"} /\ session_key["init"] = NoKey
  BY <1>1 DEF KInv, Progress
<1> HIDE DEF y
<1>7. CASE rpc = "client_hello"
  <2>1. hello' = packet
    BY <1>1, <1>7 DEF Delivered, Dead
  <2>2. packet.dh \in BufferValues
    BY <1>4
  <2>3. TypeOK'
    BY <1>1, <1>2, <2>1, <2>2 DEF KInv, TypeOK, files
  <2>4. ClientHelloWaits'
    BY <1>1, <1>2, <1>5, <1>7, <2>1 DEF ClientHelloWaits
  <2> QED
    BY <1>1, <1>2, <1>6, <1>7, <2>3, <2>4 DEF KInv, Progress, ServerHelloWaits,
       FailureCauses, NoKeyOfItsOwn, VerdictIsRight, files
<1>8. CASE rpc = "killed"
  <2>1. hello' = NoHello
    BY <1>1, <1>8 DEF Delivered, Dead
  <2>2. TypeOK'
    BY <1>1, <1>2, <2>1 DEF KInv, TypeOK, files
  <2> QED
    BY <1>1, <1>2, <1>6, <1>8, <2>1, <2>2 DEF KInv, Progress, ClientHelloWaits,
       ServerHelloWaits, FailureCauses, NoKeyOfItsOwn, VerdictIsRight, files
<1> QED
  BY <1>6, <1>7, <1>8

\* server_get_session_key: the client hello is answered.
LEMMA AnswerClientHelloKInv ==
    ASSUME KInv, NEW b \in Secrets,
           NEW old1 \in Stale, NEW old2 \in Stale, NEW old3 \in Stale,
           AnswerClientHello(b, old1, old2, old3)
    PROVE  KInv'
<1> DEFINE p == Import(hello.prime)
           y == Import(hello.dh)
           dhB == PowM(DH_G, b, p)
           dhB_bytes == Export(dhB, old1)
           master == Master(y, b, p)
           key == CreateSessionKey(Export(master, old2), hello.n0, "n1")
           signature == SignDataToClient(hello.n0, "n1", Export(y, old3),
                                         dhB_bytes, private_pem)
           packet == [dh |-> dhB_bytes, n1 |-> "n1",
                      ciphertext |-> AesEncrypt(signature, key)]
<1>1. /\ rpc = "client_hello" /\ hello # NoHello
      /\ rpc' = KeyFileEffect(private_pem)
      /\ session_key' = [session_key EXCEPT !["resp"] = key]
      /\ hello' = IF rpc' # "done" THEN NoHello ELSE Delivered(packet, ipc)
      /\ short' = (short \/ Short(dhB) \/ Short(master) \/ Short(y))
      /\ UNCHANGED <<files, ipc, prime, a, signed_ok>>
  BY DEF AnswerClientHello
<1>2. prime # 0 /\ prime \in Primes /\ a \in Secrets /\ ipc \in {"server_hello", "killed"}
  BY <1>1 DEF KInv, ClientHelloWaits, Progress
<1>3. PICK o1 \in Stale, o2 \in Stale :
          hello = [prime |-> Export(prime, o1),
                   dh |-> Export(PublicNumber, o2), n0 |-> "n0"]
  BY <1>1, <1>2 DEF KInv, ClientHelloWaits
<1>4. p = Export(prime, o1) /\ y = Export(PublicNumber, o2) /\ hello.n0 = "n0"
  BY <1>3 DEF Import
<1>5. PublicNumber \in BufferValues
  BY <1>2, ConstantTypes, PowersFit DEF PublicNumber
<1>6. p \in BufferValues /\ p # 0 /\ y \in BufferValues
  BY <1>2, <1>4, <1>5, ConstantTypes, ExportFits, ModulusNotZero
<1> HIDE DEF p, y
<1>7. dhB \in BufferValues /\ master \in BufferValues
  BY <1>6, ConstantTypes, PowersFit DEF Master
<1>8. dhB_bytes \in BufferValues
  BY <1>7, ConstantTypes, ExportFits
<1>9. ASSUME ~short'
      PROVE  /\ p = prime /\ y = PublicNumber /\ dhB_bytes = dhB
             /\ Export(master, old2) = master /\ Export(y, old3) = y
             /\ ~Short(PublicNumber)
  <2>1. ~short /\ ~Short(dhB) /\ ~Short(master) /\ ~Short(y)
    BY <1>1, <1>9
  <2>2. ~Short(prime) /\ ~Short(PublicNumber)
    BY <1>1, <1>2, <2>1 DEF KInv, ClientHelloWaits
  <2> HIDE DEF dhB, master
  <2>3. \A n, old \in BufferValues : ~Short(n) => Export(n, old) = n
    BY ExportFits DEF Import
  <2> QED
    BY <1>2, <1>4, <1>5, <1>6, <1>7, <2>1, <2>2, <2>3, ConstantTypes
<1>10. rpc' \in {"segv", "exit", "done"} /\ rpc' # "client_hello"
  BY <1>1 DEF KeyFileEffect
<1>11. private_pem \in Pems => rpc' = "done"
  BY <1>1, KeyExchangeAssumption DEF KeyFileEffect
<1>12. /\ DOMAIN session_key' = Ends
       /\ session_key'["resp"] = key
       /\ session_key'["init"] = session_key["init"]
  BY <1>1 DEF KInv, TypeOK, Ends
<1>13. /\ packet.dh \in BufferValues /\ packet.n1 = "n1" /\ packet.ciphertext.key = key
       /\ packet.ciphertext.plaintext.public_key = private_pem
  BY <1>8 DEF AesEncrypt, SignDataToClient
<1>14. ASSUME ~short', hello' = packet
       PROVE  AnsweredInFull'
  <2>1. /\ packet.dh = PowM(DH_G, b, prime)
        /\ packet.ciphertext.plaintext =
               SignDataToClient("n0", "n1", PublicNumber, packet.dh, private_pem)
        /\ key = CreateSessionKey(PowM(PublicNumber, b, prime), "n0", "n1")
    BY <1>4, <1>9, <1>14 DEF AesEncrypt, Master
  <2>2. PublicNumber' = PublicNumber /\ prime' = prime /\ private_pem' = private_pem
    BY <1>1 DEF PublicNumber, files
  <2> HIDE DEF packet, key
  <2> QED
    BY <1>12, <1>14, <2>1, <2>2 DEF AnsweredInFull
<1>15. ASSUME ~short' PROVE ~Short(PublicNumber')
  BY <1>1, <1>9, <1>15 DEF PublicNumber
<1>16. hello' = NoHello \/ (hello' = packet /\ ipc = "server_hello")
  BY <1>1, <1>2 DEF Delivered, Dead
<1> HIDE DEF packet, key, dhB, master
<1>17. TypeOK'
  BY <1>1, <1>2, <1>10, <1>12, <1>13, <1>16, ConstantTypes
     DEF KInv, TypeOK, files, Dead
<1>18. ServerHelloWaits'
  BY <1>1, <1>12, <1>13, <1>14, <1>15, <1>16 DEF ServerHelloWaits, files
<1>19. FailureCauses' /\ NoKeyOfItsOwn' /\ VerdictIsRight'
  BY <1>1, <1>2, <1>10, <1>11
     DEF KInv, FailureCauses, NoKeyOfItsOwn, VerdictIsRight, files
<1>20. Progress' /\ ClientHelloWaits'
  BY <1>1, <1>2, <1>10, <1>12 DEF KInv, Progress, ClientHelloWaits
<1> QED
  BY <1>17, <1>18, <1>19, <1>20 DEF KInv

\* The one step in which the two ends' numbers meet: it needs that powers
\* commute.
LEMMA ReceiveServerHelloKInv ==
    ASSUME KInv, NEW old1 \in Stale, NEW old2 \in Stale,
           ReceiveServerHello(old1, old2)
    PROVE  KInv'
<1> DEFINE master == Master(Import(hello.dh), a, prime)
           key == CreateSessionKey(Export(master, old1), "n0", hello.n1)
           dhA_bytes == Export(PublicNumber, old2)
           valid == SignValid(hello.ciphertext.plaintext, "n0", hello.n1,
                              dhA_bytes, hello.dh, server_pem)
<1>1. /\ ipc = "server_hello" /\ rpc # "client_hello" /\ hello # NoHello
      /\ session_key' = [session_key EXCEPT !["init"] = key]
      /\ short' = (short \/ Short(master))
      /\ \/ Survives(hello.ciphertext, key) /\ ipc' = "done" /\ signed_ok' = valid
         \/ ~Survives(hello.ciphertext, key) /\ ipc' = "segv" /\ UNCHANGED signed_ok
      /\ hello' = NoHello
      /\ UNCHANGED <<files, rpc, prime, a>>
  BY DEF ReceiveServerHello, PublicNumber
<1>2. /\ prime # 0 /\ prime \in Primes /\ a \in Secrets
      /\ hello.n1 = "n1" /\ hello.ciphertext.key = session_key["resp"]
      /\ hello.dh \in BufferValues
  BY <1>1 DEF KInv, Progress, ServerHelloWaits, TypeOK
<1>3. PublicNumber \in BufferValues /\ master \in BufferValues
  BY <1>2, ConstantTypes, PowersFit DEF PublicNumber, Master, Import
<1>4. /\ DOMAIN session_key' = Ends
      /\ session_key'["init"] = key
      /\ session_key'["resp"] = session_key["resp"]
  BY <1>1 DEF KInv, TypeOK, Ends
<1>5. ASSUME ~short'
      PROVE  /\ key = session_key["resp"]
             /\ valid <=> private_pem = server_pem
  <2>1. ~short /\ ~Short(master) /\ ~Short(PublicNumber) /\ AnsweredInFull
    BY <1>1, <1>5 DEF KInv, ServerHelloWaits
  <2>2. PICK b \in Secrets :
            /\ hello.dh = PowM(DH_G, b, prime)
            /\ session_key["resp"] =
                   CreateSessionKey(PowM(PublicNumber, b, prime), "n0", "n1")
            /\ hello.ciphertext.plaintext =
                   SignDataToClient("n0", "n1", PublicNumber, hello.dh, private_pem)
    BY <2>1 DEF AnsweredInFull
  <2>3. master = PowM(PublicNumber, b, prime)
    <3>1. prime \in Nat \ {0} /\ a \in Nat /\ b \in Nat /\ DH_G \in Nat
      BY <1>2, ConstantTypes
    <3> QED
      BY <2>2, <3>1, PowersCommute DEF Master, Import, PublicNumber
  <2>4. \A n, old \in BufferValues : ~Short(n) => Export(n, old) = n
    BY ExportFits DEF Import
  <2> HIDE DEF master
  <2>5. Export(master, old1) = master /\ dhA_bytes = PublicNumber
    BY <1>3, <2>1, <2>4, ConstantTypes
  <2>6. key = session_key["resp"]
    BY <1>2, <2>2, <2>3, <2>5
  <2>7. valid <=> private_pem = server_pem
    BY <1>2, <2>2, <2>5 DEF SignValid, SignDataToClient
  <2> QED
    BY <2>6, <2>7
<1>6. valid \in BOOLEAN
  BY DEF SignValid
<1> HIDE DEF key, valid, master
<1>7. Survives(hello.ciphertext, key) <=>
          session_key["resp"] = key /\ server_pem # "missing"
  BY <1>2 DEF Survives, AesDecrypts
<1>8. TypeOK'
  BY <1>1, <1>4, <1>6 DEF KInv, TypeOK, files
<1>9. Progress' /\ ClientHelloWaits' /\ ServerHelloWaits'
  BY <1>1, <1>2 DEF KInv, Progress, ClientHelloWaits, ServerHelloWaits
<1>10. FailureCauses'
  BY <1>1, <1>2, <1>5, <1>7 DEF KInv, FailureCauses, files
<1>11. NoKeyOfItsOwn'
  BY <1>1, <1>4, <1>7 DEF NoKeyOfItsOwn
<1>12. VerdictIsRight'
  <2>1. valid => private_pem = server_pem
    BY <1>1 DEF valid, SignValid, KInv, ServerHelloWaits
  <2> QED
    BY <1>1, <1>4, <1>5, <2>1 DEF VerdictIsRight, files
<1> QED
  BY <1>8, <1>9, <1>10, <1>11, <1>12 DEF KInv

\* The steps of an end whose peer is dead, and the deaths.
LEMMA FailureStepsKInv ==
    ASSUME KInv, AnswerNothing \/ ReceiveNothing \/ KillInitiator \/ KillResponder
    PROVE  KInv'
<1> USE DEF KInv, TypeOK, Progress, ClientHelloWaits, ServerHelloWaits,
            FailureCauses, NoKeyOfItsOwn, VerdictIsRight, AnsweredInFull,
            PublicNumber, files, Dead
<1>1. CASE AnswerNothing
  <2>1. KeyFileEffect(private_pem) \in {"segv", "exit", "done"}
    BY DEF KeyFileEffect
  <2>2. private_pem \in Pems => KeyFileEffect(private_pem) = "done"
    BY KeyExchangeAssumption DEF KeyFileEffect
  <2>3. /\ rpc = "client_hello" /\ ipc = "killed" /\ prime = 0 /\ hello = NoHello
        /\ rpc' \in {"ub", "segv", "exit", "done"}
        /\ rpc' \in {"segv", "exit"} => private_pem \notin Pems
        /\ UNCHANGED <<files, ipc, prime, a, signed_ok, hello, short>>
    <3>1. /\ rpc = "client_hello" /\ ipc \in Dead /\ hello = NoHello
          /\ rpc' = "ub" \/ rpc' = KeyFileEffect(private_pem)
          /\ UNCHANGED <<files, ipc, prime, a, signed_ok, hello, short>>
      BY <1>1 DEF AnswerNothing
    <3>2. ipc = "killed"
      BY <3>1
    <3>3. prime = 0
      <4> SUFFICES ASSUME prime # 0 PROVE FALSE
        OBVIOUS
      <4>1. PICK old1, old2 \in Stale :
                hello = [prime |-> Export(prime, old1),
                         dh |-> Export(PublicNumber, old2), n0 |-> "n0"]
        BY <3>1
      <4> QED
        BY <3>1, <4>1 DEF NoHello
    <3> QED
      BY <2>1, <2>2, <3>1, <3>2, <3>3
  <2>4. DOMAIN session_key' = Ends
    BY <1>1 DEF AnswerNothing
  <2> QED
    BY <2>3, <2>4
<1>2. CASE ReceiveNothing
  BY <1>2 DEF ReceiveNothing
<1>3. CASE KillInitiator
  BY <1>3 DEF KillInitiator
<1>4. CASE KillResponder
  BY <1>4 DEF KillResponder
<1> QED
  BY <1>1, <1>2, <1>3, <1>4

\* Nothing happens.
LEMMA StutterKInv == KInv /\ UNCHANGED vars => KInv'
BY DEF vars, files, KInv, TypeOK, Progress, ClientHelloWaits, ServerHelloWaits,
       FailureCauses, NoKeyOfItsOwn, VerdictIsRight, AnsweredInFull, PublicNumber

\* The invariant holds in every reachable state.
LEMMA KInvHolds == Spec => []KInv
<1>1. KInv /\ [Next]_vars => KInv'
  BY SendClientHelloKInv, AnswerClientHelloKInv, ReceiveServerHelloKInv,
     FailureStepsKInv, StutterKInv DEF Next
<1> QED
  BY InitKInv, <1>1, PTL DEF Spec

-----------------------------------------------------------------------------
\* Type correctness: every number that an end of the exchange computes or
\* receives fits the buffer it is kept in, short or not.
THEOREM KeyExchangeTypes == Spec => []TypeOK
BY KInvHolds, PTL DEF KInv

\* What an exchange may fail of: the initiator dies in receive_server_hello
\* only if a number was short or its key file is missing, the responder only
\* of its own key file or of an initiator that was killed before its hello.
THEOREM ExchangeFailureCauses == Spec => []FailureCauses
BY KInvHolds, PTL DEF KInv

\* An initiator that goes on has the responder's key, or none from a dead
\* responder.
THEOREM ExchangeSharesKey == Spec => []NoKeyOfItsOwn
BY KInvHolds, PTL DEF KInv

\* is_server_response_sign_valid never accepts a responder with another key, and
\* refuses none with the right key in an exchange without short numbers.
THEOREM ExchangeVerdict == Spec => []VerdictIsRight
BY KInvHolds, PTL DEF KInv

=============================================================================
