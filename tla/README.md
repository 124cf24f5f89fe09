# Verification of the distributed block chain database

TLA+ models of the three programs of this repository (client, router, storage
server), of the key exchange and the encrypted channel between them, of the
block chain each server keeps, of the functions of GMP the key exchange calls,
and of the script that starts the programs; model checked with TLC, with theorems
about the block chain, the key exchange, the channel, the functions of GMP and the
whole system proved with TLAPS.

## 1. The system

```
 client ──┐   one TCP connection        one TCP connection per server,
 client ──┼──────────────▶ router ────────────▶ server 1   (block list)
 client ──┘   one at a time        └──────────▶ server 2   (block list)
                                    └─────────▶ server 3   (block list)
```

| part | source | state | operations | interacts by |
|---|---|---|---|---|
| block chain | `server/server.c` | `blockchain_head`, the list of blocks | `store_data`, `retrieve_data`, `validate_blockchain`, `compute_hash` | called by the server |
| server | `server/server.c` | the connection served, its key | `main` (accept), `handle_client` | TCP, one connection at a time |
| router | `router/router.c` | `server_sockets`, `server_session_keys`, `current_server`, the client served | `connect_and_key_exchange_with_servers`, `handle_client`, `send_command_to_server` | TCP to every server, one client at a time |
| client | `client/client.c` | `sockfd`, `session_key` | `main`, `store_data`, `retrieve_data` | TCP to the router, commands of a user |
| encrypted channel | `shared_functions/helper_func.c` | none | `send_encypted_data`, `receive_encypted_data`, AES-GCM | one `send`, one `recv` per packet, no framing |
| key exchange | `shared_functions/key_exchange.c`, `helper_func.c` | numbers, nonces, keys of one exchange | `client_get_session_key`, `server_get_session_key` | two packets per connection |
| certificates | `shared_functions/certificates.c` | key files | `sign_data`, `validate_signed_data`, `get_public_key` | called by the key exchange |
| GMP | `gmp-6.3.0/` (vendored) | none between calls | of hundreds, those on the programs' path: `mpz_export`, `mpz_import`, `mpz_powm`, `mpz_nextprime` | called by the key exchange |
| deployment | `mininet/deploy_and_run.py` | the programs started | start three servers, then the router | starts processes, does not wait for them |

What is hard here: everything is blocking and without timeouts; no packet has a
length, so what one `recv` returns is taken for one packet; errors are noticed
as "fewer bytes than expected" and often only logged; no program handles
`SIGPIPE`; the data is in memory only; the router connects to the servers only
when it starts. What makes each part correct:

* block chain: a retrieve returns what was stored, and tampering is detected;
* key exchange: both ends get the same key, or none goes on as if they had;
* channel: what is received is one packet that was sent, and decrypts;
* GMP: the numbers are what the exchange takes them for, whatever way the code
  goes for numbers of their size and shape;
* deployment: the system comes up, or it is clear why not;
* router: an answer is the answer to the command, stores are spread evenly, a
  failed server or client does not take others with it;
* system: acknowledged data is stored and is returned, every command ends.

The hazards, each with its line and the properties aimed at it, are listed in
`PROJECT.json`.

## 2. Modules

| module | models | composed of |
|---|---|---|
| `Chain` | the block list, as operators: `Digest`, `Validated` (the list as `validate_blockchain` leaves it), `StoreData`, `RetrieveReply`, lengths | |
| `Shard` | one chain under stores, retrieves and memory faults | `Chain` |
| `ChainProofs`, `ShardProofs` | lemmas about the block list, theorems about `Shard` | `Chain`, `Shard` |
| `Powers`, `Numbers` | what the functions of GMP compute, as arithmetic: powers, export and import of a buffer | |
| `KeyExchange` | one key exchange with its arithmetic, key files, early returns and kills | `Numbers` |
| `GmpBytes`, `GmpPowm`, `GmpPrime` | the code of GMP that is to compute it, on small limbs | `Numbers`, `Powers` |
| `PacketLink` | abstract: packets that arrive whole, in order and once, or not at all | |
| `SecureChannel` | the encrypted channel on a stream of bytes | implements `PacketLink` |
| `Net` | processes, TCP connections (external), packets, and the two halves of the key exchange as seen from outside | |
| `Server`, `Router`, `Client` | the three programs | `Net`, `Chain` |
| `System` | all of them together, kills, restarts, fairness, and the system's properties | `Server`, `Router`, `Client` |
| `ShardedStore` | abstract: a log split into shards, what the system promises its users | |
| `SystemStore` | the history variables and the mapping for the refinement | `System`, implements `ShardedStore` |
| `Deployment` | the start of the programs by `deploy_and_run.py` | `System` |
| `Arithmetic` | lemmas about numbers for the proofs: induction over numbers and over the steps of a loop, division, powers, congruences, Montgomery's reduction, bits | `Powers` |
| `KeyExchangeProofs` | theorems about export, import and powers, and about `KeyExchange` | `Numbers`, `KeyExchange` |
| `SecureChannelProofs` | theorems about `SecureChannel` | `SecureChannel` |
| `SystemProofs` | lemmas about connections, theorems about `System` | `Net`, `System`, `ChainProofs` |
| `StoreProofs` | theorems about what the shards of `System` hold and what its users are told, and the proof that it implements `ShardedStore` | `SystemProofs`, `SystemStore` |
| `GmpProofs` | theorems about the functions of GMP | `MCGmp` |
| `MCShard`, `MCKeyExchange`, `MCSystem`, `MCStore` | values and symmetry for TLC | |
| `MCGmp` | values for TLC; a behaviour is one call of one of the functions of GMP | `GmpPrime`, instances of `GmpBytes` and `GmpPowm` |

How they rest on each other: `GmpBytes` and `GmpPowm` show that GMP computes what
`Numbers` says, which `KeyExchange` computes with. `KeyExchange` shows which
outcomes an exchange has, which `Net` chooses from. `System` shows
(`NoFramingNeeded`) that there is one packet at a time and that it fits a segment
and a receive, under which `SecureChannel` shows (`InStep`) that a packet arrives
whole, as `Net` assumes. `KeyExchange` takes `prime` from a set, which `GmpPrime`
shows to be one of primes.

### State and actions

A step of a program goes from one blocking call (`accept`, `recv`, a user's
input) to the next; what it sends on the way is part of the step. Nothing
outside a process can tell this from finer steps: a process that dies between a
`recv` and the `send` that follows it leaves the same state behind as one that
dies before the `recv`, or, for a server, loses the block it stored with the
rest of its memory. Connecting and sending the client hello are two steps,
because the search for a prime lies between them and the other end can already
be waiting.

* `spc`, `rpc`, `cpc` say in which call each program blocks.
* `conns` holds the connections. Each has two ends, `init` (who connected) and
  `resp` (who accepted), an inbox per end, whether each end is open, whether the
  connection was reset, and the session key each end holds: `unset`, `shared`
  or `garbage`. The keys are kept here since every session key belongs to one
  connection; in the code they are `session_key` and `server_session_keys[i]`.
* `life` says whether a process is up or how it ended: `exit`, `refused`
  (connect failed, `exit(EXIT_FAILURE)`), `killed`, `sigpipe`, `segv` (a
  negative length after a failed decryption, `key_exchange.c:178`), `ub`
  (uninitialised numbers after an early return, `key_exchange.c:229`).
* In `KeyExchange`, `ipc` and `rpc` say where the two ends are, `private_pem` and
  `server_pem` what their key files hold (a key, no key, or no file), and `hello`
  is the packet on its way.
* In `SecureChannel`, a byte is a pair of its packet and its place in it;
  `unsent` and `arrived` are the two halves of the stream to an end. A receive
  takes up to `RECV_MAX` of the bytes that arrived, and decrypts only if these
  are all the bytes of one packet.
* A process that ends loses its memory (`ServerGone`, `RouterGone`,
  `ClientGone`), and its connections are closed.

Undefined behaviour is a choice: the responder whose `receive_client_hello`
returned early dies or goes on with a garbage key; a send on a reset connection
raises `SIGPIPE` or returns an error that the code ignores; the bytes behind a
short number are anything in `Stale`.

### Abstractions

* SHA-256, HKDF, AES-GCM and RSA are collision free: a digest *is* the sequence
  of what it commits to, a key *is* the tuple it was derived from. (The digest
  covers the text data ++ previous hash; the payloads of `client.c` and the
  64-character hashes make that text unambiguous.)
* Payloads are values. Lengths are kept where they decide something: the length
  of an answer, the 2080 bytes of a receive, the 2047 of the router's buffer.
* In `Net` a packet arrives whole. `NoFramingNeeded` checks that every packet of
  the system is shorter than a segment (the longest, three shards of two blocks
  each, is 953 bytes) and alone on its connection; `SecureChannel` is about what
  happens otherwise.
* The exchange of keys in `Net` has the outcomes that `KeyExchange` shows to be
  possible when the key files are in place; `KeysMayDiffer` allows the bad one, which
  kills the initiator, client or router.
* In `SecureChannel` no text is empty (`ChannelAssumption`): the programs send none,
  and `receive_encypted_data` could not tell it from an error.
* `mpz_nextprime` returning a number above 2^2048, failures of `socket`,
  `bind`, `listen`, and of OpenSSL are left out; so is a full listen queue (five
  waiting clients).
* GMP: the widths of a byte and a limb, the table of window sizes and the sizes
  at which `mpz_nextprime` changes its ways are constants, so that small numbers
  meet all of them. Carries, trailing zeros, limbs and table entries are kept;
  limbs that a multiplication goes through are not. The reductions for moduli of
  many limbs (`REDC_2`, `REDC_N`) are taken to reduce as `REDC_1` does, the Jacobi
  symbol is given by the parity of a permutation, `gmp_primesieve` by its result
  and the random generator is a free choice. Of `mpz_stronglucas`, the search for
  `D` is that for a number of one limb (`SearchD`; longer ones have another bound).
  Bytes that straddle two limbs are in the code of `mpz_export` and in the run, and
  do not occur with the 8 and 64 bits of the build.

`Mut_...` definitions are deliberately wrong versions of the definition that
follows them, each the way a plausible bug would be. No run uses them; each
property of a passing run is violated once one of them takes the place of the
original (`PROJECT.json`, "mutants").

## 3. Runs

| run | module, cfg | checks | instance |
|---|---|---|---|
| `shard` | `MCShard` | `TypeOK`, `RetrieveIsFaithful`, `UnreadableBeyondTwo`, `ReplyFits` | 2 payloads of 255 characters, 6 blocks, any number of faults in chains of up to 4 |
| `key_exchange` | `MCKeyExchange` | `TypeOK`, `FailureCauses`, `NoKeyOfItsOwn`, `VerdictIsRight` | numbers of 2 digits in base 4, 4 primes, 5 secrets, 3 buffer contents, 2 RSA keys, missing and malformed files, a kill of each end |
| `faults` | `MCStore`, `MCFaults` | `TypeOK`, `ReceivedDecrypts`, `RespondersSendSafely`, `FailuresContained`, `AckedAreStored`, `AnswersMatch`, `ImplementsStore` | 1 client, 2 servers, 3 stores, 1 kill, 2 router starts, key exchanges may fail |
| `clients` | `MCStore`, `MCClients` | `RetrieveIsCurrent`, `AnswersMatch`, `ImplementsStore` | 2 clients, 2 servers, 1 store, 1 kill, at most 5 connections |
| `three_shards` | `MCSystem`, `MCShards` | `NoFramingNeeded`, `ShardsBalanced` | the 3 servers of the deployment, 13 stores, 1 kill |
| `deployment` | `Deployment`, `MCDeployment` | `DeploymentEnds`, `RouterComesUp`, `CommandsEnd` | 1 client, 2 servers, retrieves only, 1 kill, 2 router starts, key exchanges may fail |
| `turns` | `MCSystem`, `MCTurns` | `WaitersServed`, `CommandsEnd`, `AckedAreStored` | 2 clients that come and go, 1 server, 1 store, 1 kill, 1 failed malloc |
| `channel` | `SecureChannel`, `MCChannel` | `TypeOK`, `InStep`, `ImplementsLink` | 5 packets of 3 to 9 bytes (2 are the overhead), segments of 4, receives of 5 |
| `gmp` | `MCGmp` | `ExportAgrees`, `NothingLost`, `ImportAgrees` | bytes of 2 bits: all numbers of up to 3 and every fifth of 4, all contents of the 4 bytes of the buffer, limbs of 3 bits |
| | | `PowerAgrees`, `PowerOfSeenBits` | limbs of 3 bits, 84 moduli of 1 to 3 limbs, odd and even, 15 exponents, 11 bases, windows of 1 to 3 bits |
| | | `ResultIsPrime`, `NoPrimeSkipped`, `SearchEnds` | all numbers to 260 and from 480 to 560, and numbers below pseudoprimes of either test |
| `untampered` | `MCShard`, `MCUntampered` | `UntamperedIsValid`: **violated** | no faults |
| `relink` | `MCShard`, `MCRelink` | `RelinkDetected`: **violated** | as `shard`, shorter; links overwritten after the first block count |
| `short_numbers` | `MCKeyExchange`, `MCKeyExchangeShort` | `ExchangeSucceeds`: **violated** | as `key_exchange` |

What the passing runs show:

* `RetrieveIsFaithful`: a payload overwritten in memory is never returned. The
  links that are returned are right too, but only because validation rewrites
  them (see `relink`).
* `UnreadableBeyondTwo`, `ReplyFits`: the two facts that go together. Because
  blocks are linked to the first one, a shard of three blocks is refused; and
  because it is refused, no answer is ever long. With the link corrected (the
  mutant `Mut_StorePrevious`) both `ReplyFits` and `NoFramingNeeded` fail: an
  answer exceeds the 2048 characters that one receive takes, for three shards
  at five blocks in one of them.
* `NoFramingNeeded`, `ReceivedDecrypts`: the missing framing does no harm, since
  there is never more than one packet on a connection and never a long one, also
  after kills, restarts and broken key exchanges, and whoever receives one has the
  key to it: server, client, and the router from both.
* `AnswersMatch`: no packet says which command it answers, and yet a client reads
  only the answer to its own last one. The kind is always right; `DATA_STORED` is
  for a payload put into a chain by this very store; and the shards in a list are
  as they were when the router began with this very retrieve. Answers left over
  from an earlier command, of the same client or another, would break one of these.
  (After a failed `malloc` the server says `DATA_STORED` to the right client, but
  nothing was put into the chain, so only the kind is claimed then.)
* `RespondersSendSafely`: the servers, and the router towards its clients, never
  send on a connection that was reset. That is why `Server` and `AnswerClient`
  have no `SIGPIPE` step.
* `FailuresContained`: the router is killed by `SIGPIPE` only after a server
  failed, and by uninitialised numbers only after a client failed; a server dies
  only if it is killed or if a router failed in the middle of a key exchange.
* `AckedAreStored`, `RetrieveIsCurrent`: while no server fails, acknowledged
  payloads are stored, but for one per failed `malloc` and no more (`store_data`
  returns without a block, and `handle_client` acknowledges it all the same,
  `server.c:194`; the run `turns`). What a server that fails takes with it is not in
  these two but in `ImplementsStore`, where it is its own shard and no other
  (`Forget`). A list in which every shard answered has everything that was
  acknowledged before it was asked for. It need not have what was
  acknowledged later: an answer of a router that has since died may still be
  waiting to be read.
* `ShardsBalanced`: servers that never failed differ by at most one block, in
  the order of their numbers, even when stores to a dead server are lost.
* `CommandsEnd`, `RouterComesUp`: no chain of waiting processes is endless: neither
  for retrieves, which wait for one server after the other (`deployment`, with
  restarts and broken key exchanges), nor for stores (`turns`, whose fairness
  includes that users leave; see below).
* `WaitersServed`: if users leave in the end, nobody waits for its key exchange
  for ever, neither behind the session served nor because others come back.
  Without that assumption it does not hold: one idle user keeps all others out.
* `ImplementsStore`: every command takes effect at one moment between its request
  and its answer, although a retrieve asks the servers one by one and router and
  servers may be killed and started again in the meantime. A store is performed
  at most once, an acknowledgement is for the client's own store, and a list
  shows all shards as they were at one moment. The store may forget a shard (a
  server was killed) and perform a store whose client was told nothing.
* `FailureCauses`, `NoKeyOfItsOwn`, `VerdictIsRight`: an exchange fails only of
  short numbers, bad key files and kills; an initiator goes on with the
  responder's key or, when the responder died, with none; and the verdict on the
  signature (which the code only logs) never accepts a responder with another key,
  and refuses none with the right one unless a number was short. In particular,
  full-width numbers lead both ends to the same key.
* `InStep`, `ImplementsLink`: packets that fit need no framing. Longer ones are
  lost, and request and answer may get out of step, but no receive ever yields
  anything but a packet that was sent, in order and once: authenticated
  encryption stands in for framing as far as safety goes.
* `ExportAgrees`, `ImportAgrees`, `NothingLost`: the loops over limbs do what
  `Numbers` says, for every number and every previous content of the buffer; a
  number that fills the buffer comes back as it was.
* `PowerAgrees`, `PowerOfSeenBits`: `mpz_powm` computes powers also for even
  moduli (which stale bytes behind a short prime can give), and the loop over
  windows holds the power of the bits seen so far, in Montgomery form.
* `ResultIsPrime`, `NoPrimeSkipped`, `SearchEnds`: `mpz_nextprime` returns the
  next prime, on this instance: the two tests together have no known failure.
* `DeploymentEnds`: the script does not wait for a server to listen before it
  starts the router. If the router is faster than one of them, it gives up for good.
  There is one other reason for which a deployment does not come up without a kill:
  in the key exchanges with the servers the router is the initiator, and a short
  number (finding 3) kills it. If the servers are faster and no number is short, the
  router comes up.

Bounds. One kill at any point, together with `SIGPIPE`, the early returns and
failing key exchanges, gives behaviours with several dead processes; two router
starts are needed for a server that still serves the old connection when the new
router comes. `MaxConns` (6 or 8) does not bind: no instance ever needs more
connections at a time. Only in `clients` it is 5 and does: two for the
servers and three for the clients, so that one client at a time, not both, has
beside its new connection an old one whose end the router has not noticed.
Six blocks of the greatest length are the first that no
receive could take, and faults in chains of up to four (`MCFaultBound`) reach
every case of the validation. Thirteen
stores put five blocks on one of three shards. Two payloads suffice to tell a
wrong block from a right one, and two clients are all that one session at a time
can interleave. A store and retrieves by two clients with one kill is the least
in which a list could mix old and new shards or an acknowledgement reach the
wrong client; with the second router start it would be too large, which is why
`ImplementsStore` is checked on two instances (`clients`, `faults`). In the
channel, segments of 4 and receives of 5 bytes let packets fit both, one or
neither, and two packets fall into one receive. The limbs of the GMP run are as
small as they can be with a byte that straddles two limbs, a modulus of several
limbs with a carry out of the last, and a window cut short by the end of the
exponent. Deadlock is not checked where the system may rightly stop: all users
have left and the programs wait.

Fairness (`FairSpec`) is weak fairness of each process's own steps: the operating
system runs a process whose blocking call has returned. Users need not type
anything, nobody is obliged to start a process that ended, and kills are not
fair. `SpecUsersLeave` (run `turns` only) adds that a user who is asked for a
command again and again leaves some day: strong fairness, since between two
prompts the program is busy. It is an assumption about people, not about the
code. `Deployment` assumes that the script and the programs it started run, and
`GmpPrime` that the one process does.

Refinements. In `SecureChannel`, a packet is on the abstract link as long as its
first byte is in the stream: the receive that takes this byte delivers the packet
or drops it (with all others whose first byte it takes). In `SystemStore`, the
shards are the payloads of the chains (`Contents`), a user's command is that of
its client (`Op`), and the history variables `performed`, `done`, `view` and
`told` record what the abstract store keeps and no program does: how often a
payload was put into a chain, whether that was for the command under way, the
shards when the router began with a retrieve, and what the user read.

## 4. Findings

1. `store_data` links to the first block (`server.c:56`), `validate_blockchain`
   expects the previous one: three stores to one shard make it unreadable
   (`untampered`, and for ever: `UnreadableBeyondTwo`, proved).
2. `validate_blockchain` overwrites the `previous_hash` that it then checks
   (`server.c:36`, `:139`): the check cannot fail (`relink`). In the trace the link of
   the *second* block is overwritten, since the code exempts the first one from the
   check; without the assignment in line 36 the property would hold.
3. `mpz_export` drops leading zero bytes (`key_exchange.c:44`, `:46`, `:288`,
   `helper_func.c:41`): such an exchange ends in different keys and kills the
   initiator, client or router (`short_numbers`); with the router, the deployment
   (`DeploymentEnds`).

## 5. Proofs

The theorems hold for every value of the constants that satisfies the named
assumptions of the modules (`DataAssumption`, `NetAssumption`, ...), which say
no more than that bounds are numbers, that there is a server, that payloads have
1 to 255 characters, and that the processes are different. Those of the GMP
modules say what the code's own tables and types say: a byte is no wider than a
limb, the buffer's base is that of a byte; the entries of the table of `win_size`
are at least as great as their index (so that a window is never longer than the
exponent: the code has 7, 25, 81, ...); the zero bits at the end of a modulus are
counted in a limb; `NP_SMALL_LIMIT` is the last prime before the square of
`LAST_PRIME`, and the sieve reaches beyond the table of primes only for numbers
that are greater by far than the primes it sieves with. Every assumption is
evaluated by TLC on the runs' instances.

| module | theorem | says |
|---|---|---|
| `ShardProofs` | `TypeCorrect` | `Spec => []TypeOK` |
| | `Faithful` | `Spec => []RetrieveIsFaithful` |
| | `Unreadable` | `Spec => []UnreadableBeyondTwo` |
| | `Fits` | `Spec => []ReplyFits` |
| `KeyExchangeProofs` | `PowersCommute` | both ends of an exchange compute the same master key |
| | `ExportFits` | an exported number fits the buffer, and is imported as it was if it is not short |
| | `KeyExchangeTypes` | `Spec => []TypeOK` |
| | `ExchangeFailureCauses` | `Spec => []FailureCauses` |
| | `ExchangeSharesKey` | `Spec => []NoKeyOfItsOwn` |
| | `ExchangeVerdict` | `Spec => []VerdictIsRight` |
| `SecureChannelProofs` | `ChannelTypes` | `Spec => []TypeOK` |
| | `ChannelInStep` | `Spec => []InStep` |
| | `ChannelImplementsLink` | `Spec => ImplementsLink` (a refinement) |
| `SystemProofs` | `SystemInvariant` | `Spec => []SysInv` |
| | `SystemTypes` | `Spec => []TypeOK` |
| | `SystemFailuresContained` | `Spec => []FailuresContained` |
| | `SystemRespondersSendSafely` | `Spec => []RespondersSendSafely` |
| | `SystemReceivedDecrypts` | `Spec => []ReceivedDecrypts`, if `OVERHEAD + ListMax <= RECV_MAX` |
| | `SystemNoFramingNeeded` | `Spec => []NoFramingNeeded`, if `OVERHEAD + ListMax` is at most a segment |
| | `SystemShardsBalanced` | `Spec => [](allocFails = 0 => ShardsBalanced)` |
| `StoreProofs` | `SystemAckedAreStored` | `Spec => []AckedAreStored` |
| | `SystemRetrieveIsCurrent` | `Spec => [](allocFails = 0 => RetrieveIsCurrent)` |
| | `SystemAnswersMatch` | `SSpec => []AnswersMatch` |
| | `SystemImplementsStore` | `SSpec /\ [](allocFails = 0) => ImplementsStore` (a refinement) |
| `GmpProofs` | `ExportLoopAgrees` | `MCSpec => []ExportAgrees` |
| | `ExportLosesNothing` | `MCSpec => []NothingLost` |
| | `ImportLoopAgrees` | `MCSpec => []ImportAgrees` |
| | `PowerComputed` | `MCSpec => []PowerAgrees` |
| | `LoopHoldsPower` | `MCSpec => []PowerOfSeenBits` |
| | `SearchSkipsNoPrime` | `MCSpec => [](Trusted => NoPrimeSkipped)`: for small arguments, and for others if primes pass the tests |
| | `SmallResultIsPrime` | `MCSpec => [](n < NP_SMALL_LIMIT => ResultIsPrime)` |

`ListMax` is the length of a list of two blocks of every server,
`NUM_SERVERS * (265 + 2 * DATA_LEN)`. The two hypotheses are needed: a list that
is longer does not fit. They hold for the three servers of the deployment if
payloads have at most 208 and at most 103 characters (the lists of the run
`three_shards` have 921); with two servers, the first holds for payloads of any
length.

### The block chain

None of the four is inductive: what a retrieve returns depends on blocks that faults
may have changed since they were stored. The inductive invariant `IInv` adds
`HashInv`: the hash of every block is still the digest of what was *stored* there,
over nothing for the first block and over the first block's hash for all others.
No operation writes a hash after the block is made, and no fault does, so
`HashInv` is preserved (`StoreStep`, `RetrieveStep`, `CorruptStep`). If the chain
then validates, each stored hash is also the digest of the *present* payload over
the hash of the block before; digests are injective (`DigestInjective`), so the
payload is the stored one, and the digests of the first block and of the second
are equally long, which fails from the third block on (`ValidMeansStored`). A
valid chain thus has at most two blocks, which bounds the answer
(`TwoBlocksFit`). `ChainProofs` has the lemmas about the operators, which the
proofs about `System` use as well (`Chained`, kept by every store and retrieve).

### Numbers and the key exchange

`Arithmetic` derives, from the well-foundedness of `<` on the natural numbers, the
induction principles the proofs use. The library's principles take a predicate as
an operator argument, which the provers cannot instantiate; these take a *set*
(of the numbers for which something holds), which they can. `KeyExchangeProofs`
proves with them what the recursive functions compute: `Weight[k]` is positive
and monotonic, multiplying powers adds exponents, `PowM` is the remainder of the
power, and so powers commute. `Export` and `Import` are analysed by the number of
digits not written (`WrittenDigits`).

`KInv`, the inductive invariant of `KeyExchange`, adds to the three properties
what is in the packet under way: `ClientHelloWaits` (the numbers in it are the
exported ones, and right unless short) and `ServerHelloWaits` (the key is the one
derived from the responder's number and the client hello). An end that computes its
key from such a packet then has the other's key, by `PowersCommute`.

### The channel

`TurnInv`: as long as no packet was too long, one end has the turn, the other waits
with nothing on its way to it, and the last packet was received or is on its way
whole. The refinement needs only the types: the packets on the abstract link are
those whose first byte is in the stream (`Starts`), and since `Starts` of a
concatenation is that of its parts (`StartsConcat`, by induction), moving a segment
changes nothing and a receive removes packets from the front, delivering at most
the one whose bytes it took whole.

### The whole system

`SysInv` relates the places of all programs to the packets on their connections.
Each end of a connection is in a *phase*: the initiator is connected, waits for the
server hello, for an answer, is idle or gone; the responder has not accepted yet
(queued), waits for the client hello, serves, is busy (the router, while it waits
for a server) or gone. `Exchange` lists the combinations of phases that occur, and
for each the packets, keys and reset flag that go with it (`Talking`, `Left`,
`Deserted`, according to who is gone). A program's properties cannot be proved from
its own state, since what it reads was sent by another one, which may have died
since and been started again: only the table of all combinations is inductive.
`ConnInv` says that every connection is in this table; `SockInv`, `QueueInv` and
`Held` that every open end is held by exactly the process it belongs to, as socket
or in its queue; `ServerInv`, `RouterInv`, `ClientInv` relate a program's place to
its own variables, and `ShardInv` says that chains are as the chain lemmas want
them, so that no answer lists more than two blocks.

The proof has one lemma per step of a program (`ServerAcceptStep`, ...,
`RouterReplyStep`), which show with the lemmas on `Exchange` that the connections
the step works on go from one row of the table to another, and with frame lemmas
(`ServerFrame`, `ClientFrame`, `RouterFrame`) that all others stay where they are.
The death of a process changes many connections at once (`DeathKeeps`). `SysInv`
and `CountInv` were checked by TLC on the instances of the runs before they were
proved.

`SystemTypes` needs `CountInv` in addition: for each payload, the acknowledgements
and the clients that still wait for one (`Pending`) are together no more than the
stores sent. That bounds `acked`: no payload is acknowledged more often than it
was sent, whichever packets are lost and whoever is killed.

`SystemShardsBalanced` needs `BalanceInv`. `LinkInv`: a router that was started once
has at most one connection to a server, and keeps it open while it is up; without
that, a store left on an old connection could be performed late. `RoundInv`: there
are a round `b` and a place `n` in it such that a server that never failed has, with
the store that waits on its connection, `b + 1` blocks if its number is below `n` and
`b` otherwise, and only server `n - 1` can have a store waiting; while the router is
up, `n` is `current_server`. Most steps are *calm* (`Calm`, `CalmStep`): they bring no
store to such a server and take none from it. The two that are not are the router's
`STORE` (`StoreGoes`: it starts the share of the next server, also when that server is
dead and the store is lost) and the server's `store_data` (`StoreLands`: a store
that waited becomes a block). A failed `malloc` answers a store without a block, so
the theorem speaks of behaviours before the first such failure (the run
`three_shards` has `MaxAllocFails = 0`); a router that is started again begins its
round anew, hence `routerStarts = 1` in the property.

`SystemAckedAreStored` and `SystemRetrieveIsCurrent` need `LogInv`, which counts the
copies of each payload wherever they are (a copy is a pair of a server and a place in
its chain, so that two clients may store the same payload):

* `SentInv`: the copies in the chains and the stores of the payload that wait on a
  connection, to the router or to a server, are together at most the stores sent
  (`Room`).
* `AckInv`: while no server failed, the acknowledgements that were read and those on
  their way, from a server or from the router, are together at most the copies and the
  failed `malloc`s (`Backed`). `AckedAreStored` is this and `SentInv`.
* `KnownInv`: what a client knew when it sent its command is at most what was
  acknowledged.
* `GatherInv`: while the router gathers a list it asks one server after the other, and
  the shards go on changing. What it gathers is therefore counted as what the servers
  answered, and for those that did not answer yet, what they hold (`Parts`). The
  copies in it fit what was sent, together with the stores that wait; and if all
  answers show their blocks and nothing was lost, they are at least what the client
  knew.
* `ListInv`: the same of the list on its way to the client, from which
  `RetrieveIsCurrent` follows when the client reads it.

A step that puts no block into a chain moves a store or an acknowledgement from one
connection to another, loses it, or lets a client send or read it (`Supply`,
`Confirm`); most steps do not even that (`Quiet`, `Drained`). What is left are the
store of a block, which takes a store off the connection and puts the
acknowledgement on it, and the router's steps with an answer (`MovedStep`). A failed
`malloc` loses a payload that is acknowledged all the same: a list cannot then show
what the client knew, hence `allocFails = 0` in the theorem. `LogInv` too was checked
by TLC on the instances of the runs first.

### The system implements the sharded store

`SystemImplementsStore` is the refinement of `ShardedStore` under the mapping of
`SystemStore`, for every number of clients, servers, payloads, connections, kills and
restarts. The initial states map to the initial state (`InitRefines`), and each step
of the system to one step of the store or to none (`NextRefines`): of the servers, the
one that adds a block is `Perform` and the one that dies is `Forget`
(`ServerRefines`); of the router, the one that begins with a retrieve is `View`
(`RouterRefines`); of the clients, the one that sends a command is a request, and the
one that ends it is an answer or a failure (`SendRefines`, `ReceiveRefines`,
`EndRefines`). All others, the key exchanges among them, are stuttering steps.

Whether the abstract step is allowed is a matter of what happened long before, in
another process. That is what the inductive invariant `HistInv` keeps:

* `PerformedInv`: the stores performed and the stores that wait on a connection are
  together at most the stores sent. So a store of a client that gave up may still be
  performed, but none is performed twice.
* `DoneInv`: an acknowledgement on a connection is of a store that was performed: of
  the client at its end, or of the one that the router serves. So only its own store
  is acknowledged to a client.
* `AskedInv`, `ViewInv`, `ListedInv`: a retrieve has no view until the router begins
  with it; then every server that answered showed what is in the view, or refused,
  and every server that is still to answer on the same connection *still holds* it;
  then the list on its way to the client is of the view. The middle part is why no
  store can slip in between the answers of two servers: it rests on the router
  serving one command at a time and, from `SysInv`, on no store being left on a
  connection that the router may yet ask on.
* `OwnInv`: what the history variables hold for a client that waits for nothing.

It is proved on top of `SysInv`, `CountInv` and `LogInv`, and holds until a `malloc`
fails in `store_data` (`StoreHist`). `SystemAnswersMatch` follows from it: that the
kind of an answer is right is in `SysInv` (`AnswersKind`), that it is the client's own
in `DoneInv`, `ViewInv` and `ListedInv` (`AnswerIsOwn`). The refinement speaks of
behaviours without a failed `malloc` in `store_data`: the server then answers
`DATA_STORED` and has stored nothing, which no store does that forgets only what its
server forgets. (The runs that check `ImplementsStore` have `MaxAllocFails = 0`.)

### The functions of GMP

Only the instance of the run has limbs of three bits: the theorems are about bytes,
limbs, windows and tables of any size, the 8 and 64 bits of the build among them.
A behaviour of `MCSpec` is one call of one function, so each function has an
invariant of its own.

`BytesInv`, of the loops of `mpz_export` and `mpz_import`. While the export runs, the
digits written are the last digits of the number, the bits that wait in `limb` are
the next `lbits` bits of it, and the bytes written and these bits together are the
limbs read: `BYTE_BITS * written + lbits = LIMB_BITS * zp`. That is the whole content
of the loop, also where a byte straddles two limbs, and is what `NothingLost` and
`ExportAgrees` follow from. The import is the same in the other direction: the limbs
finished and the bits in the limb under way are the digits read.

`PowmInv`, of `mpz_powm`, says for each place in the code what was computed so far:

* Once the modulus is split (`SplitOk`), `mp` is odd and `m = mp * 2 ^ twos`. Oddness
  is what all else rests on: `mp` has an inverse modulo powers of two (`OddInverse`,
  by induction), and powers of two can be cancelled modulo `mp` (`CancelPowerOfTwo`).
* `MPN_REDC_1` (`Redc1Is`): each turn adds the multiple of `mp` that clears a limb, so
  after `n` turns `R * x = u + q * mp` with `q < R`, by induction over the turns.
  The result is therefore `u / R` modulo `mp`, below `R` if `u < R * R`, and it is
  below `mp` after one more subtraction if `u < R` (`CarriedIsRemainder`) or if `u` is
  the square of a number no longer than `mp` (`CarriedSquare`). These three bounds
  differ, and the loops need each of them: the windows live with results above `mp`,
  doubling does not. `MPN_REDC_0` subtracts instead (`Redc0Reduces`).
* `InForm(x, s)`: `x` fits `R` and is `b ^ s * R` modulo `mp`; `InLow(x, s)`: `x` is
  `b ^ s` modulo the power of two. `ReduceStands` says that a product, reduced, stands
  for the sum of the exponents, in either form; squares (`SquaredStands`), the table
  of odd powers (`TableIsOfPowers`) and a window (`WindowStands`) follow.
* `Window`: the bits of `e` up to the last one of a window are those before it, moved
  up by the window, plus an odd number whose half is an index of the table. It covers
  the window at the end of `e` that is cut short.
* `mpn_2powm`: the first bits of `e` give a shift (`ShiftFirst`), and the result is
  `2 ^ e` itself only if that is below `mp` (`ShiftAll`, where oddness is needed once
  more). The loop holds numbers no longer than `mp` (`Doubling`).
* The even part: if `mpn_powlo` is skipped, `b ^ e` has at least `twos` factors of two
  (`ZeroLow`), although `e * LowZeros` is computed modulo a limb: wrapping around only
  makes the test more careful. The two parts are put together with the inverse of
  `mp` (`JoinedIs`), and the result has both remainders, hence the one modulo `m`
  (`SameForBoth`), and is below `m`.

`SearchInv`, of `mpz_nextprime`: no number between the argument and the place of the
search is prime, and of the indices that are marked in the rest of the segment none
stands for a prime (`MarkedIsMultiple`: a mark is a multiple of a prime of the sieve
that is smaller than the number marked). For small arguments, a composite number has a
prime divisor in the table (`TrialDivision`), so what passes is prime. For others,
that the tests never refuse a prime is `TestsPassPrimes`, the theorems of Fermat and
Lucas, which are not proved here; `Trusted` in the theorem says so. What is proved
is that nothing else in the function (the sieve's indices, the step from a
segment to the next, the starting points) passes a prime over.

### Only model checked

* Liveness under fairness, out of the prover's reach: `CommandsEnd`,
  `RouterComesUp`, `WaitersServed`, `SearchEnds`, `DeploymentEnds`.
* `ResultIsPrime` for arguments that `mpz_nextprime` does not settle by trial
  division: it rests on a pair of tests for which no proof is known beyond the range
  that others have searched, and on `TestsPassPrimes` for the converse.

## 6. Not modelled

* The rest of GMP. `gmp-6.3.0/` is the vendored source of the whole library,
  about 148 000 of the repository's 150 000 lines of code, with its tests, tuning
  programs, a second implementation (`mini-gmp`), C++ headers, floating-point and
  rational numbers, and formatted input and output. The programs call four of its
  algorithms, which are modelled, besides initialising, clearing, copying and
  drawing random numbers, which carry no logic of this system. A model of the
  remaining lines would say nothing about it; the share of mapped lines is to be
  read against the programs' own code (`client/`, `router/`, `server/`,
  `shared_functions/`), of which all functions that change state are mapped.
  Within the four algorithms, the multiplications, divisions and the reductions
  for large operands are taken as arithmetic.
* OpenSSL and TCP are external: collision-free functions and `Net`'s connections.
* `docker-compose.yml`, `start.sh`, `mininet/topology.py`: they declare images,
  addresses and links, and have no behaviour of their own. The addresses that
  `router.c` connects to are those of the Mininet topology.
* `free_blockchain`: `main` of the server never leaves its loop to call it.

## 7. Plan

The plan was to model the block chain first (`Chain`, `Shard`), then the three
programs and the system (`Net` to `System`), the key exchange and the channel below
them, the abstract store above them, and last GMP and the deployment; and to prove
what the runs check in the same order. All components of the inventory that have
behaviour are modelled, and all invariants and both refinements that the runs check
are proved, but for `ResultIsPrime` of large numbers. What could still be added:

1. `TestsPassPrimes` for the strong test: Fermat's theorem, by induction over the
   residues, and square roots of one modulo a prime. The Lucas test needs the same
   in an extension of the field.
2. `REDC_2` and `REDC_N`, which are taken to reduce as `REDC_1` does.
