----------------------------- MODULE SmpcShares -----------------------------
(***************************************************************************)
(* The arithmetic of a signature by several nodes (smpc_signer.py) and of  *)
(* the key's splitting (generate_split_key.py): Shamir shares over a prime *)
(* field, of random numbers the nodes draw together.                       *)
(*                                                                         *)
(* SmpcChannels shows that the nodes are in the same round; here a round   *)
(* is one step of all of them.  The curve's group is that of the field,    *)
(* with 1 for the generator.                                               *)
(***************************************************************************)
EXTENDS Integers, Sequences, FiniteSets

CONSTANTS
  P,            \* SECP256K1_ORDER
  K,            \* the threshold: SSS_THRESHOLD, smpc_k
  Node,         \* the x coordinates of the nodes that sign
  Bits,         \* what secrets.randbits() may return
  Secrets,      \* secret keys
  Hashes,       \* hashes of the data to sign
  XOf(_)        \* the x coordinate of a multiple of the generator

ASSUME FieldAssumption ==
  P > 1 /\ \A d \in 2..(P - 1) : P % d # 0
ASSUME NodeAssumption == Node \subseteq 1..(P - 1) /\ K \in 1..Cardinality(Node)

VARIABLES
  phase,        \* what the nodes do next
  d,            \* history: the key that was split
  secret_y,     \* each node's share of the key
  z,            \* the hash of the data
  coefficients, \* shares of the random polynomial being drawn, one per power
  k_share,      \* each node's share of the nonce
  r,            \* the x coordinate of the nonce's point
  rand,         \* smpc_invert(): each node's share of its random number
  hidden,       \* the product of shares that is to be opened
  s             \* the signature's other half

vars == <<phase, d, secret_y, z, coefficients, k_share, r, rand, hidden, s>>

Field == 0..(P - 1)
Share == [Node -> Field]
NoShare == [i \in Node |-> 0]

-----------------------------------------------------------------------------
(* Arithmetic.                                                             *)

Inverse(a) == CHOOSE b \in Field : (a * b) % P = 1
Power(x, n) == LET p[m \in 0..n] == IF m = 0 THEN 1 ELSE (p[m - 1] * x) % P IN p[n]

(* The sum of f over a finite set.                                         *)
SumOver(S, f) ==
  LET sum[T \in SUBSET S] ==
        IF T = {} THEN 0
        ELSE LET i == CHOOSE i \in T : TRUE IN (f[i] + sum[T \ {i}]) % P
  IN  sum[S]
ProductOver(S, f) ==
  LET product[T \in SUBSET S] ==
        IF T = {} THEN 1
        ELSE LET i == CHOOSE i \in T : TRUE IN (f[i] * product[T \ {i}]) % P
  IN  product[S]

(* coefs is a function on the powers.                                      *)
Polynomial(coefs, x) ==
  SumOver(DOMAIN coefs, [n \in DOMAIN coefs |-> coefs[n] * Power(x, n)])

(* Mutant: the nodes' own coordinate is the numerator.                     *)
LagrangeOwn(i) ==
  ProductOver(Node \ {i}, [j \in Node \ {i} |-> (i * Inverse((j - i) % P)) % P])

Lagrange(i) ==
  ProductOver(Node \ {i}, [j \in Node \ {i} |-> (j * Inverse((j - i) % P)) % P])

sss_recover(shares) == SumOver(Node, [i \in Node |-> shares[i] * Lagrange(i)])

(* Each node evaluates the polynomial of its shares at every node's x, and *)
(* recovers what it gets.                                                  *)
Exchange(coefs) ==
  [i \in Node |->
     sss_recover([j \in Node |-> Polynomial([n \in DOMAIN coefs |-> coefs[n][j]], i)])]

-----------------------------------------------------------------------------

(* generate_split_key.py.                                                  *)
Init ==
  /\ phase = "keypair"
  /\ d \in Secrets
  /\ \E coefs \in [1..(K - 1) -> Field] :
       secret_y = [i \in Node |-> (d + Polynomial(coefs, i)) % P]
  /\ z \in Hashes
  /\ coefficients = << >>
  /\ k_share = NoShare /\ r = 0 /\ rand = NoShare /\ hidden = NoShare /\ s = 0

(* smpc_biased_rng(): every node draws a polynomial and gives each node    *)
(* its value there.                                                        *)
Drawing == [Node -> [0..(K - 1) -> Bits]]
BiasedRng(coefs) ==
  [i \in Node |-> SumOver(Node, [j \in Node |-> Polynomial(coefs[j], i)])]

(* A coefficient of the polynomial of smpc_unbiased_rng() or of            *)
(* smpc_random_zero(), whose first coefficient is zero.                    *)
Draw ==
  /\ phase \in {"keypair", "invert", "multiply"}
  /\ Len(coefficients) < K
  /\ IF phase # "keypair" /\ coefficients = << >>
       THEN coefficients' = <<NoShare>>
       ELSE \E coefs \in Drawing : coefficients' = Append(coefficients, BiasedRng(coefs))
  /\ UNCHANGED <<phase, d, secret_y, z, k_share, r, rand, hidden, s>>

(* The share that all K coefficients give.                                 *)
Drawn == Exchange([n \in 0..(K - 1) |-> coefficients[n + 1]])

(* smpc_random_keypair(): the shares' points are opened.                   *)
Keypair ==
  /\ phase = "keypair"
  /\ Len(coefficients) = K
  /\ k_share' = Drawn
  /\ sss_recover(k_share') # 0     \* the identity has no coordinates
  /\ r' = XOf(sss_recover(k_share')) % P
  /\ phase' = "random"
  /\ coefficients' = << >>
  /\ UNCHANGED <<d, secret_y, z, rand, hidden, s>>

(* smpc_invert(): a random number, and its product with the nonce.         *)
Random ==
  /\ phase = "random"
  /\ \E coefs \in Drawing : rand' = BiasedRng(coefs)
  /\ hidden' = [i \in Node |-> (rand'[i] * k_share[i]) % P]
  /\ phase' = "invert"
  /\ UNCHANGED <<d, secret_y, z, coefficients, k_share, r, s>>

(* smpc_share_hiding_open(): shares of zero are added before the opening.  *)
Opened == sss_recover([i \in Node |-> (hidden[i] + Drawn[i]) % P])

(* pow(t, -1, order) raises when the product is zero.                      *)
Invert ==
  /\ phase = "invert"
  /\ Len(coefficients) = K
  /\ IF Opened = 0
       THEN phase' = "failed" /\ UNCHANGED hidden
       ELSE /\ phase' = "multiply"
            /\ hidden' = [i \in Node |->
                 (((r * secret_y[i] + z) % P) * ((Inverse(Opened) * rand[i]) % P)) % P]
  /\ coefficients' = << >>
  /\ UNCHANGED <<d, secret_y, z, k_share, r, rand, s>>

(* smpc_multiply_open() of the shares of r * d + z and of 1 / k.           *)
Sign ==
  /\ phase = "multiply"
  /\ Len(coefficients) = K
  /\ s' = Opened
  /\ phase' = "signed"
  /\ coefficients' = << >>
  /\ UNCHANGED <<d, secret_y, z, k_share, r, rand, hidden>>

Next == Draw \/ Keypair \/ Random \/ Invert \/ Sign

Spec == Init /\ [][Next]_vars

-----------------------------------------------------------------------------
(* Properties.                                                             *)

(* What the nodes output is an ECDSA signature of the data under the split *)
(* key: the verifier's point has the x coordinate r.                       *)
SignatureVerifies ==
  phase = "signed" /\ s # 0 =>
    XOf((Inverse(s) * (z + r * d)) % P) % P = r
=============================================================================
