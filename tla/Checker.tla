------------------------------ MODULE Checker ------------------------------
(***************************************************************************)
(* The check of ghostbuster's secret (libcheck.c with the two operators    *)
(* ghostbuster.c gives it): the bytes are compared in a shuffled order.    *)
(* What rand() returns is an input, a sequence of draws; so is what the    *)
(* stack held before the secret was read.                                  *)
(***************************************************************************)
EXTENDS Naturals, Sequences

LOCAL INSTANCE Bitwise

CONSTANTS
  RAND_MAX,       \* the most rand() returns
  SECRET_SIZE

NewLine == 10

(* Turn i of shuffle() swaps entry i with one that is not before it.       *)
DrawnIndex(i, n, draw) == i + (draw \div ((RAND_MAX \div (n - i)) + 1))

(* Indices are from 0.                                                     *)
shuffle(array, n, draws) ==
  LET turn[i \in 0..n] ==
        IF i = 0 THEN array
        ELSE IF i = n THEN turn[n - 1]
        ELSE LET a == turn[i - 1]
                 j == DrawnIndex(i - 1, n, draws[i])
             IN  [a EXCEPT ![j] = a[i - 1], ![i - 1] = a[j]]
  IN  turn[n]

(* fgets() stops after a newline and before the size, then terminates the  *)
(* string; what follows is what the stack held.                            *)
Line(file, size) ==
  LET stops == {l \in 0..Len(file) : \/ l = size - 1
                                     \/ l > 0 /\ file[l] = NewLine
                                     \/ l = Len(file)}
  IN  SubSeq(file, 1, CHOOSE l \in stops : \A k \in stops : l <= k)
read_secret(stack, file, size) ==
  LET text == Append(Line(file, size), 0)
  IN  [i \in DOMAIN stack |-> IF i < Len(text) THEN text[i + 1] ELSE stack[i]]

Compare(ret, secret, p, index) == ret | (secret[index] ^^ p[index])

(* secret, p and stack are arrays from 0.                                  *)
check_secret(stack, file, p, draws) ==
  LET indexes == shuffle([i \in 0..(SECRET_SIZE - 1) |-> i], SECRET_SIZE, draws)
      secret == read_secret(stack, file, SECRET_SIZE + 1)
      ret[n \in 0..SECRET_SIZE] ==
        IF n = 0 THEN 0 ELSE Compare(ret[n - 1], secret, p, indexes[n - 1])
  IN  ret[SECRET_SIZE] = 0
=============================================================================
