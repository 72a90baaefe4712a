------------------------------- MODULE Results -------------------------------
(***************************************************************************)
(* What a fallible function of the reader returns: a value or the kind of  *)
(* an error (crate::error).  The texts of errors are left out.             *)
(***************************************************************************)
EXTENDS Naturals, Sequences, SequencesExt

Ok(v)  == [ok |-> TRUE, v |-> v]
Err(e) == [ok |-> FALSE, e |-> e]

\* The operator `?`: go on with the value, or return the error.
Then(r, F(_)) == IF r.ok THEN F(r.v) ELSE r

\* A guard that returns an error, in front of the rest of a function.
Check(cond, e, rest) == IF cond THEN rest ELSE Err(e)

\* A loop whose body may return early: the state after the last element of s,
\* or the first error.
Loop(F(_, _), init, s) ==
  FoldLeft(LAMBDA acc, x : Then(acc, LAMBDA v : F(v, x)), Ok(init), s)

\* map(..).collect::<Result<Vec<_>>>()
MapAll(F(_), s) ==
  Loop(LAMBDA out, x : Then(F(x), LAMBDA y : Ok(Append(out, y))), <<>>, s)

\* ctx.read over structures of a file: `at` maps an address to what is stored
\* there, and `absent` holds the addresses whose bytes a replay has not fetched.
Fetch(file, a) ==
  IF a \in file.absent THEN Err("incomplete")
  ELSE IF a \in DOMAIN file.at THEN Ok(file.at[a]) ELSE Err("bounds")

NoAddr == 0
Span(n) == [i \in 1..n |-> i]
=============================================================================
