------------------------------- MODULE TvOps -------------------------------
(***************************************************************************)
(* The arithmetic of core/tvops.h on struct timeval, a record of seconds   *)
(* and microseconds.  tv_usec is signed; an operation carries or borrows   *)
(* one second at most (tvmul carries all of them), and tvus does not carry *)
(* at all, so that a result may have a second or more in its microseconds. *)
(***************************************************************************)
EXTENDS Integers

CONSTANTS
  USEC_1MSEC,
  MSEC_1SEC

ASSUME TvOpsAssumption ==
  /\ USEC_1MSEC \in Nat \ {0}
  /\ MSEC_1SEC \in Nat \ {0}

USEC_1SEC == USEC_1MSEC * MSEC_1SEC

tv(sec, usec) == [tv_sec |-> sec, tv_usec |-> usec]

\* The time that a timeval stands for, carried or not.
Usecs(x) == x.tv_sec * USEC_1SEC + x.tv_usec
Normal(x) == x.tv_usec \in 0 .. USEC_1SEC - 1

tvclear == tv(0, 0)

tvadd(x, y) ==
  LET usec == x.tv_usec + y.tv_usec
  IN  IF usec >= USEC_1SEC THEN tv(x.tv_sec + y.tv_sec + 1, usec - USEC_1SEC)
                           ELSE tv(x.tv_sec + y.tv_sec, usec)

\* Mutant: the second is not borrowed.
tvsub_no_borrow(x, y) == tv(x.tv_sec - y.tv_sec, x.tv_usec - y.tv_usec)

tvsub(x, y) ==
  LET usec == x.tv_usec - y.tv_usec
  IN  IF usec < 0 THEN tv(x.tv_sec - y.tv_sec - 1, usec + USEC_1SEC)
                  ELSE tv(x.tv_sec - y.tv_sec, usec)

\* Mutant: the carry is not taken out of the microseconds.
tvmul_keep_carry(x, n) ==
  LET usec == x.tv_usec * n
  IN  IF usec >= USEC_1SEC THEN tv(x.tv_sec * n + usec \div USEC_1SEC, usec)
                           ELSE tv(x.tv_sec * n, usec)

tvmul(x, n) ==
  LET usec == x.tv_usec * n
  IN  IF usec >= USEC_1SEC
      THEN tv(x.tv_sec * n + usec \div USEC_1SEC, usec % USEC_1SEC)
      ELSE tv(x.tv_sec * n, usec)

tvge(x, y) ==
  IF x.tv_sec = y.tv_sec THEN x.tv_usec >= y.tv_usec ELSE x.tv_sec >= y.tv_sec

tvms(ms) == tv(ms \div MSEC_1SEC, (ms % MSEC_1SEC) * USEC_1MSEC)

tvus(us) == tv(0, us)

\* Takes jiffies for milliseconds, whatever HZ is.
tvjiffies(jiffies) == tvms(jiffies)
=============================================================================
