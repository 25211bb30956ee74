------------------------------ MODULE PortRange ------------------------------
(***************************************************************************)
(* The arithmetic of the TURN port range: which ranges config.Get accepts  *)
(* (config/config.go) and which ports portrange.go draws from them.  Port  *)
(* numbers are uint16, so additions and subtractions wrap at Width.        *)
(***************************************************************************)
EXTENDS Integers

CONSTANT Width   \* how many values a port number has: 2^16 in the code

ASSUME WidthAssumption == Width \in Nat /\ Width > 1

Ports == 0 .. Width - 1

\* the value of an expression of type uint16
Wrapped(n) == n % Width

\* PortRange: no range is in use when either end is 0.
UseRange(min, max) == min # 0 /\ max # 0

\* config.Get reports nothing fatal.
Accepted(min, max) ==
  \/ min = 0 /\ max = 0
  \/ UseRange(min, max) /\ ~(min > max)

\* int((r.MaxPort+1)-r.MinPort), the argument of Intn
Size(min, max) == Wrapped(Wrapped(max + 1) - min)

\* Mutant of Port: the draw is taken to begin at 1, not at 0.
PortAfter(min, drawn) == Wrapped(min + drawn + 1)

\* r.MinPort + uint16(drawn)
Port(min, drawn) == Wrapped(min + drawn)

\* Intn(n) panics unless n > 0 and returns a number in 0 .. n-1.
Drawn(min, max) == {Port(min, drawn) : drawn \in 0 .. Size(min, max) - 1}
=============================================================================
