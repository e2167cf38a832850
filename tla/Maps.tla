--------------------------------- MODULE Maps ---------------------------------
(***************************************************************************)
(* The maps: from a duty cycle to a duty cycle, from a temperature to a   *)
(* duty cycle, from a speed to a speed.                                   *)
(*                                                                         *)
(* A map is a sequence of two or more points <<x, y>>.  The commands that *)
(* set it do not ask for its points to be in order.  Values are whole     *)
(* numbers here and results are rounded down.                             *)
(***************************************************************************)
EXTENDS Integers, Sequences

Points == {p \in Seq(Int \X Int) : Len(p) >= 2}

\* k is where the loop ends that looks for the first point that v is not beyond.
Found(points, v, k) ==
  /\ k \in 2..Len(points)
  /\ k = Len(points) \/ v <= points[k][1]
  /\ \A j \in 2..k-1 : v > points[j][1]

\* The value at v on the line from the point before k to k.
OnLine(points, v, k) ==
  points[k-1][2] + ((points[k][2] - points[k-1][2]) * (v - points[k-1][1]))
                      \div (points[k][1] - points[k-1][1])

\* pwm_map(), and the same text in sensor_get_duty() and tacho_map().
Mapped(points, v) ==
  IF v <= points[1][1] THEN points[1][2]
  ELSE LET k == CHOOSE k \in 2..Len(points) : Found(points, v, k)
       IN IF v >= points[k][1] THEN points[k][2] ELSE OnLine(points, v, k)

PwmMap(points, duty)         == Mapped(points, duty)
SensorGetDuty(points, temp)  == Mapped(points, temp)
TachoMap(points, freq)       == Mapped(points, freq)

-------------------------------------------------------------------------------
\* What a map is meant to be when its points are in order: at a point the value of it,
\* between two points on the line between them, and constant outside.
Ascending(points) == \A k \in 1..Len(points)-1 : points[k][1] < points[k+1][1]

Reference(points, v, y) ==
  /\ \A k \in 1..Len(points) : v = points[k][1] => y = points[k][2]
  /\ v < points[1][1] => y = points[1][2]
  /\ v > points[Len(points)][1] => y = points[Len(points)][2]
  /\ \A k \in 2..Len(points) :
       points[k-1][1] < v /\ v < points[k][1] => y = OnLine(points, v, k)

===============================================================================
