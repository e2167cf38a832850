----------------------------- MODULE MCFanOutputs -----------------------------
\* Two fans and one motherboard connector, duty cycles 0, 1 and 2.
EXTENDS FanOutputs, Maps

\* A map with its coefficient.
Curve(points, coefficient) == [d \in 0..2 |-> coefficient * PwmMap(points, d)]

Follow == Curve(<<<<0, 0>>, <<2, 2>>>>, 1)
Double == Curve(<<<<0, 0>>, <<2, 2>>>>, 2)
MCCurves == {Follow, Double}

Default(src) == [src |-> src, curve |-> Follow, min |-> 0, max |-> 2, hyst |-> 1]

\* Fan 1 follows fan 2, which is updated after it.
MCBootFans == {<<Default(<<"fan", 2>>), Default(<<"input", "mbfan1">>)>>}

\* The connector is a tachometer, or an alarm of either sense and any threshold.
MCBootMbs ==
  {<<[mode |-> "tacho", threshold |-> 2, invert |-> FALSE]>>}
    \cup {<<[mode |-> "lra", threshold |-> t, invert |-> i]>> : t \in Thresholds, i \in BOOLEAN}

\* All maps of three points, in order or not.
SmallMaps == [1..3 -> (0..3) \X (0..2)]

\* A map in order is what it is meant to be, for every value.
ASSUME MapsRight ==
  \A p \in SmallMaps : Ascending(p) => \A v \in -1..4 : Reference(p, v, Mapped(p, v))

\* A map of any order gives a value between the least and the greatest of its points.
ASSUME MapsWithin ==
  \A p \in SmallMaps, v \in -1..4 :
    /\ \E k \in 1..3 : p[k][2] <= Mapped(p, v)
    /\ \E k \in 1..3 : Mapped(p, v) <= p[k][2]

===============================================================================
