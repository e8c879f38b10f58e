--------------------------- MODULE MCAlarmTuning ---------------------------
(* Values for the constants of AlarmTuning and EventLabels.  A validation   *)
(* set is a faulted mission and a clean one.  In Scored the fault ends in a *)
(* collision and the scores vary; in Lost and Stuck the evidence varies.    *)
EXTENDS AlarmTuning

MCGrid == 3
MCUnit == 2520

Every(from, to, S(_)) == [i \in 1..to - from + 1 |-> S(from + i - 1)]
Standing(t) == [t |-> t, x |-> 0, yaw |-> 0]
Driving(t) == [t |-> t, x |-> 2 * t]
Commanded(t) == [t |-> t, moving |-> TRUE]

Quiet == [family |-> "none", terminal |-> "none", start |-> 0, end |-> 4, onset |-> None,
          truth |-> Every(0, 5, Standing), amcl |-> Every(0, 5, Standing),
          commands |-> Every(0, 5, Commanded), odometry |-> Every(0, 5, Driving),
          raw |-> <<0, 0, 1, 1>>]
Faulted == [Quiet EXCEPT !.family = "blockage", !.terminal = "collision", !.end = 5,
                         !.raw = <<0, 1, 2, 1, 0>>]
Sets(faulted, clean) == {[faulted |-> f, clean |-> c] : f \in faulted, c \in clean}

CleanScores == {<<0, 0, 1, 1>>, <<2, 1, 0, 1>>, <<3, 2, 3, 3>>}
Scored == Sets({[Faulted EXCEPT !.raw = Append(f, 0)] : f \in [1..4 -> 0..MCGrid]},
               {[Quiet EXCEPT !.raw = c] : c \in CleanScores})

\* Estimates whose translation or yaw is off by two, with and without gaps, and a
\* ground truth that is missing around 2; the recording begins before the dispatch and
\* goes on after a success, and an injection may begin after it.
Estimates(Times) ==
    {[i \in 1..3 |-> [t |-> ts[i], x |-> xs[i], yaw |-> ys[i]]] :
        ts \in Times, xs \in [1..3 -> {0, 2}], ys \in [1..3 -> {0, 2}]}
Sparse == <<Standing(0), Standing(4)>>
Arrived == [Faulted EXCEPT !.terminal = "none", !.end = 4]
Lost == Sets({[Arrived EXCEPT !.amcl = a] : a \in Estimates({<<1, 2, 3>>, <<1, 3, 4>>, <<1, 2, 5>>})}
             \cup {[Arrived EXCEPT !.amcl = a, !.onset = 1] : a \in Estimates({<<1, 3, 5>>})}
             \cup {[Arrived EXCEPT !.amcl = a, !.onset = 5] : a \in Estimates({<<1, 2, 3>>})}
             \cup {[Arrived EXCEPT !.amcl = a, !.start = 3] : a \in Estimates({<<0, 1, 2>>, <<1, 2, 4>>})}
             \cup {[Faulted EXCEPT !.amcl = a, !.truth = Sparse] : a \in Estimates({<<1, 2, 3>>})},
             {Quiet})

\* Paths that advance by at most two a second, with a pause of the command.
Paths == {p \in [1..5 -> 0..3] : p[1] = 0 /\ \A i \in 2..5 : p[i] - p[i - 1] \in {0, 1, 2}}
Pauses == {{}, {1}, {3}}
Stuck == Sets({[Faulted EXCEPT !.odometry = [i \in 1..5 |-> [t |-> i, x |-> p[i]]],
                               !.commands = [i \in 1..5 |-> [t |-> i, moving |-> i \notin off]],
                               !.terminal = "mission_timeout"] :
                 p \in Paths, off \in Pauses},
              {Quiet})

AllSets == Scored \cup Lost \cup Stuck

Sharper == {[s \in 0..MCGrid |-> CASE s = 0 -> 252 [] s = 1 -> 630 [] s = 2 -> 1890 [] s = 3 -> 2268]}
Logistic == {[s \in 0..MCGrid |-> CASE s = 0 -> 504 [] s = 1 -> 756 [] s = 2 -> 1008 [] s = 3 -> 1260],
             [s \in 0..MCGrid |-> 2016 - 504 * s]}
=============================================================================
