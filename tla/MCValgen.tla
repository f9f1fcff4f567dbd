------------------------------ MODULE MCValgen ------------------------------
(* Small ratings files for ValgenThreads. *)
EXTENDS ValgenThreads, TLC

(* A set of numbered ratings as a sequence in the given order. *)
Sorted(ratings, before(_, _)) ==
    [i \in 1..Cardinality(ratings) |->
        LET r == CHOOSE r \in ratings :
                    Cardinality({s \in ratings : before(s, r)}) = i - 1
        IN  [userId |-> r[1][1], eltid |-> r[1][2]]]

Before(a, b) == a[1] < b[1] \/ (a[1] = b[1] /\ (a[2] < b[2] \/ (a[2] = b[2] /\ a[3] < b[3])))

(* times[<<u, e>>] ratings of element e by person u. *)
LoadOf(n, times) ==
    LET ratings == UNION {{<<p, k>> : k \in 1..times[p]} : p \in DOMAIN times}
    IN  [num_elts |-> n,
         br |-> Sorted(ratings, LAMBDA r, s : Before(<<r[1][1], r[1][2], r[2]>>, <<s[1][1], s[1][2], s[2]>>)),
         brds |-> Sorted(ratings, LAMBDA r, s : Before(<<r[1][2], r[1][1], r[2]>>, <<s[1][2], s[1][1], s[2]>>)),
         confident |-> (1..n) \X (1..n) \ {<<1, 3>>}]

(* Two people, every set of ratings that leaves no element without one. *)
SmallLoads(n) ==
    {LoadOf(n, times) : times \in
        {f \in [(1..2) \X (1..n) -> 0..1] : \A e \in 1..n : f[<<1, e>>] + f[<<2, e>>] > 0}}

(* Five elements; the first person rates two of them twice. *)
TwiceLoad ==
    LoadOf(5, [p \in (1..2) \X (1..5) |->
        IF p[1] = 1 THEN IF p[2] \in {2, 4} THEN 2 ELSE 1 ELSE IF p[2] = 3 THEN 0 ELSE 1])

MCLoads ==
    SmallLoads(1) \cup SmallLoads(2) \cup {TwiceLoad}
        \cup {LoadOf(3, [p \in (1..2) \X (1..3) |-> IF p = hole THEN 0 ELSE 1]) :
                hole \in (1..2) \X (1..3)}
=============================================================================
