--------------------------- MODULE MergeContract ---------------------------
(***************************************************************************)
(* What search/posmerge.c promises to its callback.  Posting files are     *)
(* sorted by document id; the merge reports, in increasing order, every id *)
(* that occurs in ALL files.  One round reports one id: every item of that *)
(* id, pipe by pipe and in file order, and then the ending call.  The      *)
(* callback may stop the merge at the end of a round.                      *)
(*                                                                         *)
(* The promise is made for the files that satisfy Sized(_).                *)
(***************************************************************************)
EXTENDS Integers, Sequences

CONSTANTS N,        \* number of pipes (search directories merged)
          Sized(_)  \* the combinations of files the promise is made for

VARIABLES file,     \* pipe -> sequence of document ids, one per posting item
          rounds,   \* the rounds reported: <<[id |-> .., calls |-> ..], ..>>
          status    \* "merging", or how it ended: "exhausted", "stopped", "failed"

avars == <<file, rounds, status>>

Pipes == 0 .. N - 1

IdsOf(f) == {f[k] : k \in DOMAIN f}
CommonIds == {d \in IdsOf(file[0]) : \A p \in Pipes : d \in IdsOf(file[p])}

LastId == IF rounds = <<>> THEN 0 ELSE rounds[Len(rounds)].id
Pending == {d \in CommonIds : d > LastId}

\* The items of id d, as callback calls <<pipe, position in the file>>.
Items == UNION {{p} \X DOMAIN file[p] : p \in Pipes}
ItemsOf(d) == {c \in Items : file[c[1]][c[2]] = d}

\* Pipe by pipe, and in file order.
Before(c, e) == c[1] < e[1] \/ (c[1] = e[1] /\ c[2] < e[2])

\* The round of id d: each of its items once, in that order.
IsRoundOf(d, r) ==
  /\ r.id = d
  /\ {r.calls[j] : j \in DOMAIN r.calls} = ItemsOf(d)
  /\ \A j, k \in DOMAIN r.calls : j < k => Before(r.calls[j], r.calls[k])

---------------------------------------------------------------------------

AInit == rounds = <<>> /\ status = "merging"

Deliver ==
  /\ status = "merging"
  /\ \E d \in Pending :
       /\ \A e \in Pending : d <= e
       /\ \E k \in DOMAIN rounds' : /\ rounds' = Append(rounds, rounds'[k])
                                  /\ IsRoundOf(d, rounds'[k])
  /\ status' \in {"merging", "stopped"}

Exhaust ==
  /\ status = "merging"
  /\ Pending = {}
  /\ status' = "exhausted"
  /\ UNCHANGED rounds

\* A posting file could not be opened: nothing is reported at all.
Fail ==
  /\ status = "merging" /\ rounds = <<>>
  /\ status' = "failed"
  /\ UNCHANGED rounds

\* No promise is made about files that are not Sized.
Unspecified == ~Sized(file)

ANext == UNCHANGED file /\ (Deliver \/ Exhaust \/ Fail \/ Unspecified)

ASpec == AInit /\ [][ANext]_avars

=============================================================================
