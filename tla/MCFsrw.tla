------------------------------- MODULE MCFsrw -------------------------------
(* Volumes for Fsrw, with one or two blocks of FAT.                         *)
EXTENDS Fsrw, Sequences, FiniteSets

Seqs(n) == UNION {[1 .. k -> Clusters] : k \in 0 .. n}
Distinct(s) == Cardinality({s[i] : i \in DOMAIN s}) = Len(s)

FatOf(s, c) ==
  IF \E i \in DOMAIN s : s[i] = c
  THEN LET i == CHOOSE j \in DOMAIN s : s[j] = c
       IN IF i = Len(s) THEN EndOfChain ELSE s[i + 1]
  ELSE 0

\* The volume that holds file with chain s, or not, and other with chain t.
Volume(present, s, t) ==
  LET first(f) == LET ch == IF f = "file" THEN s ELSE t IN IF ch = <<>> THEN 0 ELSE ch[1]
      size(f) == IF f = "other" THEN Len(t) * SectorsPerCluster
                 ELSE IF present THEN Len(s) * SectorsPerCluster ELSE Absent
  IN [l \in Locs |->
        CASE l[1] = "first" -> first(l[2])
          [] l[1] = "size"  -> size(l[2])
          [] l[1] = "fat" /\ l[2] < 2 -> EndOfChain
          [] OTHER -> IF FatOf(s, l[2]) # 0 THEN FatOf(s, l[2]) ELSE FatOf(t, l[2])]

MCDisks ==
  {Volume(TRUE, st[1], st[2]) :
     st \in {x \in Seqs(2) \X {<<4>>, <<6, 2>>, <<2, 3, 4, 5>>} : Distinct(x[1] \o x[2])}}
  \cup {Volume(FALSE, <<>>, t) : t \in {<<2>>, <<5, 3>>}}

ASSUME MCDisksAreInOrder == Whole /\ Lean
=============================================================================
