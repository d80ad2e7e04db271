------------------------------ MODULE MCUploader ------------------------------
(* The tab and the symmetry sets for the instances of Uploader. *)
EXTENDS UploaderInvariants, TLC

\* All pages are mountings in one tab.
OneTab == [p \in Page |-> CHOOSE t \in Tab : TRUE]

Symmetry ==
  Permutations(Page) \cup Permutations(Session) \cup Permutations(Id)
    \cup Permutations(Candidate)

=============================================================================
