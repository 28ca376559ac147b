--------------------------- MODULE LockAnnotation ---------------------------
(***************************************************************************)
(* What Fini (pintool_main.cpp) does to the tables when the target exits:  *)
(* it erases the empty critical sections and then copies, into every       *)
(* memory access, the lock of a section that encloses it.                  *)
(***************************************************************************)
EXTENDS Structs, FiniteSetsExt

\* "If a critical section does not protect any memory access from the same
\* thread, it is an empty cs" -- ma is the two-dimensional maTable.
is_cs_empty(cs, ma) ==
  \A j \in DOMAIN ma[cs.tid] : ~Encloses(cs, ma[cs.tid][j])

\* Mutant: a section holding a single event counts as empty.
KeptLongSections(csTab, ma) ==
  {k \in DOMAIN csTab : /\ csTab[k].st + 2 # csTab[k].ft
                        /\ ~is_cs_empty(csTab[k], ma)}

\* The indices that survive the erasing loop.
KeptSections(csTab, ma) ==
  {k \in DOMAIN csTab : /\ csTab[k].st + 1 # csTab[k].ft
                        /\ ~is_cs_empty(csTab[k], ma)}

\* Mutant: the thread test is dropped.
EnclosingSectionsOfAny(a, csTab) ==
  {k \in DOMAIN csTab : Encloses(csTab[k], a)}

EnclosingSections(a, csTab) ==
  {k \in DOMAIN csTab : Encloses(csTab[k], a) /\ a.tid = csTab[k].tid}

\* The loop runs from the back of the table and stops at the first match, so
\* it picks the section opened last; but the first entry of the table is
\* tested after the loop in any case and replaces what the loop found.
AnnotatingSection(E) == IF 1 \in E THEN 1 ELSE Max(E)

Annotate(a, csTab) ==
  LET E == EnclosingSections(a, csTab)
      k == AnnotatingSection(E)
  IN  IF E = {} THEN a
      ELSE [a EXCEPT !.lock_ev   = csTab[k].lock_entry_v,
                     !.lock_cv   = csTab[k].lock_callsite_v,
                     !.unlock_cv = csTab[k].unlock_callsite_v]
=============================================================================
