--------------------------- MODULE MCLegacyImport ---------------------------
(***************************************************************************)
(* LegacyImport for TLC.  The import touches the source only while it      *)
(* reads, and the target only while it writes: steps of the legacy         *)
(* application at any other time commute with those of the import, and so  *)
(* do steps of the new one.  Each is taken in the phase where it matters.  *)
(***************************************************************************)
EXTENDS LegacyImport, TLC

NewLevel(db, after) == after.levels # db.levels /\ after.langs = db.langs

(* The old application is used between the reads; the level and the active *)
(* language, which are read last, change right before.  The clock moves    *)
(* from one review to the next.                                            *)
LegacyInPhase ==
  /\ \/ imp.pc \in {"langs", "cards", "reviews"} /\ ~NewLevel(Rows, Rows')
     \/ At("levels") /\ Rows'.levels # Rows.levels
     \/ At("active") /\ Rows'.active # Rows.active
  /\ clock' # clock => src.ids.reviews = 2

(* The user adds languages, cards and reviews before the script comes to   *)
(* the last of its own, and levels and settings when it comes to them, and *)
(* renames a language between two runs, or while the script knows it only  *)
(* by its id.                                                              *)
AppInPhase ==
  \/ /\ At("import")
     /\ dst'.ids.langs # dst.ids.langs => imp.left.langs # {}
     /\ dst'.ids.cards # dst.ids.cards => imp.left.cards # {}
     /\ dst'.ids.reviews # dst.ids.reviews => imp.left.cards \cup imp.left.reviews # {}
     /\ NewLevel(dst.tables, dst'.tables) => imp.left.reviews = {} /\ imp.left.levels # {}
     /\ dst'.tables.active # dst.tables.active /\ dst'.profile =>
          imp.left.levels = {} /\ imp.left.active # {}
     /\ renamed' # renamed => imp.left.langs = {} /\ imp.left.cards = imp.got.cards
  \/ At("idle") /\ runs < MaxImports /\ renamed' # renamed

(* A run that is stopped leaves what one that is rolled back leaves.       *)
StopInPhase == At("import") /\ (Finished \/ ParentGone \/ dst' # dst)

InPhase ==
  /\ legacy' # legacy => LegacyInPhase
  /\ dst' # dst /\ imp' = imp => AppInPhase
  /\ ~At("idle") /\ imp'.pc = "idle" => StopInPhase

(* Two cards are saved, and one of them reviewed, or one is, and reviewed  *)
(* twice; the source has a level or reviews.                               *)
Small ==
  /\ src'.ids.cards + (dst'.ids.cards - Cardinality(brought')) + 2 * src'.ids.reviews <= 10
  /\ src'.ids.reviews = 1 \/ src'.tables.levels = {}

Symmetry == Permutations(Names)
=============================================================================
