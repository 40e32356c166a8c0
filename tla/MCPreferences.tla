--------------------------- MODULE MCPreferences ---------------------------
(* Values of the constants of Preferences.                                 *)
EXTENDS Preferences

(* A limit alone; both, in either order; one of them cleared; one that is  *)
(* no number; a key that is no limit; one that is refused, one beyond its  *)
(* bounds.                                                                 *)
MCSaves == { << <<"new", 2>> >>, << <<"total", 1>> >>,
             << <<"new", 1>>, <<"total", 1>> >>, << <<"total", 2>>, <<"new", 2>> >>,
             << <<"new", Unset>>, <<"total", 1>> >>,
             << <<"total", Text>>, <<"new", 2>> >>,
             << <<"count", 1>> >>,
             << <<"new", 2>>, <<"total", 1>> >>, << <<"total", 0>> >> }

MCBounds == [k \in {"new", "total", "count"} |-> <<1, 2>>]

(* Three spellings of two names.                                           *)
MCNames == {"French", "french", "Greek"}
MCFolded(n) == IF n = "French" THEN "french" ELSE n
=============================================================================
