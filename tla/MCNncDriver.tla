----------------------------- MODULE MCNncDriver -----------------------------
(***************************************************************************)
(* NncDriver for TLC: two sources of two statements, so that an error in   *)
(* the second source meets the files of the first.                         *)
(***************************************************************************)
EXTENDS NncDriver
==============================================================================
