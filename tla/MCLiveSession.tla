---------------------------- MODULE MCLiveSession ----------------------------
(***************************************************************************)
(* Small instance of LiveSession: two directories of up to three entries,  *)
(* a page is one entry; a terminal of two letters.  Each start uses the    *)
(* parts that can meet.                                                    *)
(***************************************************************************)
EXTENDS LiveSession

CONSTANTS a, b

MCUses == {{"files", "bash", "disconnect"}, {"metrics", "bash", "disconnect"}, {"terminal"}}

\* Keys, a corrected key, a line at once, and a paste of more than a line.
MCChunks == {<<a>>, <<Backspace, b>>, <<Newline>>, <<Interrupt>>, <<Escape>>, <<a, Newline>>,
             <<a, Newline, b>>}

MCTexts == {<<a, Newline>>}

MCSensitive == {<<a, b>>}
=============================================================================
