--------------------------- MODULE MCDockerChild ---------------------------
(* Instances of DockerChild for TLC. *)
EXTENDS DockerChild

CONSTANTS a, b

(* More input and output than a pipe holds at once, a line on stderr. *)
MCInput == [c \in Caller |-> 2]
MCSize == [c \in Caller |-> [p \in {"out", "err"} |-> IF p = "out" THEN 2 ELSE 1]]

(* Small messages, for two callers. *)
MCSmallInput == [c \in Caller |-> 1]
MCSmallSize == [c \in Caller |-> [p \in {"out", "err"} |-> 1]]

(* More on stderr than a pipe holds. *)
MCChattySize == [c \in Caller |-> [p \in {"out", "err"} |-> 2]]
=============================================================================
