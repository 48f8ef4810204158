--------------------------- MODULE MCSubscriberLog ---------------------------
(* A small instance of SubscriberLog.                                         *)
EXTENDS SubscriberLog

FourCalls == 1..4

\* A window that slides, one that grows until it is refused, and one that stays, with
\* rows that land in it while it is read.
Between(from, to) == [from |-> from, to |-> to]
SomeAsks == {Between(Default, Default), Between(0, Default), Between(1, 3)}
=============================================================================
