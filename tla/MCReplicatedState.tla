-------------------------- MODULE MCReplicatedState --------------------------
(***************************************************************************)
(* ReplicatedState for TLC: entries around one stream id that is deleted   *)
(* and created again, its keys and its ownership.                          *)
(***************************************************************************)
EXTENDS ReplicatedState

CONSTANTS s, a, b, v, n1, n2, n3

Create(t) == [op |-> "create", id |-> s, token |-> t]
Begin(t) == [op |-> "begin", id |-> s, token |-> t]
Finalize == [op |-> "finalize", id |-> s]
Enable(on) == [op |-> "enable", id |-> s, on |-> on]
AddViewer == [op |-> "add_viewer", id |-> s, viewer |-> v]
DeleteViewer(w) == [op |-> "delete_viewer", id |-> s, viewer |-> w]
Acquire(n) == [op |-> "acquire", id |-> s, node |-> n]
Release(k) == [op |-> "release", id |-> s, epoch |-> k]
ReleaseNode(n, k) == [op |-> "release_node", node |-> n, max |-> k]
ChangeMembers(m) == [op |-> "members", members |-> m]

TableProposals == {Create(a), Create(b), Begin(a), Finalize, Enable(TRUE), AddViewer, DeleteViewer(v),
                   DeleteViewer(Default), Acquire(n1), Acquire(n2), Release(2), ReleaseNode(n1, 2),
                   [op |-> "blank"], [op |-> "api", api |-> a]}
SnapshotProposals == {Create(a), Begin(a), ChangeMembers({n1})}
=============================================================================
