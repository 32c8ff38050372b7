------------------------ MODULE MCControllerTransfer ------------------------
(* Fleets of one or two workers, each scenario with up to two calls.       *)
EXTENDS ControllerTransfer

CONSTANTS c1, c2

MCCalls == {c1, c2}
MCClients == MCCalls \cup {<<c>> : c \in MCCalls}

Local(m, ids) == [mem |-> m, ids |-> ids, groups |-> << >>, addr |-> << >>]
Grouped(m, ids, groups) == [mem |-> m, ids |-> ids, groups |-> groups, addr |-> << >>]
Addressed(m, ids, e) == [mem |-> m, ids |-> ids, groups |-> << >>, addr |-> <<e>>]

Peer(w, shards) == [place |-> "peer", w |-> w, shards |-> shards]
Group(node, eps) == [node |-> node, eps |-> eps]

Ask(c, src, dst) ==
  [src |-> src, dst |-> dst, sizes |-> << >>, from |-> c, target |-> {}]

Two(a, b) == [c \in MCCalls |-> IF c = c1 THEN a ELSE b]

\* One plain manager per worker, one shard, one layer, one failure.
Base(node, calls) ==
  [node |-> node, numa |-> <<0>>, nics |-> 1, multi |-> FALSE, layers |-> 1,
   static |-> FALSE, expected |-> Len(node), composite |-> FALSE, pool |-> TRUE,
   background |-> FALSE, parallelism |-> 1, most |-> 2, faults |-> 1, calls |-> calls]

After(c, r) == [r EXCEPT !.from = c]

\* Two workers whose order is not that of their node ids: a pull of two blocks
\* into the devices, block by block through staging; then they are offloaded.
PairedPull ==
  LET groups == <<Group(1, <<Peer(2, <<1>>)>>), Group(2, <<Peer(1, <<1>>)>>)>>
  IN  Base(<<2, 1>>,
        Two(Ask(c1, Grouped("dram", <<0, 1>>, groups), Local("hbm", <<2, 3>>)),
            After(c1, Ask(c2, Local("hbm", <<3>>), Local("dram", <<0>>)))))

\* The same workers pull a block into the host and push it back elsewhere.
PairedPush ==
  LET groups == <<Group(1, <<Peer(2, <<1>>)>>), Group(2, <<Peer(1, <<1>>)>>)>>
  IN  [Base(<<2, 1>>,
         Two(Ask(c1, Grouped("dram", <<2>>, groups), Local("dram", <<0>>)),
             After(c1, Ask(c2, Local("dram", <<0>>), Grouped("dram", <<1>>, groups)))))
       EXCEPT !.layers = 2]

\* A composite manager of two sub-managers; the peer lists its endpoints in
\* another order.
CompositePull ==
  [Base(<<1>>,
     Two(Ask(c1, Grouped("dram", <<0, 2>>, <<Group(1, <<Peer(1, <<2>>), Peer(1, <<1>>)>>)>>),
                 Local("hbm", <<1, 3>>)),
         After(c1, Ask(c2, Local("hbm", <<3>>), Local("dram", <<0>>)))))
   EXCEPT !.numa = <<0, 0>>, !.nics = 2, !.multi = TRUE, !.composite = TRUE]

\* Three blocks from the device to a peer on two streams, and a pull by address
\* that finds the pool too small while they are staged.
StagedPush ==
  [Base(<<1>>,
     Two(Ask(c1, Local("hbm", <<0, 1, 0>>), Addressed("dram", <<3, 1, 2>>, Peer(1, <<1, 2>>))),
         Ask(c2, Addressed("dram", <<0, 0>>, Peer(1, <<1, 2>>)), Local("hbm", <<2, 3>>))))
   EXCEPT !.pool = FALSE, !.parallelism = 2, !.numa = <<0, 0>>]

\* The same block by block, and another block that may reuse their staging blocks.
PipelinedPush ==
  Base(<<1>>,
    Two(Ask(c1, Local("hbm", <<0, 1>>), Addressed("dram", <<3, 2>>, Peer(1, <<1>>))),
        Ask(c2, Local("hbm", <<2>>), Addressed("dram", <<0>>, Peer(1, <<1>>)))))

\* Offload to the host and back, in the background, on workers without node ids.
RoundTrip ==
  [Base(<<0, 0>>,
     Two(Ask(c1, Local("hbm", <<0, 1>>), Local("dram", <<0, 0>>)),
         After(c1, Ask(c2, Local("dram", <<0, 0>>), Local("hbm", <<3, 2>>)))))
   EXCEPT !.static = TRUE, !.background = TRUE, !.numa = <<0, 1>>, !.multi = TRUE,
          !.composite = TRUE]

\* Known host blocks are restored with one copy of two, then copied within the
\* host over the worker's own endpoints.
HostCopy ==
  Base(<<1>>,
    Two([Ask(c1, Local("hbm", <<2>>), Local("dram", <<0>>)) EXCEPT !.target = {0, 1}, !.sizes = <<2>>],
        After(c1, Ask(c2, Local("dram", <<0, 0>>), Local("dram", <<0, 0>>)))))

\* The second worker has no counterpart, and the staging blocks are lost.
Unmatched ==
  Base(<<1, 2>>,
    Two(Ask(c1, Grouped("dram", <<0, 1>>, <<Group(1, <<Peer(1, <<1>>)>>)>>), Local("hbm", <<2, 3>>)),
        Ask(c2, Grouped("dram", <<2, 3, 0>>, <<Group(2, <<Peer(2, <<1>>)>>), Group(1, <<Peer(1, <<1>>)>>)>>),
                Local("dram", <<0, 0, 0>>))))

\* Two workers claim a node id, and the controller gives up.
Duplicate ==
  Base(<<1, 1>>, Two(Ask(c1, Local("hbm", <<0>>), Local("dram", <<0>>)),
                     Ask(c2, Local("hbm", <<1>>), Local("dram", <<0>>))))

\* A peer's device is asked for without staging blocks; a copy within the host
\* with a size; the controller starts with one worker of two.
Refused ==
  [Base(<<1, 2>>,
     Two(Ask(c1, Grouped("hbm", <<0>>, <<Group(1, <<Peer(1, <<1>>)>>)>>), Local("dram", <<0>>)),
         [Ask(c2, Local("dram", <<0>>), Addressed("dram", <<3>>, Peer(1, <<1>>)))
            EXCEPT !.sizes = <<2>>]))
   EXCEPT !.expected = 1]

\* A block of the device for a peer's host, given by worker groups: it is copied
\* into a block of this worker's own host, while another call reserves one.
Misdirecting ==
  Base(<<1>>,
    Two(Ask(c1, Local("hbm", <<0>>), Grouped("dram", <<0>>, <<Group(1, <<Peer(1, <<1>>)>>)>>)),
        Ask(c2, Local("hbm", <<2>>), Local("dram", <<0>>))))

\* Two sub-managers pull from a peer with one endpoint for both shards, and from
\* one without an endpoint for the second shard.
Resplit ==
  LET pull(shards) == Grouped("dram", <<1>>, <<Group(1, <<Peer(1, shards)>>)>>)
  IN  [Base(<<1>>, Two(Ask(c1, pull(<<1, 2>>), Local("dram", <<0>>)),
                       Ask(c2, pull(<<1>>), Local("dram", <<0>>))))
       EXCEPT !.numa = <<0, 1>>, !.multi = TRUE, !.composite = TRUE]

MCScenarios == {PairedPull, PairedPush, CompositePull, StagedPush, PipelinedPush, RoundTrip,
                HostCopy, Unmatched, Duplicate, Refused, Misdirecting, Resplit}
=============================================================================
