----------------------------- MODULE CommandMerge ------------------------------
(***************************************************************************)
(* The slash commands of a guild (cmd/scheduler/src/command_manager.rs):   *)
(* what one script contributes, as the tree Discord wants, and how the     *)
(* trees of all scripts of a guild become one.  A description is TRUE when *)
(* a script gives one and FALSE for the placeholder.                       *)
(***************************************************************************)
EXTENDS Naturals, SequencesExt

NoGroup == "-"

\* The index of the first entry with this name, 0 when there is none.
Find(s, name) == SelectInSeq(s, LAMBDA e : e.name = name)

\* From<Command> for CommandOption: a command inside a group.
SubCommand(cmd) == [name |-> cmd.name, desc |-> TRUE, kind |-> "sub", opts |-> <<>>]

\* A command of its own; `plain` says that it takes options that are no sub commands.
TopCommand(cmd) ==
  [name |-> cmd.name, desc |-> TRUE,
   opts |-> IF cmd.plain THEN <<[name |-> "arg", desc |-> TRUE, kind |-> "other", opts |-> <<>>]>>
            ELSE <<>>]

\* make_unknown_group
make_unknown_group(name) == [name |-> name, desc |-> FALSE, opts |-> <<>>]

\* group_to_twilight_command: a declared group, with its sub groups still empty.
group_to_twilight_command(g) ==
  [name |-> g.name, desc |-> TRUE,
   opts |-> [i \in DOMAIN g.sub_groups |->
               [name |-> g.sub_groups[i], desc |-> TRUE, kind |-> "group", opts |-> <<>>]]]

\* A command goes into its group, or into the sub group it names, which is made if need be.
PutInGroup(opts, cmd) ==
  LET j == Find(opts, cmd.sub_group)
  IN IF cmd.sub_group = NoGroup THEN Append(opts, SubCommand(cmd))
     ELSE IF j # 0 THEN [opts EXCEPT ![j].opts = Append(@, SubCommand(cmd))]
     ELSE Append(opts, [name |-> cmd.sub_group, desc |-> FALSE, kind |-> "group",
                        opts |-> <<SubCommand(cmd)>>])

\* The loop over the commands that have a group.
PutAll(groups, cmds) ==
  LET Put(gs, cmd) ==
        LET known == IF Find(gs, cmd.group) # 0 THEN gs
                     ELSE Append(gs, make_unknown_group(cmd.group))
        IN [known EXCEPT ![Find(known, cmd.group)].opts = PutInGroup(@, cmd)]
      put[n \in 0 .. Len(cmds)] == IF n = 0 THEN groups ELSE Put(put[n - 1], cmds[n])
  IN put[Len(cmds)]

\* to_twilight_commands
to_twilight_commands(meta) ==
  LET declared == <<>> \o [i \in DOMAIN meta.groups |-> group_to_twilight_command(meta.groups[i])]
      alone == SelectSeq(meta.commands, LAMBDA cmd : cmd.group = NoGroup)
      grouped == SelectSeq(meta.commands, LAMBDA cmd : cmd.group # NoGroup)
  IN [i \in DOMAIN alone |-> TopCommand(alone[i])] \o PutAll(declared, grouped)

-----------------------------------------------------------------------------

\* Sub commands are added to a group unless their name is taken.
AddSubs(opts, more) ==
  LET Add(os, o) == IF Find(os, o.name) # 0 THEN os ELSE Append(os, o)
      sub[n \in 0 .. Len(more)] == IF n = 0 THEN opts ELSE Add(sub[n - 1], more[n])
  IN sub[Len(more)]

\* merge_subgroups
merge_subgroups(dst, src) ==
  [dst EXCEPT !.desc = @ \/ src.desc,
              !.opts = IF @ = <<>> THEN src.opts ELSE AddSubs(@, src.opts)]

IsSub(opt) == opt.kind \in {"sub", "group"}

\* Slip: the rest of the options is left out at the first name that is taken.
StopAtConflict(opts, more) ==
  LET taken == SelectInSeq(more, LAMBDA o : Find(opts, o.name) # 0)
  IN opts \o SubSeq(more, 1, IF taken = 0 THEN Len(more) ELSE taken - 1)

\* The loop of merge_command: up to the first option that is no sub command or group, the
\* options are added; two groups of one name are merged, a sub command is left out when
\* its name is taken.
AddOptions(opts, more) ==
  LET other == SelectInSeq(more, LAMBDA o : ~IsSub(o))
      last == IF other = 0 THEN Len(more) ELSE other - 1
      Add(os, o) ==
        LET j == Find(os, o.name)
        IN IF j = 0 THEN Append(os, o)
           ELSE IF os[j].kind = "group" /\ o.kind = "group"
                THEN [os EXCEPT ![j] = merge_subgroups(@, o)]
           ELSE os
      opt[n \in 0 .. last] == IF n = 0 THEN opts ELSE Add(opt[n - 1], more[n])
  IN opt[last]

\* merge_command: a command with options of its own takes no sub commands.
merge_command(dst, src) ==
  [dst EXCEPT !.desc = @ \/ src.desc,
              !.opts = IF \E i \in DOMAIN @ : ~IsSub(@[i]) THEN @ ELSE AddOptions(@, src.opts)]

\* The loop of merge_script_commands.
AddCommands(cmds) ==
  LET Add(cs, c) ==
        LET i == Find(cs, c.name)
        IN IF i = 0 THEN Append(cs, c) ELSE [cs EXCEPT ![i] = merge_command(@, c)]
      cmd[n \in 0 .. Len(cmds)] == IF n = 0 THEN <<>> ELSE Add(cmd[n - 1], cmds[n])
  IN cmd[Len(cmds)]

\* merge_script_commands, of what the scripts contribute in the order they are listed.
merge_script_commands(contribs) == AddCommands(FlattenSeq(contribs))

-----------------------------------------------------------------------------

\* The commands a user can call, as the way from the top to the command.
Leaves(cmds) ==
  UNION {LET c == cmds[i]
         IN IF \A j \in DOMAIN c.opts : ~IsSub(c.opts[j]) THEN {<<c.name>>}
            ELSE UNION {LET o == c.opts[j]
                        IN IF o.kind = "group" THEN {<<c.name, o.name, o.opts[k].name>> : k \in DOMAIN o.opts}
                           ELSE {<<c.name, o.name>>} : j \in DOMAIN c.opts}
         : i \in DOMAIN cmds}

\* The commands a script declares, written the same way.
Declared(meta) ==
  {LET c == meta.commands[i]
   IN IF c.group = NoGroup THEN <<c.name>>
      ELSE IF c.sub_group = NoGroup THEN <<c.group, c.name>>
      ELSE <<c.group, c.sub_group, c.name>> : i \in DOMAIN meta.commands}

\* Two ways conflict when one command would have to be a group as well.
Conflict(leaves) ==
  \E p, q \in leaves : Len(p) < Len(q) /\ p = SubSeq(q, 1, Len(p))

\* For scripts whose metas these are, the commands they were merged to: no command is
\* lost and none made up, unless what they declare conflicts; and no name is there twice.
MergesAll(metas, cmds) ==
  LET all == UNION {Declared(metas[i]) : i \in DOMAIN metas}
  IN /\ \A i, j \in DOMAIN cmds : cmds[i].name = cmds[j].name => i = j
     /\ ~Conflict(all) => Leaves(cmds) = all
===============================================================================
