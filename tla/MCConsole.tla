----------------------------- MODULE MCConsole -----------------------------
(***************************************************************************)
(* Console on a small instance, for TLC.  The menu has a title that begins *)
(* another, once listed before it and once after.  A typed boot has a      *)
(* prelude or a parameter.  Of the images one lacks an entry, and one has  *)
(* an entry with options, in a submenu, and one with a group of commands.  *)
(***************************************************************************)
EXTENDS Console

MCMenu   == <<"linux", "xen alt", "xen", "linux alt">>
MCLonger == {<<"xen", "xen alt">>, <<"linux", "linux alt">>}

Comment == FileLine("comment", "#", << >>)
Close   == FileLine("close", "end", << >>)
Blank   == FileLine("blank", "", << >>)
Kernel  == Command("linux", <<"/bzImage">>)

MCImages ==
  {<<Block("settings", "", <<Command("insmod", <<"slaunch">>), Blank, Comment,
                             Command("function", <<"load_skl">>), Command("slaunch_module", <<"/skl.bin">>), Close>>),
     Block("menuentry", "linux", <<Command("slaunch", << >>), Blank, Comment, Kernel>>),
     Block("menuentry", "xen", <<Command("multiboot2", <<"/xen">>), Command("module2", <<"/bzImage">>)>>)>>,
   <<Block("menuentry", "linux", <<Kernel>>)>>,
   <<Block("settings", "", <<Command("submenu", <<"more">>), Command("menuentry", <<"linux", "--class">>), Kernel, Close>>),
     Block("menuentry", "xen", <<Command("{", << >>), Command("insmod", <<"xen">>), Close,
                                 Command("multiboot2", <<"/xen">>)>>),
     Block("settings", "", <<Close>>)>>}
MCEntries ==
  {[title |-> "linux", prelude |-> << >>, parameter |-> <<"alt">>],
   [title |-> "xen", prelude |-> <<Command("set", <<"debug">>)>>, parameter |-> << >>],
   [title |-> "xen", prelude |-> << >>, parameter |-> <<"alt">>]}
=============================================================================
