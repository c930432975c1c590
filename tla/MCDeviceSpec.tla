---------------------------- MODULE MCDeviceSpec ----------------------------
(***************************************************************************)
(* Small device specifications for DeviceSpec: a few disks among which one *)
(* or more are tagged, and a few GPUs beside one boot disk.                *)
(***************************************************************************)
EXTENDS DeviceSpec

A == [column |-> "vendor", operator |-> "eq", value |-> "samsung"]
B == [column |-> "size", operator |-> "gt", value |-> "100"]
Model(m) == [column |-> "model", operator |-> "eq", value |-> m]
NotModel == [column |-> "model", operator |-> "ne", value |-> "a100-80g"]

DiskLists == {<<>>, <<A>>, <<A, B>>}
GpuLists == {<<A>>, <<NotModel, Model("h100")>>, <<Model("nvidia-h100")>>, <<Model("a100-40g")>>}

Plain == [type |-> "storage", res_spec |-> {}, res_spcec |-> {}, tag |-> "nil",
          num |-> 1, min |-> 0, max |-> 0]
Null == [Plain EXCEPT !.type = "null"]

Disk(tags, nums) ==
  {[Plain EXCEPT !.tag = t, !.num = n, !.res_spec = s] :
     t \in tags, n \in nums, s \in {{}} \cup {{l} : l \in DiskLists}}
  \cup {[Plain EXCEPT !.tag = t, !.res_spcec = {l}, !.res_spec = {<<A>>}] :
     t \in tags, l \in DiskLists}
Tagged == [Plain EXCEPT !.tag = "yes", !.res_spec = {<<A, B>>}]

Gpu ==
  {[Plain EXCEPT !.type = "gpu", !.tag = t, !.res_spec = s, !.min = lo, !.max = hi] :
     t \in {"nil", "yes"}, s \in {{}} \cup {{l} : l \in GpuLists}, lo \in {-1, 0, 2}, hi \in 0 .. 2}

DiskSpecs == {<<>>} \cup {<<d>> : d \in Disk({"nil", "no", "yes"}, -1 .. 2) \cup {Null}}
   \cup {<<d, e>> : d, e \in Disk({"nil", "yes"}, 0 .. 2) \cup {Null}}
   \cup {<<d, e, Tagged>> : d, e \in Disk({"nil", "yes"}, {1})}

MCDevices == DiskSpecs \cup {<<g, Tagged>> : g \in Gpu}
   \cup {<<Tagged, g, h>> : g, h \in {x \in Gpu : x.tag = "nil"}}
MCLists == DiskLists \cup GpuLists

===========================================================================
