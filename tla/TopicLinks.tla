---------------------------- MODULE TopicLinks ----------------------------
(* The connections between a publication and its subscribers, which the       *)
(* modules of its two ends share.                                             *)
CONSTANTS
    Link,   \* connections
    Local   \* those within a process: an IntraProcessSubscriberLink at one end,
            \* an IntraProcessPublisherLink at the other

ASSUME LocalAssumption == Local \subseteq Link

Remote == Link \ Local
===========================================================================
