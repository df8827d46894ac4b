SPECIFICATION Spec
CONSTANTS
    t1 = t1  t2 = t2  w1 = w1  w2 = w2
    Tasks <- OneTask
    NoRepo = NoRepo
    Setups <- TwoSlots
    MaxAttempts = 2
    Loop = loop
    Routes = {"route"}
    Workers <- OneWorker
    Nobody = Nobody
    MaxOvertaken = 1
    MaxFaults = 1
CONSTRAINT NeverOvertaken
PROPERTIES SlotsDrain GhostsAreRequeued
