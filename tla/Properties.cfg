\* What the property tests vouch for, with a HAL that answers anything.
CONSTANTS
    vin = vin
    seat = seat
    odometer = odometer
    speed = speed
    gear = gear
    door = door
    oilTemp = oilTemp
    Prop = {vin, seat, odometer, speed, gear, door, oilTemp}
    TypeOf <- Types
    Listings <- SomeListings
    Answers <- SomeAnswers
    StaticProps = {vin}
    EnumProps = {gear}
    UnitProps = {}
    OilTemp = oilTemp
    Expected <- Table
    NoValue = NoValue
SPECIFICATION Spec
CHECK_DEADLOCK FALSE
INVARIANTS
    TypeOK
    StaticVouched
    RangesVouched
    GlobalsVouched
    FailuresJustified
    OilVerdict
    LeftSubscribed
